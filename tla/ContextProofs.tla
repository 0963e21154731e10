---------------------------- MODULE ContextProofs ----------------------------
(***************************************************************************)
(* What the main program and its interrupt handlers share stays exact, for *)
(* every set of handlers: a once_flag, a value under guarded and a         *)
(* tick_extender.  And what threads share through an atomic_ref, for every *)
(* set of threads.                                                         *)
(***************************************************************************)
EXTENDS OnceFlag, TLAPS

-----------------------------------------------------------------------------
\* A sequence is a function on its indices, empty when it has none.
LEMMA SeqFacts ==
  ASSUME NEW S, NEW s \in Seq(S)
  PROVE  /\ Len(s) \in Nat /\ s \in [1 .. Len(s) -> S] /\ DOMAIN s = 1 .. Len(s)
         /\ s = <<>> <=> Len(s) = 0
OBVIOUS

LEMMA AppendFacts ==
  ASSUME NEW S, NEW s \in Seq(S), NEW e \in S
  PROVE  /\ Append(s, e) \in Seq(S) /\ Append(s, e) # <<>>
         /\ Len(s) \in Nat /\ Len(Append(s, e)) = Len(s) + 1
         /\ \A i \in 1 .. Len(s) : Append(s, e)[i] = s[i]
         /\ Append(s, e)[Len(s) + 1] = e /\ Last(Append(s, e)) = e
<1>1. /\ Append(s, e) \in Seq(S) /\ Len(s) \in Nat /\ Len(Append(s, e)) = Len(s) + 1
      /\ \A i \in 1 .. Len(s) : Append(s, e)[i] = s[i]
      /\ Append(s, e)[Len(s) + 1] = e
  OBVIOUS
<1> QED
  BY <1>1, SeqFacts DEF Last

LEMMA FrontFacts ==
  ASSUME NEW S, NEW s \in Seq(S), s # <<>>
  PROVE  /\ Len(s) \in Nat /\ Len(s) > 0 /\ Last(s) = s[Len(s)] /\ Last(s) \in S
         /\ Front(s) \in Seq(S) /\ Len(Front(s)) = Len(s) - 1
         /\ \A i \in 1 .. Len(s) - 1 : Front(s)[i] = s[i]
<1>1. Len(s) \in Nat /\ Len(s) > 0 /\ \A k \in 1 .. Len(s) : s[k] \in S
  BY SeqFacts
<1>2. Front(s) = SubSeq(s, 1, Len(s) - 1)
  BY Zenon DEF Front
<1>3. Front(s) \in Seq(S)
  BY <1>1, <1>2
<1>4. Len(Front(s)) = Len(s) - 1
  <2>1. Len(s) = 1 \/ Len(s) > 1
    <3>1. \A n \in Nat : n > 0 => n = 1 \/ n > 1
      OBVIOUS
    <3> QED
      BY <1>1, <3>1, Zenon
  <2>2. CASE Len(s) = 1
    BY <1>2, <2>2
  <2>3. CASE Len(s) > 1
    BY <1>2, <2>3
  <2> QED
    BY <2>1, <2>2, <2>3, Zenon
<1>5. \A k \in 1 .. Len(s) - 1 : Front(s)[k] = s[k]
  BY <1>1, <1>2
<1>6. Last(s) = s[Len(s)] /\ Last(s) \in S
  BY <1>1 DEF Last
<1> QED
  BY <1>1, <1>3, <1>4, <1>5, <1>6, Zenon

(***************************************************************************)
(* The started contexts: the main program first, priorities ascending.     *)
(***************************************************************************)
CoreOK ==
  /\ running \in Seq(Contexts) /\ running # <<>> /\ running[1] = 0
  /\ \A i \in 1 .. Len(running) - 1 : running[i] < running[i + 1]

LEMMA InterruptCore ==
  ASSUME CoreOK, NEW c, Interrupt(c)
  PROVE  CoreOK' /\ Last(running') = c /\ c \in Isrs /\ ~primask
<1>1. c \in Isrs /\ c \in Contexts /\ ~primask /\ c > Last(running)
      /\ running' = Append(running, c)
  BY Zenon DEF Interrupt, Contexts
<1>2. /\ Len(running) \in Nat /\ Len(running) > 0 /\ Last(running) = running[Len(running)]
  BY FrontFacts, Zenon DEF CoreOK
<1>3. /\ running' \in Seq(Contexts) /\ running' # <<>> /\ Len(running') = Len(running) + 1
      /\ \A i \in 1 .. Len(running) : running'[i] = running[i]
      /\ running'[Len(running) + 1] = c /\ Last(running') = c
  BY <1>1, AppendFacts DEF CoreOK
<1>4. running'[1] = 0
  BY <1>2, <1>3 DEF CoreOK
<1>5. ASSUME NEW i \in 1 .. Len(running') - 1 PROVE running'[i] < running'[i + 1]
  <2>1. PICK j \in Nat : j = i + 1
    OBVIOUS
  <2>2. CASE i < Len(running)
    BY <2>1, <2>2, <1>2, <1>3, SMTT(60) DEF CoreOK
  <2>3. CASE i = Len(running)
    BY <2>1, <2>3, <1>1, <1>2, <1>3, IsrsAssumption DEF CoreOK, Contexts
  <2> QED
    BY <2>2, <2>3, <1>2, <1>3
<1> QED
  BY <1>1, <1>3, <1>4, <1>5, Zenon DEF CoreOK

LEMMA ReturnCore ==
  ASSUME CoreOK, NEW c, ReturnFromInterrupt(c)
  PROVE  CoreOK' /\ c \in Isrs /\ Executing(c) /\ c # 0
<1>1. c \in Isrs /\ c # 0 /\ Executing(c) /\ running' = Front(running)
  BY IsrsAssumption, Zenon DEF ReturnFromInterrupt
<1>2. /\ Len(running) \in Nat /\ Len(running) > 0 /\ c = running[Len(running)]
      /\ running' \in Seq(Contexts) /\ Len(running') = Len(running) - 1
      /\ \A i \in 1 .. Len(running) - 1 : running'[i] = running[i]
  BY <1>1, FrontFacts, Zenon DEF CoreOK, Executing
<1>3. Len(running) > 1
  BY <1>1, <1>2 DEF CoreOK
<1>4. running' # <<>> /\ running'[1] = 0
  BY <1>2, <1>3, SeqFacts DEF CoreOK
<1>5. ASSUME NEW i \in 1 .. Len(running') - 1 PROVE running'[i] < running'[i + 1]
  BY <1>2, SMTT(60) DEF CoreOK
<1> QED
  BY <1>1, <1>2, <1>4, <1>5, Zenon DEF CoreOK

\* What lock and unlock do to the saved states.
LEMMA LockFacts ==
  ASSUME previous \in [Contexts -> Seq(BOOLEAN)], primask \in BOOLEAN,
         NEW c \in Contexts, mrs(c)
  PROVE  /\ previous' \in [Contexts -> Seq(BOOLEAN)] /\ Executing(c)
         /\ \A d \in Contexts : d # c => previous'[d] = previous[d]
         /\ Len(previous[c]) \in Nat /\ Len(previous'[c]) = Len(previous[c]) + 1
         /\ \A i \in 1 .. Len(previous[c]) : previous'[c][i] = previous[c][i]
         /\ previous'[c][Len(previous[c]) + 1] = primask
         /\ UNCHANGED <<primask, running>>
<1>1. /\ previous' = [previous EXCEPT ![c] = Append(previous[c], primask)]
      /\ Executing(c) /\ UNCHANGED <<primask, running>>
  BY Zenon DEF mrs
<1>2. PICK p \in Seq(BOOLEAN) : p = previous[c]
  BY Zenon
<1>3. PICK q \in Seq(BOOLEAN) : q = Append(p, primask)
  BY AppendFacts, Zenon
<1>4. /\ Len(p) \in Nat /\ Len(q) = Len(p) + 1
      /\ \A i \in 1 .. Len(p) : q[i] = p[i]
      /\ q[Len(p) + 1] = primask
  BY <1>3, AppendFacts
<1>5. previous'[c] = q /\ previous' \in [Contexts -> Seq(BOOLEAN)]
      /\ \A d \in Contexts : d # c => previous'[d] = previous[d]
  BY <1>1, <1>2, <1>3, Zenon
<1> QED
  BY <1>1, <1>2, <1>4, <1>5, ZenonT(60)

LEMMA UnlockFacts ==
  ASSUME previous \in [Contexts -> Seq(BOOLEAN)],
         NEW c \in Contexts, Len(previous[c]) > 0, unlock(c)
  PROVE  /\ previous' \in [Contexts -> Seq(BOOLEAN)] /\ Executing(c)
         /\ \A d \in Contexts : d # c => previous'[d] = previous[d]
         /\ Len(previous[c]) \in Nat /\ Len(previous'[c]) = Len(previous[c]) - 1
         /\ \A i \in 1 .. Len(previous[c]) - 1 : previous'[c][i] = previous[c][i]
         /\ primask' = previous[c][Len(previous[c])] /\ primask' \in BOOLEAN
         /\ UNCHANGED running
<1>1. /\ previous' = [previous EXCEPT ![c] = Front(previous[c])]
      /\ Executing(c) /\ UNCHANGED running /\ primask' = Last(previous[c])
  BY Zenon DEF unlock
<1>2. PICK p \in Seq(BOOLEAN) : p = previous[c] /\ p # <<>>
  OBVIOUS
<1>3. PICK q \in Seq(BOOLEAN) : q = Front(p)
  BY <1>2, FrontFacts, Zenon
<1>4. /\ Len(p) \in Nat /\ Len(q) = Len(p) - 1
      /\ \A i \in 1 .. Len(p) - 1 : q[i] = p[i]
      /\ primask' = p[Len(p)] /\ primask' \in BOOLEAN
  BY <1>1, <1>2, <1>3, FrontFacts, Zenon
<1>5. previous'[c] = q /\ previous' \in [Contexts -> Seq(BOOLEAN)]
      /\ \A d \in Contexts : d # c => previous'[d] = previous[d]
  BY <1>1, <1>2, <1>3, Zenon
<1> QED
  BY <1>1, <1>2, <1>4, <1>5, Zenon

\* A sequence of at most n Booleans is one of the functions TypeOK lists.
LEMMA ShortSequence ==
  ASSUME NEW S, NEW n \in Nat, NEW s \in Seq(S), Len(s) <= n
  PROVE  s \in UNION {[1 .. k -> S] : k \in 0 .. n}
<1>1. Len(s) \in Nat /\ s \in [1 .. Len(s) -> S]
  BY SeqFacts, Zenon
<1>2. Len(s) \in 0 .. n
  BY <1>1
<1> QED
  BY <1>1, <1>2, Zenon

-----------------------------------------------------------------------------
(***************************************************************************)
(* once_flag.  Every call of a context but the innermost is in the         *)
(* initializer.                                                            *)
(***************************************************************************)
Innermost(c, l) == calls[c] # <<>> /\ Last(calls[c]) = l

Claiming(c) == \E l \in {"load", "store", "unlock"} : Innermost(c, l)

\* c has the flag and has not yet started the initializer.
Won(c) == Innermost(c, "unlock") /\ seen[c] = "init"

UnderWay == \E c \in Contexts : \E i \in 1 .. Len(calls[c]) : calls[c][i] \in {"fn", "finish"}

CallsOK ==
  /\ calls \in [Contexts -> Seq(Labels)]
  /\ \A c \in Contexts : Len(calls[c]) <= MaxDepth
  /\ \A c \in Contexts : \A i \in 1 .. Len(calls[c]) - 1 : calls[c][i] = "fn"

OnceTypes ==
  /\ CoreOK /\ CallsOK /\ primask \in BOOLEAN
  /\ previous \in [Contexts -> Seq(BOOLEAN)]
  /\ state_ \in States /\ seen \in [Contexts -> States]
  /\ answer \in BOOLEAN \cup {NoAnswer}
  /\ complete \in BOOLEAN /\ started \in 0 .. 1 /\ thrown \in BOOLEAN

\* claim is called with interrupts enabled and masks them for itself alone.
ClaimsExclusive ==
  /\ \A c \in Contexts : IF Claiming(c) \/ Innermost(c, "locking")
                         THEN Len(previous[c]) = 1 /\ ~previous[c][1]
                         ELSE Len(previous[c]) = 0
  /\ \A c \in Contexts : Claiming(c) => Executing(c)
  /\ primask <=> \E c \in Contexts : Claiming(c)

\* What claim has read is still so, but for its own store.
SeenExact ==
  /\ \A c \in Contexts : Innermost(c, "store") => seen[c] = state_
  /\ \A c \in Contexts : Innermost(c, "unlock") =>
       state_ = IF seen[c] = "init" THEN "running" ELSE seen[c]

\* The state of the flag tells how far the one initializer is.
StateExact ==
  /\ \A c \in Contexts : Innermost(c, "finish") => complete
  /\ state_ = "init" => started = 0
  /\ \A c \in Contexts : Won(c) => started = 0
  /\ state_ = "done" => complete
  /\ state_ = "running" => thrown \/ UnderWay \/ \E c \in Contexts : Won(c)

Answers ==
  /\ answer = TRUE => complete
  /\ answer = FALSE => thrown \/ UnderWay

OnceInv == OnceTypes /\ ClaimsExclusive /\ SeenExact /\ StateExact /\ Answers

LEMMA OnceAt == \A c, l : At(c, l) <=> Executing(c) /\ Innermost(c, l)
BY Zenon DEF At, Innermost

\* The innermost call of c goes on to l: it is replaced in calls[c].
LEMMA GotoFacts ==
  ASSUME OnceTypes, MaxDepth \in Nat, NEW c \in Contexts, calls[c] # <<>>,
         NEW l \in Labels, Goto(c, l)
  PROVE  /\ calls' \in [Contexts -> Seq(Labels)]
         /\ \A d \in Contexts : d # c => calls'[d] = calls[d]
         /\ Len(calls[c]) \in Nat /\ Len(calls[c]) > 0 /\ Len(calls'[c]) = Len(calls[c])
         /\ \A i \in 1 .. Len(calls[c]) - 1 : calls'[c][i] = calls[c][i]
         /\ calls'[c][Len(calls[c])] = l
         /\ \A m : Innermost(c, m)' <=> m = l
         /\ CallsOK' /\ answer' = NoAnswer
<1>1. calls' = [calls EXCEPT ![c] = Append(Front(calls[c]), l)] /\ answer' = NoAnswer
  BY Zenon DEF Goto
<1>2. PICK p \in Seq(Labels) : p = calls[c] /\ p # <<>>
  BY Zenon DEF OnceTypes, CallsOK
<1>3. PICK q \in Seq(Labels) : q = Front(p)
  BY <1>2, FrontFacts, Zenon
<1>4. PICK r \in Seq(Labels) : r = Append(q, l)
  BY AppendFacts, Zenon
<1>5. /\ Len(p) \in Nat /\ Len(p) > 0 /\ Len(q) = Len(p) - 1
      /\ \A i \in 1 .. Len(p) - 1 : q[i] = p[i]
  BY <1>2, <1>3, FrontFacts, Zenon
<1>6. /\ Len(r) = Len(q) + 1 /\ \A i \in 1 .. Len(q) : r[i] = q[i]
      /\ r[Len(q) + 1] = l /\ r # <<>> /\ Last(r) = l
  BY <1>4, AppendFacts
<1>7. Len(r) = Len(p) /\ r[Len(p)] = l /\ \A i \in 1 .. Len(p) - 1 : r[i] = p[i]
  BY <1>5, <1>6
<1>8. calls'[c] = r /\ calls' \in [Contexts -> Seq(Labels)]
      /\ \A d \in Contexts : d # c => calls'[d] = calls[d]
  BY <1>1, <1>2, <1>3, <1>4, Zenon DEF OnceTypes, CallsOK
<1>9. \A m : Innermost(c, m)' <=> m = l
  BY <1>6, <1>8, Zenon DEF Innermost
<1>10. CallsOK'
  <2>1. Len(r) <= MaxDepth /\ \A i \in 1 .. Len(r) - 1 : r[i] = "fn"
    BY <1>2, <1>7, Zenon DEF OnceTypes, CallsOK
  <2> QED
    BY <2>1, <1>8, ZenonT(120) DEF OnceTypes, CallsOK
<1> QED
  BY <1>1, <1>2, <1>5, <1>7, <1>8, <1>9, <1>10, ZenonT(60)

\* The innermost call of c returns or is left by an exception.
LEMMA ReturnFacts ==
  ASSUME OnceTypes, MaxDepth \in Nat, NEW c \in Contexts, calls[c] # <<>>, NEW b, Return(c, b)
  PROVE  /\ calls' \in [Contexts -> Seq(Labels)]
         /\ \A d \in Contexts : d # c => calls'[d] = calls[d]
         /\ Len(calls[c]) \in Nat /\ Len(calls[c]) > 0 /\ Len(calls'[c]) = Len(calls[c]) - 1
         /\ \A i \in 1 .. Len(calls[c]) - 1 : calls'[c][i] = calls[c][i]
         /\ \A m : Innermost(c, m)' => m = "fn"
         /\ CallsOK' /\ answer' = b
<1>1. calls' = [calls EXCEPT ![c] = Front(calls[c])] /\ answer' = b
  BY Zenon DEF Return
<1>2. PICK p \in Seq(Labels) : p = calls[c] /\ p # <<>>
  BY Zenon DEF OnceTypes, CallsOK
<1>3. PICK q \in Seq(Labels) : q = Front(p)
  BY <1>2, FrontFacts, Zenon
<1>4. /\ Len(p) \in Nat /\ Len(p) > 0 /\ Len(q) = Len(p) - 1
      /\ \A i \in 1 .. Len(p) - 1 : q[i] = p[i]
  BY <1>2, <1>3, FrontFacts, Zenon
<1>5. calls'[c] = q /\ calls' \in [Contexts -> Seq(Labels)]
      /\ \A d \in Contexts : d # c => calls'[d] = calls[d]
  BY <1>1, <1>2, <1>3, Zenon DEF OnceTypes, CallsOK
<1>6. ASSUME NEW m, Innermost(c, m)' PROVE m = "fn"
  <2>1. q # <<>> /\ m = q[Len(q)]
    BY <1>6, <1>5, Zenon DEF Innermost, Last
  <2>2. Len(q) \in 1 .. Len(p) - 1
    BY <2>1, <1>4, SeqFacts
  <2>3. p[Len(q)] = "fn"
    BY <2>2, <1>2, Zenon DEF OnceTypes, CallsOK
  <2> QED
    BY <2>1, <2>2, <2>3, <1>4, Zenon
<1>7. CallsOK'
  <2>1. Len(p) <= MaxDepth /\ \A i \in 1 .. Len(p) - 1 : p[i] = "fn"
    BY <1>2, Zenon DEF OnceTypes, CallsOK
  <2>2. Len(q) <= MaxDepth /\ \A i \in 1 .. Len(q) - 1 : q[i] = "fn"
    BY <2>1, <1>4
  <2> QED
    BY <2>2, <1>5, ZenonT(120) DEF OnceTypes, CallsOK
<1> QED
  BY <1>1, <1>2, <1>4, <1>5, <1>6, <1>7, Zenon

\* While a context executes no other is in claim.
LEMMA OneClaimer ==
  ASSUME ClaimsExclusive, NEW c \in Contexts, Executing(c)
  PROVE  \A d \in Contexts : d # c => /\ ~Claiming(d) /\ ~Won(d)
                                      /\ ~Innermost(d, "store") /\ ~Innermost(d, "unlock")
BY Zenon DEF ClaimsExclusive, Executing, Claiming, Won

\* A step of c outside claim: claim is nowhere under way.
LEMMA QuietClaims ==
  ASSUME OnceInv, NEW c \in Contexts, Executing(c),
         \A l \in {"locking", "load", "store", "unlock"} : ~Innermost(c, l) /\ ~Innermost(c, l)',
         \A d \in Contexts : d # c => calls'[d] = calls[d],
         UNCHANGED <<primask, running, previous, seen>>
  PROVE  /\ ClaimsExclusive' /\ SeenExact'
         /\ \A d \in Contexts : ~Won(d) /\ ~Won(d)'
<1>1. \A d \in Contexts : /\ ~Claiming(d) /\ ~Won(d)
                          /\ ~Innermost(d, "store") /\ ~Innermost(d, "unlock")
  <2>1. ~Claiming(c) /\ ~Won(c) /\ ~Innermost(c, "store") /\ ~Innermost(c, "unlock")
    BY Zenon DEF Claiming, Won
  <2> QED
    BY <2>1, OneClaimer, Zenon DEF OnceInv
<1>2. \A d \in Contexts : d # c => \A l : Innermost(d, l)' <=> Innermost(d, l)
  BY Zenon DEF Innermost
<1>3. \A d \in Contexts : /\ ~Claiming(d)' /\ ~Won(d)'
                          /\ ~Innermost(d, "store")' /\ ~Innermost(d, "unlock")'
  BY <1>1, <1>2, Zenon DEF Claiming, Won
<1>4. \A d \in Contexts : Innermost(d, "locking")' <=> Innermost(d, "locking")
  BY <1>2, Zenon
<1>5. ClaimsExclusive'
  BY <1>1, <1>3, <1>4, Zenon DEF OnceInv, ClaimsExclusive
<1>6. SeenExact'
  BY <1>3, Zenon DEF SeenExact
<1> QED
  BY <1>1, <1>3, <1>5, <1>6, Zenon

LEMMA OnceCall ==
  ASSUME OnceInv, MaxDepth \in Nat, NoAnswer \notin BOOLEAN, NEW c \in Contexts, try_call_once(c)
  PROVE  OnceInv'
<1>1. /\ Executing(c) /\ (calls[c] # <<>> => Last(calls[c]) = "fn") /\ Len(calls[c]) < MaxDepth
      /\ calls' = [calls EXCEPT ![c] = Append(calls[c], "entry")] /\ answer' = NoAnswer
      /\ UNCHANGED <<primask, running, previous, state_, seen, complete, started, thrown>>
  BY Zenon DEF try_call_once, core, ghosts
<1>2. PICK p \in Seq(Labels) : p = calls[c]
  BY Zenon DEF OnceInv, OnceTypes, CallsOK
<1>3. "entry" \in Labels
  BY Zenon DEF Labels
<1>4. PICK q \in Seq(Labels) : q = Append(p, "entry")
  BY <1>3, AppendFacts, Zenon
<1>5. /\ Len(p) \in Nat /\ Len(q) = Len(p) + 1 /\ q # <<>> /\ Last(q) = "entry"
      /\ \A i \in 1 .. Len(p) : q[i] = p[i]
  BY <1>3, <1>4, AppendFacts
<1>6. calls'[c] = q /\ calls' \in [Contexts -> Seq(Labels)]
      /\ \A d \in Contexts : d # c => calls'[d] = calls[d]
  BY <1>1, <1>2, <1>4, Zenon DEF OnceInv, OnceTypes, CallsOK
<1>7. \A m : Innermost(c, m)' <=> m = "entry"
  BY <1>5, <1>6, Zenon DEF Innermost
<1>8. \A m : Innermost(c, m) => m = "fn"
  BY <1>1, Zenon DEF Innermost
<1>9. \A i \in 1 .. Len(q) - 1 : q[i] = "fn"
  <2> SUFFICES ASSUME NEW i \in 1 .. Len(q) - 1 PROVE q[i] = "fn"
    BY Zenon
  <2>1. i \in 1 .. Len(p) /\ q[i] = p[i]
    BY <1>5
  <2>2. CASE i = Len(p)
    BY <2>1, <2>2, <1>1, <1>2, SeqFacts DEF Last
  <2>3. CASE i # Len(p)
    BY <2>1, <2>3, <1>2, <1>5, SMTT(60) DEF OnceInv, OnceTypes, CallsOK
  <2> QED
    BY <2>2, <2>3, Zenon
<1>10. OnceTypes'
  <2>1. \A d \in Contexts : Len(calls'[d]) <= MaxDepth
    BY <1>1, <1>2, <1>5, <1>6 DEF OnceInv, OnceTypes, CallsOK
  <2>2. \A d \in Contexts : \A i \in 1 .. Len(calls'[d]) - 1 : calls'[d][i] = "fn"
    BY <1>6, <1>9, ZenonT(60) DEF OnceInv, OnceTypes, CallsOK
  <2> QED
    BY <1>1, <1>6, <2>1, <2>2, Zenon DEF OnceInv, OnceTypes, CallsOK, CoreOK
<1>11. ClaimsExclusive' /\ SeenExact' /\ \A d \in Contexts : ~Won(d) /\ ~Won(d)'
  BY <1>1, <1>6, <1>7, <1>8, QuietClaims, Zenon
<1>12. UnderWay => UnderWay'
  BY <1>2, <1>5, <1>6, SMTT(60) DEF UnderWay
<1>13. \A d \in Contexts : Innermost(d, "finish")' => Innermost(d, "finish")
  BY <1>6, <1>7, Zenon DEF Innermost
<1>14. StateExact'
  BY <1>1, <1>11, <1>12, <1>13, Zenon DEF OnceInv, StateExact
<1>15. Answers'
  BY <1>1, Zenon DEF Answers
<1> QED
  BY <1>10, <1>11, <1>14, <1>15, Zenon DEF OnceInv

\* is_done: the entry of try_call_once.
LEMMA OnceIsDone ==
  ASSUME OnceInv, MaxDepth \in Nat, NoAnswer \notin BOOLEAN, NEW c \in Contexts, is_done(c)
  PROVE  OnceInv'
<1>1. /\ Executing(c) /\ Innermost(c, "entry") /\ calls[c] # <<>>
      /\ UNCHANGED <<primask, running, previous, state_, seen, complete, started, thrown>>
  BY OnceAt, Zenon DEF is_done, core, ghosts, Innermost
<1>2. \A m : Innermost(c, m) => m = "entry"
  BY <1>1, Zenon DEF Innermost
<1>3. /\ CallsOK' /\ answer' \in BOOLEAN \cup {NoAnswer}
      /\ \A d \in Contexts : d # c => calls'[d] = calls[d]
      /\ \A m : Innermost(c, m)' => m \in {"fn", "claim"}
      /\ Len(calls'[c]) >= Len(calls[c]) - 1 /\ Len(calls'[c]) \in Nat /\ Len(calls[c]) \in Nat
      /\ \A i \in 1 .. Len(calls[c]) - 1 : calls'[c][i] = calls[c][i]
      /\ answer' = NoAnswer \/ (answer' = TRUE /\ state_ = "done")
  <2>1. CASE state_ = "done" /\ Return(c, TRUE)
    <3>1. PICK b : b = TRUE
      BY Zenon
    <3>2. Return(c, b)
      BY <2>1, <3>1, Zenon
    <3>3. /\ \A d \in Contexts : d # c => calls'[d] = calls[d]
          /\ Len(calls[c]) \in Nat /\ Len(calls[c]) > 0 /\ Len(calls'[c]) = Len(calls[c]) - 1
          /\ \A i \in 1 .. Len(calls[c]) - 1 : calls'[c][i] = calls[c][i]
          /\ \A m : Innermost(c, m)' => m = "fn"
          /\ CallsOK' /\ answer' = b
      BY <1>1, <3>2, ReturnFacts, Zenon DEF OnceInv
    <3>4. Len(calls'[c]) >= Len(calls[c]) - 1 /\ Len(calls'[c]) \in Nat
      BY <3>3
    <3> QED
      BY <2>1, <3>1, <3>3, <3>4, Zenon
  <2>2. CASE Goto(c, "claim")
    <3>1. "claim" \in Labels
      BY Zenon DEF Labels
    <3> QED
      BY <2>2, <3>1, <1>1, GotoFacts DEF OnceInv
  <2> QED
    BY <2>1, <2>2, Zenon DEF is_done
<1>4. OnceTypes'
  BY <1>1, <1>3, Zenon DEF OnceInv, OnceTypes, CoreOK
<1>5. ClaimsExclusive' /\ SeenExact' /\ \A d \in Contexts : ~Won(d) /\ ~Won(d)'
  BY <1>1, <1>2, <1>3, QuietClaims, Zenon
<1>6. UnderWay => UnderWay'
  <2> SUFFICES ASSUME NEW d \in Contexts, NEW i \in 1 .. Len(calls[d]),
                      calls[d][i] \in {"fn", "finish"}
               PROVE  UnderWay'
    BY Zenon DEF UnderWay
  <2>1. CASE d # c
    BY <2>1, <1>3, Zenon DEF UnderWay
  <2>2. CASE d = c
    <3>1. i \in 1 .. Len(calls[c]) - 1
      BY <2>2, <1>1, <1>3 DEF Innermost, Last
    <3>2. i \in 1 .. Len(calls'[c]) /\ calls'[c][i] \in {"fn", "finish"}
      BY <3>1, <2>2, <1>3, SMTT(60)
    <3> QED
      BY <3>2, Zenon DEF UnderWay
  <2> QED
    BY <2>1, <2>2, Zenon
<1>7. \A d \in Contexts : Innermost(d, "finish")' => Innermost(d, "finish")
  BY <1>3, Zenon DEF Innermost
<1>8. StateExact'
  BY <1>1, <1>5, <1>6, <1>7, Zenon DEF OnceInv, StateExact
<1>9. Answers'
  BY <1>1, <1>3, Zenon DEF OnceInv, StateExact, Answers
<1> QED
  BY <1>4, <1>5, <1>8, <1>9, Zenon DEF OnceInv

\* The initializer returns or throws, and finish.
LEMMA OnceFn ==
  ASSUME OnceInv, MaxDepth \in Nat, NoAnswer \notin BOOLEAN, NEW c \in Contexts,
         FnReturns(c) \/ FnThrows(c) \/ finish(c)
  PROVE  OnceInv'
<1>1. /\ Executing(c) /\ (Innermost(c, "fn") \/ Innermost(c, "finish"))
      /\ calls[c] # <<>> /\ UNCHANGED <<primask, running, previous, seen, started>>
  BY OnceAt, Zenon DEF FnReturns, FnThrows, finish, core, ghosts, Innermost
<1>2. \A m : Innermost(c, m) => m \in {"fn", "finish"}
  BY <1>1, Zenon DEF Innermost
<1>3. /\ CallsOK' /\ \A d \in Contexts : d # c => calls'[d] = calls[d]
      /\ \A m : Innermost(c, m)' => m \in {"fn", "finish"}
  <2>1. CASE Goto(c, "finish")
    <3>1. "finish" \in Labels
      BY Zenon DEF Labels
    <3> QED
      BY <2>1, <3>1, <1>1, GotoFacts, Zenon DEF OnceInv
  <2>2. ASSUME NEW b, Return(c, b)
        PROVE  /\ CallsOK' /\ \A d \in Contexts : d # c => calls'[d] = calls[d]
               /\ \A m : Innermost(c, m)' => m \in {"fn", "finish"}
    BY <2>2, <1>1, ReturnFacts, Zenon DEF OnceInv
  <2> QED
    BY <2>1, <2>2, Zenon DEF FnReturns, FnThrows, finish
<1>4. ClaimsExclusive' /\ SeenExact' /\ \A d \in Contexts : ~Won(d) /\ ~Won(d)'
  <2>1. \A l \in {"locking", "load", "store", "unlock"} : ~Innermost(c, l) /\ ~Innermost(c, l)'
    BY <1>2, <1>3, Zenon
  <2> QED
    BY <1>1, <1>3, <2>1, QuietClaims, Zenon
<1>5. CASE FnReturns(c)
  <2>1. /\ complete' = TRUE /\ answer' = NoAnswer /\ UNCHANGED <<state_, thrown>>
        /\ Goto(c, "finish") /\ "finish" \in Labels
    BY <1>5, Zenon DEF FnReturns, Goto, Labels
  <2>2. OnceTypes'
    BY <1>1, <1>3, <2>1, Zenon DEF OnceInv, OnceTypes, CoreOK
  <2>3. UnderWay'
    <3>1. Len(calls[c]) \in 1 .. Len(calls'[c]) /\ calls'[c][Len(calls[c])] = "finish"
      BY <2>1, <1>1, GotoFacts DEF OnceInv
    <3> QED
      BY <3>1, Zenon DEF UnderWay
  <2>4. StateExact'
    BY <1>1, <1>4, <2>1, <2>3, Zenon DEF OnceInv, StateExact
  <2>5. Answers'
    BY <2>1, Zenon DEF Answers
  <2> QED
    BY <1>4, <2>2, <2>4, <2>5, Zenon DEF OnceInv
<1>6. CASE FnThrows(c)
  <2>1. /\ thrown' = TRUE /\ answer' = NoAnswer /\ UNCHANGED <<state_, complete>>
        /\ Return(c, NoAnswer)
    BY <1>6, Zenon DEF FnThrows, Return
  <2>2. OnceTypes'
    BY <1>1, <1>3, <2>1, Zenon DEF OnceInv, OnceTypes, CoreOK
  <2>3. \A d \in Contexts : Innermost(d, "finish")' => Innermost(d, "finish")
    <3>1. ~Innermost(c, "finish")'
      BY <2>1, <1>1, ReturnFacts, Zenon DEF OnceInv
    <3> QED
      BY <3>1, <1>3, Zenon DEF Innermost
  <2>4. StateExact'
    BY <1>1, <1>4, <2>1, <2>3, Zenon DEF OnceInv, StateExact
  <2>5. Answers'
    BY <2>1, Zenon DEF Answers
  <2> QED
    BY <1>4, <2>2, <2>4, <2>5, Zenon DEF OnceInv
<1>7. CASE finish(c)
  <2>1. /\ state_' = "done" /\ answer' = TRUE /\ UNCHANGED <<complete, thrown>>
        /\ Innermost(c, "finish") /\ complete
    BY <1>7, OnceAt, Zenon DEF finish, Return, ghosts, OnceInv, StateExact
  <2>2. OnceTypes'
    <3>1. state_' \in States
      BY <2>1, Zenon DEF States
    <3> QED
      BY <1>1, <1>3, <2>1, <3>1, Zenon DEF OnceInv, OnceTypes, CoreOK
  <2>3. StateExact'
    BY <1>1, <1>4, <2>1, Zenon DEF StateExact
  <2>4. Answers'
    BY <2>1, Zenon DEF Answers
  <2> QED
    BY <1>4, <2>2, <2>3, <2>4, Zenon DEF OnceInv
<1> QED
  BY <1>5, <1>6, <1>7, Zenon

\* claim: the lock is taken.
LEMMA OnceLocks ==
  ASSUME OnceInv, MaxDepth \in Nat, NoAnswer \notin BOOLEAN, NEW c \in Contexts, ClaimLocks(c)
  PROVE  OnceInv'
<1>1. /\ Executing(c) /\ Innermost(c, "claim") /\ calls[c] # <<>> /\ mrs(c)
      /\ Goto(c, "locking") /\ "locking" \in Labels
      /\ UNCHANGED <<state_, seen, complete, started, thrown>>
  BY OnceAt, Zenon DEF ClaimLocks, ghosts, Labels, Innermost
<1>2. \A m : Innermost(c, m) => m = "claim"
  BY <1>1, Zenon DEF Innermost
<1>3. /\ CallsOK' /\ answer' = NoAnswer /\ \A d \in Contexts : d # c => calls'[d] = calls[d]
      /\ \A m : Innermost(c, m)' <=> m = "locking"
      /\ Len(calls[c]) \in Nat /\ Len(calls'[c]) = Len(calls[c])
      /\ \A i \in 1 .. Len(calls[c]) - 1 : calls'[c][i] = calls[c][i]
  BY <1>1, GotoFacts, Zenon DEF OnceInv
<1>4. /\ previous' \in [Contexts -> Seq(BOOLEAN)]
      /\ \A d \in Contexts : d # c => previous'[d] = previous[d]
      /\ Len(previous[c]) \in Nat /\ Len(previous'[c]) = Len(previous[c]) + 1
      /\ previous'[c][Len(previous[c]) + 1] = primask
      /\ UNCHANGED <<primask, running>>
  BY <1>1, LockFacts, Zenon DEF OnceInv, OnceTypes
<1>5. \A d \in Contexts : d # c => \A l : Innermost(d, l)' <=> Innermost(d, l)
  BY <1>3, Zenon DEF Innermost
<1>6. /\ \A d \in Contexts : /\ ~Claiming(d) /\ ~Innermost(d, "store") /\ ~Innermost(d, "unlock")
                             /\ ~Won(d)
      /\ ~primask /\ Len(previous[c]) = 0
  <2>1. ~Claiming(c) /\ ~Won(c) /\ ~Innermost(c, "store") /\ ~Innermost(c, "unlock")
        /\ ~Innermost(c, "locking")
    BY <1>2, Zenon DEF Claiming, Won
  <2>2. \A d \in Contexts : /\ ~Claiming(d) /\ ~Innermost(d, "store") /\ ~Innermost(d, "unlock")
                            /\ ~Won(d)
    BY <2>1, <1>1, OneClaimer, Zenon DEF OnceInv
  <2>3. ~primask /\ Len(previous[c]) = 0
    BY <2>1, <2>2, Zenon DEF OnceInv, ClaimsExclusive
  <2> QED
    BY <2>2, <2>3, Zenon
<1>7. \A d \in Contexts : /\ ~Claiming(d)' /\ ~Innermost(d, "store")' /\ ~Innermost(d, "unlock")'
                          /\ ~Won(d)'
  <2>1. ~Claiming(c)' /\ ~Innermost(c, "store")' /\ ~Innermost(c, "unlock")' /\ ~Won(c)'
    BY <1>3, Zenon DEF Claiming, Won
  <2> QED
    BY <2>1, <1>1, <1>5, <1>6, Zenon DEF Claiming, Won
<1>8. OnceTypes'
  BY <1>1, <1>3, <1>4, Zenon DEF OnceInv, OnceTypes, CoreOK
<1>9. Len(previous'[c]) = 1 /\ ~previous'[c][1]
  BY <1>4, <1>6
<1>10. ClaimsExclusive'
  <2>1. ASSUME NEW d \in Contexts
        PROVE  IF Claiming(d)' \/ Innermost(d, "locking")'
               THEN Len(previous'[d]) = 1 /\ ~previous'[d][1]
               ELSE Len(previous'[d]) = 0
    <3>1. CASE d = c
      BY <3>1, <1>3, <1>9, Zenon
    <3>2. CASE d # c
      BY <3>2, <1>4, <1>5, <1>6, <1>7, Zenon DEF OnceInv, ClaimsExclusive
    <3> QED
      BY <3>1, <3>2, Zenon
  <2> QED
    BY <2>1, <1>4, <1>6, <1>7, Zenon DEF ClaimsExclusive
<1>11. SeenExact'
  BY <1>7, Zenon DEF SeenExact
<1>12. UnderWay => UnderWay'
  <2> SUFFICES ASSUME NEW d \in Contexts, NEW i \in 1 .. Len(calls[d]),
                      calls[d][i] \in {"fn", "finish"}
               PROVE  UnderWay'
    BY Zenon DEF UnderWay
  <2>1. CASE d # c
    BY <2>1, <1>3, Zenon DEF UnderWay
  <2>2. CASE d = c
    <3>1. i \in 1 .. Len(calls[c]) - 1
      BY <2>2, <1>1, <1>3, SMTT(60) DEF Innermost, Last
    <3> QED
      BY <3>1, <2>2, <1>3, Zenon DEF UnderWay
  <2> QED
    BY <2>1, <2>2, Zenon
<1>13. StateExact'
  BY <1>1, <1>3, <1>5, <1>6, <1>7, <1>12, Zenon DEF OnceInv, StateExact
<1>14. Answers'
  BY <1>3, Zenon DEF Answers
<1> QED
  BY <1>8, <1>10, <1>11, <1>13, <1>14, Zenon DEF OnceInv

\* claim under the lock: interrupts are masked, the flag is read and set.
LEMMA OnceClaims ==
  ASSUME OnceInv, MaxDepth \in Nat, NoAnswer \notin BOOLEAN, NEW c \in Contexts,
         ClaimLocked(c) \/ ClaimLoad(c) \/ ClaimStore(c)
  PROVE  OnceInv'
<1>1. PICK l \in {"locking", "load", "store"}, m \in {"load", "store", "unlock"} :
        /\ Executing(c) /\ Innermost(c, l) /\ calls[c] # <<>> /\ Goto(c, m)
        /\ UNCHANGED <<running, previous, complete, started, thrown>>
        /\ primask' = TRUE
        /\ \/ l = "locking" /\ m = "load" /\ UNCHANGED <<state_, seen>>
           \/ /\ l = "load" /\ m = "store" /\ state_' = state_
              /\ seen' = [seen EXCEPT ![c] = state_]
           \/ /\ l = "store" /\ m = "unlock" /\ seen' = seen
              /\ state_' = IF seen[c] = "init" THEN "running" ELSE state_
  <2>1. CASE ClaimLocked(c)
    BY <2>1, OnceAt, Zenon DEF ClaimLocked, ghosts, cpsid, Innermost
  <2>2. CASE ClaimLoad(c)
    <3>1. Executing(c) /\ Innermost(c, "load") /\ calls[c] # <<>> /\ UNCHANGED primask
      BY <2>2, OnceAt, Zenon DEF ClaimLoad, core, Innermost
    <3>2. primask = TRUE
      BY <3>1, Zenon DEF OnceInv, OnceTypes, ClaimsExclusive, Claiming
    <3> QED
      BY <2>2, <3>1, <3>2, Zenon DEF ClaimLoad, core, ghosts
  <2>3. CASE ClaimStore(c)
    <3>1. Executing(c) /\ Innermost(c, "store") /\ calls[c] # <<>> /\ UNCHANGED primask
      BY <2>3, OnceAt, Zenon DEF ClaimStore, core, Innermost
    <3>2. primask = TRUE
      BY <3>1, Zenon DEF OnceInv, OnceTypes, ClaimsExclusive, Claiming
    <3> QED
      BY <2>3, <3>1, <3>2, Zenon DEF ClaimStore, core, ghosts
  <2> QED
    BY <2>1, <2>2, <2>3, Zenon
<1>2. /\ m \in Labels /\ \A x1 : Innermost(c, x1) => x1 = l
      /\ \A x1 : Innermost(c, x1) => x1 \in {"locking", "load", "store"}
  BY <1>1, Zenon DEF Labels, Innermost
<1>3. /\ CallsOK' /\ answer' = NoAnswer /\ \A d \in Contexts : d # c => calls'[d] = calls[d]
      /\ \A x1 : Innermost(c, x1)' <=> x1 = m
      /\ Len(calls[c]) \in Nat /\ Len(calls'[c]) = Len(calls[c])
      /\ \A i \in 1 .. Len(calls[c]) - 1 : calls'[c][i] = calls[c][i]
  BY <1>1, <1>2, GotoFacts, Zenon DEF OnceInv
<1>4. \A d \in Contexts : d # c => \A x1 : Innermost(d, x1)' <=> Innermost(d, x1)
  BY <1>3, Zenon DEF Innermost
<1>5. /\ \A d \in Contexts : ~Won(d)
      /\ \A d \in Contexts : d # c => ~Claiming(d) /\ ~Claiming(d)'
      /\ \A d \in Contexts : d # c => ~Innermost(d, "store")' /\ ~Innermost(d, "unlock")'
  <2>1. ~Won(c)
    BY <1>2, Zenon DEF Won
  <2>2. \A d \in Contexts : d # c => /\ ~Claiming(d) /\ ~Won(d)
                                     /\ ~Innermost(d, "store") /\ ~Innermost(d, "unlock")
    BY <1>1, OneClaimer, Zenon DEF OnceInv
  <2> QED
    BY <2>1, <2>2, <1>4, Zenon DEF Claiming
<1>6. Claiming(c)' /\ (Claiming(c) \/ Innermost(c, "locking"))
  BY <1>1, <1>3, Zenon DEF Claiming
<1>7. OnceTypes'
  <2>1. state_' \in States /\ seen' \in [Contexts -> States]
    BY <1>1, Zenon DEF OnceInv, OnceTypes, States
  <2> QED
    BY <1>1, <1>3, <2>1, Zenon DEF OnceInv, OnceTypes, CoreOK
<1>8. ClaimsExclusive'
  <2>1. ASSUME NEW d \in Contexts
        PROVE  IF Claiming(d)' \/ Innermost(d, "locking")'
               THEN Len(previous'[d]) = 1 /\ ~previous'[d][1]
               ELSE Len(previous'[d]) = 0
    <3>1. CASE d = c
      BY <3>1, <1>1, <1>6, Zenon DEF OnceInv, ClaimsExclusive
    <3>2. CASE d # c
      BY <3>2, <1>1, <1>4, <1>5, Zenon DEF OnceInv, ClaimsExclusive
    <3> QED
      BY <3>1, <3>2, Zenon
  <2>2. \A d \in Contexts : Claiming(d)' => Executing(d)'
    BY <1>1, <1>5, Zenon DEF Executing
  <2> QED
    BY <2>1, <2>2, <1>1, <1>6, Zenon DEF ClaimsExclusive
<1>9. SeenExact'
  <2>1. l = "store" => seen[c] = state_
    BY <1>1, Zenon DEF OnceInv, SeenExact
  <2>2. Innermost(c, "store")' => seen'[c] = state_'
    BY <1>1, <1>3, Zenon DEF OnceInv, OnceTypes
  <2>3. Innermost(c, "unlock")' => state_' = IF seen'[c] = "init" THEN "running" ELSE seen'[c]
    BY <1>1, <1>3, <2>1, Zenon
  <2> QED
    BY <2>2, <2>3, <1>5, Zenon DEF SeenExact
<1>10. UnderWay => UnderWay'
  <2> SUFFICES ASSUME NEW d \in Contexts, NEW i \in 1 .. Len(calls[d]),
                      calls[d][i] \in {"fn", "finish"}
               PROVE  UnderWay'
    BY Zenon DEF UnderWay
  <2>1. CASE d # c
    BY <2>1, <1>3, Zenon DEF UnderWay
  <2>2. CASE d = c
    <3>1. i \in 1 .. Len(calls[c]) - 1
      BY <2>2, <1>1, <1>3 DEF Innermost, Last
    <3> QED
      BY <3>1, <2>2, <1>3, Zenon DEF UnderWay
  <2> QED
    BY <2>1, <2>2, Zenon
<1>11. StateExact'
  <2>1. l = "store" => seen[c] = state_
    BY <1>1, Zenon DEF OnceInv, SeenExact
  <2>2. \A d \in Contexts : Innermost(d, "finish")' => complete'
    BY <1>1, <1>3, <1>4, Zenon DEF OnceInv, StateExact
  <2>3. /\ state_' = "init" => started' = 0
        /\ state_' = "done" => complete'
    BY <1>1, <2>1, Zenon DEF OnceInv, StateExact
  <2>4. Won(c)' <=> m = "unlock" /\ seen[c] = "init"
    BY <1>1, <1>3, Zenon DEF Won
  <2>5. \A d \in Contexts : d # c => ~Won(d)'
    BY <1>5, Zenon DEF Won
  <2>6. \A d \in Contexts : Won(d)' => started' = 0
    BY <1>1, <2>1, <2>4, <2>5, Zenon DEF OnceInv, StateExact
  <2>7. state_' = "running" => thrown' \/ UnderWay' \/ \E d \in Contexts : Won(d)'
    <3>1. CASE state_ = "running"
      BY <3>1, <1>1, <1>5, <1>10, Zenon DEF OnceInv, StateExact
    <3>2. CASE state_ # "running"
      BY <3>2, <1>1, <2>4, Zenon
    <3> QED
      BY <3>1, <3>2, Zenon
  <2> QED
    BY <2>2, <2>3, <2>6, <2>7, Zenon DEF StateExact
<1>12. Answers'
  BY <1>3, Zenon DEF Answers
<1> QED
  BY <1>7, <1>8, <1>9, <1>11, <1>12, Zenon DEF OnceInv

\* claim returns: the winner goes on to the initializer, the others are answered.
LEMMA OnceClaimed ==
  ASSUME OnceInv, MaxDepth \in Nat, NoAnswer \notin BOOLEAN, NEW c \in Contexts, Claimed(c)
  PROVE  OnceInv'
<1>1. /\ Executing(c) /\ Innermost(c, "unlock") /\ calls[c] # <<>> /\ unlock(c)
      /\ seen' = [seen EXCEPT ![c] = "init"] /\ UNCHANGED <<state_, complete, thrown>>
  BY OnceAt, Zenon DEF Claimed, Innermost
<1>2. PICK b \in BOOLEAN : b = (seen[c] = "done")
  BY Zenon
<1>3. /\ CallsOK' /\ \A d \in Contexts : d # c => calls'[d] = calls[d]
      /\ \A m : Innermost(c, m)' => m = "fn"
      /\ Len(calls[c]) \in Nat /\ Len(calls[c]) > 0 /\ Len(calls'[c]) \in Nat
      /\ Len(calls'[c]) >= Len(calls[c]) - 1
      /\ \A i \in 1 .. Len(calls[c]) - 1 : calls'[c][i] = calls[c][i]
      /\ \/ /\ seen[c] = "init" /\ answer' = NoAnswer
            /\ started' = IF started < 2 THEN started + 1 ELSE 2
            /\ Len(calls'[c]) = Len(calls[c]) /\ calls'[c][Len(calls[c])] = "fn"
         \/ seen[c] # "init" /\ answer' = b /\ started' = started
  <2>1. CASE /\ seen[c] = "init" /\ Goto(c, "fn")
             /\ started' = IF started < 2 THEN started + 1 ELSE 2
    <3>1. "fn" \in Labels
      BY Zenon DEF Labels
    <3>2. /\ \A d \in Contexts : d # c => calls'[d] = calls[d]
          /\ Len(calls[c]) \in Nat /\ Len(calls[c]) > 0 /\ Len(calls'[c]) = Len(calls[c])
          /\ \A i \in 1 .. Len(calls[c]) - 1 : calls'[c][i] = calls[c][i]
          /\ calls'[c][Len(calls[c])] = "fn"
          /\ \A m : Innermost(c, m)' <=> m = "fn"
          /\ CallsOK' /\ answer' = NoAnswer
      BY <1>1, <2>1, <3>1, GotoFacts, Zenon DEF OnceInv
    <3>3. Len(calls'[c]) \in Nat /\ Len(calls'[c]) >= Len(calls[c]) - 1
      BY <3>2
    <3> QED
      BY <2>1, <3>2, <3>3, Zenon
  <2>2. CASE seen[c] # "init" /\ Return(c, seen[c] = "done") /\ started' = started
    <3>1. Return(c, b)
      BY <2>2, <1>2, Zenon
    <3>2. /\ \A d \in Contexts : d # c => calls'[d] = calls[d]
          /\ Len(calls[c]) \in Nat /\ Len(calls[c]) > 0 /\ Len(calls'[c]) = Len(calls[c]) - 1
          /\ \A i \in 1 .. Len(calls[c]) - 1 : calls'[c][i] = calls[c][i]
          /\ \A m : Innermost(c, m)' => m = "fn"
          /\ CallsOK' /\ answer' = b
      BY <1>1, <3>1, ReturnFacts, Zenon DEF OnceInv
    <3>3. Len(calls'[c]) \in Nat /\ Len(calls'[c]) >= Len(calls[c]) - 1
      BY <3>2
    <3> QED
      BY <2>2, <3>2, <3>3, Zenon
  <2> QED
    BY <2>1, <2>2, Zenon DEF Claimed
<1>4. Claiming(c) /\ Len(previous[c]) = 1 /\ ~previous[c][1]
  BY <1>1, Zenon DEF Claiming, OnceInv, ClaimsExclusive
<1>5. /\ previous' \in [Contexts -> Seq(BOOLEAN)]
      /\ \A d \in Contexts : d # c => previous'[d] = previous[d]
      /\ Len(previous'[c]) = Len(previous[c]) - 1
      /\ primask' = previous[c][Len(previous[c])] /\ primask' \in BOOLEAN
      /\ UNCHANGED running
  <2>1. Len(previous[c]) > 0
    BY <1>4
  <2> QED
    BY <1>1, <2>1, UnlockFacts, Zenon DEF OnceInv, OnceTypes
<1>6. ~primask' /\ Len(previous'[c]) = 0
  <2>1. primask' = previous[c][1]
    BY <1>4, <1>5, Zenon
  <2> QED
    BY <2>1, <1>4, <1>5
<1>7. \A d \in Contexts : d # c => \A l : Innermost(d, l)' <=> Innermost(d, l)
  BY <1>3, Zenon DEF Innermost
<1>8. \A d \in Contexts : d # c => /\ ~Claiming(d) /\ ~Won(d)
                                   /\ ~Innermost(d, "store") /\ ~Innermost(d, "unlock")
  BY <1>1, OneClaimer, Zenon DEF OnceInv
<1>9. \A d \in Contexts : /\ ~Claiming(d)' /\ ~Innermost(d, "store")' /\ ~Innermost(d, "unlock")'
                          /\ ~Won(d)'
  <2>1. /\ ~Claiming(c)' /\ ~Innermost(c, "store")' /\ ~Innermost(c, "unlock")' /\ ~Won(c)'
    BY <1>3, Zenon DEF Claiming, Won
  <2> QED
    BY <2>1, <1>7, <1>8, Zenon DEF Claiming, Won
<1>10. seen[c] = "init" => started = 0 /\ state_ = "running"
  BY <1>1, Zenon DEF OnceInv, StateExact, SeenExact, Won
<1>11. seen[c] # "init" => state_ = seen[c] /\ \A d \in Contexts : ~Won(d)
  BY <1>1, <1>8, Zenon DEF OnceInv, SeenExact, Won
<1>12. OnceTypes'
  <2>1. started' \in 0 .. 1 /\ seen' \in [Contexts -> States]
    BY <1>1, <1>3, <1>10 DEF OnceInv, OnceTypes, States
  <2>2. answer' \in BOOLEAN \cup {NoAnswer}
    BY <1>3, Zenon
  <2> QED
    BY <1>1, <1>3, <1>5, <2>1, <2>2, ZenonT(60) DEF OnceInv, OnceTypes, CoreOK
<1>13. ClaimsExclusive'
  <2>1. ASSUME NEW d \in Contexts
        PROVE  IF Claiming(d)' \/ Innermost(d, "locking")'
               THEN Len(previous'[d]) = 1 /\ ~previous'[d][1]
               ELSE Len(previous'[d]) = 0
    <3>1. CASE d = c
      <4>1. ~Innermost(c, "locking")'
        BY <1>3, Zenon
      <4> QED
        BY <3>1, <4>1, <1>6, <1>9, Zenon
    <3>2. CASE d # c
      BY <3>2, <1>5, <1>7, <1>8, <1>9, Zenon DEF OnceInv, ClaimsExclusive
    <3> QED
      BY <3>1, <3>2, Zenon
  <2> QED
    BY <2>1, <1>6, <1>9, Zenon DEF ClaimsExclusive
<1>14. SeenExact'
  BY <1>9, Zenon DEF SeenExact
<1>15. UnderWay \/ seen[c] = "init" => UnderWay'
  <2>1. CASE seen[c] = "init"
    <3>1. Len(calls[c]) \in 1 .. Len(calls'[c]) /\ calls'[c][Len(calls[c])] = "fn"
      BY <2>1, <1>3
    <3> QED
      BY <3>1, Zenon DEF UnderWay
  <2>2. ASSUME NEW d \in Contexts, NEW i \in 1 .. Len(calls[d]), calls[d][i] \in {"fn", "finish"}
        PROVE  UnderWay'
    <3>1. CASE d # c
      BY <2>2, <3>1, <1>3, Zenon DEF UnderWay
    <3>2. CASE d = c
      <4>1. i \in 1 .. Len(calls[c]) - 1
        BY <2>2, <3>2, <1>1, <1>3, SMTT(60) DEF Innermost, Last
      <4>2. i \in 1 .. Len(calls'[c]) /\ calls'[c][i] \in {"fn", "finish"}
        BY <2>2, <3>2, <4>1, <1>3, SMTT(60)
      <4> QED
        BY <4>2, Zenon DEF UnderWay
    <3> QED
      BY <3>1, <3>2, Zenon
  <2> QED
    BY <2>1, <2>2, Zenon DEF UnderWay
<1>16. state_ = "running" => thrown \/ UnderWay'
  BY <1>11, <1>15, Zenon DEF OnceInv, StateExact
<1>17. StateExact'
  <2>1. \A d \in Contexts : Innermost(d, "finish")' => complete'
    BY <1>1, <1>3, <1>7, Zenon DEF OnceInv, StateExact
  <2>2. state_' = "init" => started' = 0
    BY <1>1, <1>3, <1>10, Zenon DEF OnceInv, StateExact
  <2> QED
    BY <2>1, <2>2, <1>1, <1>9, <1>16, Zenon DEF OnceInv, StateExact
<1>18. Answers'
  <2>1. CASE answer' = NoAnswer
    BY <2>1, Zenon DEF Answers
  <2>2. CASE seen[c] # "init" /\ answer' = b
    <3>1. CASE seen[c] = "done"
      <4>1. b = TRUE /\ complete
        BY <3>1, <2>2, <1>2, <1>11, Zenon DEF OnceInv, StateExact
      <4> QED
        BY <4>1, <2>2, <1>1, Zenon DEF Answers
    <3>2. CASE seen[c] = "running"
      <4>1. b = FALSE
        BY <3>2, <1>2, Zenon
      <4>2. thrown' \/ UnderWay'
        BY <3>2, <1>1, <1>11, <1>16, Zenon
      <4> QED
        BY <4>1, <4>2, <2>2, Zenon DEF Answers
    <3> QED
      BY <2>2, <3>1, <3>2, Zenon DEF OnceInv, OnceTypes, States
  <2> QED
    BY <2>1, <2>2, <1>3, Zenon
<1> QED
  BY <1>12, <1>13, <1>14, <1>17, <1>18, Zenon DEF OnceInv

LEMMA OnceHandlers ==
  ASSUME OnceInv, NoAnswer \notin BOOLEAN, NEW c \in Contexts,
         HandlerStarts(c) \/ HandlerEnds(c)
  PROVE  OnceInv'
<1>1. /\ UNCHANGED <<primask, previous, state_, calls, seen, complete, started, thrown>>
      /\ answer' = NoAnswer
  BY Zenon DEF HandlerStarts, HandlerEnds, Interrupt, ReturnFromInterrupt,
         ghosts
<1>2. CoreOK' /\ \A d \in Contexts : ~Claiming(d)
  <2>1. CASE HandlerStarts(c)
    <3>1. Interrupt(c)
      BY <2>1, Zenon DEF HandlerStarts
    <3>2. CoreOK' /\ ~primask
      BY <3>1, InterruptCore, Zenon DEF OnceInv, OnceTypes
    <3> QED
      BY <3>2, Zenon DEF OnceInv, ClaimsExclusive
  <2>2. CASE HandlerEnds(c)
    <3>1. ReturnFromInterrupt(c) /\ calls[c] = <<>>
      BY <2>2, Zenon DEF HandlerEnds
    <3>2. CoreOK' /\ Executing(c)
      BY <3>1, ReturnCore, Zenon DEF OnceInv, OnceTypes
    <3>3. ~Claiming(c)
      BY <3>1, Zenon DEF Claiming, Innermost
    <3> QED
      BY <3>2, <3>3, OneClaimer, Zenon DEF OnceInv
  <2> QED
    BY <2>1, <2>2, Zenon
<1>3. /\ \A d \in Contexts : \A l : Innermost(d, l)' <=> Innermost(d, l)
      /\ \A d \in Contexts : ~Claiming(d)' /\ (Won(d)' <=> Won(d))
      /\ UnderWay' <=> UnderWay
  BY <1>1, <1>2, Zenon DEF Innermost, Claiming, Won, UnderWay
<1>4. OnceTypes'
  BY <1>1, <1>2, Zenon DEF OnceInv, OnceTypes, CallsOK
<1>5. ClaimsExclusive'
  BY <1>1, <1>2, <1>3, Zenon DEF OnceInv, ClaimsExclusive
<1>6. SeenExact'
  BY <1>1, <1>3, Zenon DEF OnceInv, SeenExact
<1>7. StateExact'
  BY <1>1, <1>3, Zenon DEF OnceInv, StateExact
<1>8. Answers'
  BY <1>1, Zenon DEF Answers
<1> QED
  BY <1>4, <1>5, <1>6, <1>7, <1>8, Zenon DEF OnceInv

LEMMA OnceInit ==
  ASSUME MaxDepth \in Nat, NoAnswer \notin BOOLEAN, Init
  PROVE  OnceInv
<1>1. /\ primask = FALSE /\ running = <<0>> /\ previous = [c \in Contexts |-> <<>>]
      /\ state_ = "init" /\ answer = NoAnswer /\ calls = [c \in Contexts |-> <<>>]
      /\ seen = [c \in Contexts |-> "init"]
      /\ complete = FALSE /\ started = 0 /\ thrown = FALSE
  BY Zenon DEF Init, CoreInit
<1>2. CoreOK
  BY <1>1 DEF CoreOK, Contexts
<1>3. \A c \in Contexts : Len(previous[c]) = 0 /\ calls[c] = <<>> /\ Len(calls[c]) = 0
  BY <1>1, Zenon
<1>4. \A c \in Contexts : ~Claiming(c) /\ ~Won(c) /\ \A l : ~Innermost(c, l)
  BY <1>3, Zenon DEF Claiming, Won, Innermost
<1>5. previous \in [Contexts -> Seq(BOOLEAN)]
  BY <1>1
<1>6. CallsOK
  BY <1>1, <1>3 DEF CallsOK
<1>7. OnceTypes
  <2>1. seen \in [Contexts -> States] /\ state_ \in States
    BY <1>1, Zenon DEF States
  <2>2. started \in 0 .. 1
    BY <1>1
  <2> QED
    BY <1>1, <1>2, <1>5, <1>6, <2>1, <2>2, Zenon DEF OnceTypes
<1>8. ClaimsExclusive
  BY <1>1, <1>3, <1>4, Zenon DEF ClaimsExclusive
<1>9. SeenExact /\ StateExact /\ Answers
  BY <1>1, <1>4, Zenon DEF SeenExact, StateExact, Answers
<1> QED
  BY <1>7, <1>8, <1>9, Zenon DEF OnceInv

LEMMA OnceStep ==
  ASSUME OnceInv, MaxDepth \in Nat, NoAnswer \notin BOOLEAN, [Next]_(vars)
  PROVE  OnceInv'
<1>1. CASE UNCHANGED vars
  BY <1>1, SMTT(60) DEF vars, core, OnceInv, OnceTypes, CoreOK, CallsOK, ClaimsExclusive, SeenExact,
              StateExact, Answers, UnderWay, Won, Claiming, Innermost, Executing
<1>2. ASSUME NEW c \in Contexts,
             \/ try_call_once(c) \/ is_done(c) \/ ClaimLocks(c)
             \/ ClaimLocked(c) \/ ClaimLoad(c) \/ ClaimStore(c)
             \/ Claimed(c) \/ FnReturns(c) \/ FnThrows(c) \/ finish(c)
             \/ HandlerStarts(c) \/ HandlerEnds(c)
      PROVE  OnceInv'
  BY <1>2, OnceCall, OnceIsDone, OnceFn, OnceLocks, OnceClaims, OnceClaimed, OnceHandlers, Zenon
<1> QED
  BY <1>1, <1>2, ZenonT(60) DEF Next

(***************************************************************************)
(* try_call_once: at most one initializer ever starts, TRUE is returned    *)
(* only once it has completed, FALSE only while it is under way or after   *)
(* it threw, for any set of handlers and any depth of reentrant calls      *)
(* (once_flag.hpp:46-49, 72-73, 131-133).                                  *)
(***************************************************************************)
THEOREM OnceSafe ==
  ASSUME MaxDepth \in Nat, NoAnswer \notin BOOLEAN
  PROVE  Spec => [](TypeOK /\ OnceFlagExact)
<1>1. OnceInv => TypeOK /\ OnceFlagExact
  <2> SUFFICES ASSUME OnceInv PROVE TypeOK /\ OnceFlagExact
    BY Zenon
  <2>1. CoreTypeOK
    BY DEF OnceInv, OnceTypes, CoreOK, CoreTypeOK
  <2>2. previous \in [Contexts -> {<<>>} \cup {<<b>> : b \in BOOLEAN}]
    <3>1. ASSUME NEW c \in Contexts PROVE previous[c] \in {<<>>} \cup {<<b>> : b \in BOOLEAN}
      <4>1. PICK p \in Seq(BOOLEAN) : p = previous[c]
        BY Zenon DEF OnceInv, OnceTypes
      <4>2. Len(p) = 0 \/ Len(p) = 1
        BY <4>1, Zenon DEF OnceInv, ClaimsExclusive
      <4>3. CASE Len(p) = 0
        BY <4>1, <4>3, SeqFacts, ZenonT(60)
      <4>4. CASE Len(p) = 1
        <5>1. p = <<p[1]>> /\ p[1] \in BOOLEAN
          BY <4>4
        <5> QED
          BY <5>1, <4>1, Zenon
      <4> QED
        BY <4>2, <4>3, <4>4, Zenon
    <3> QED
      BY <3>1, Zenon DEF OnceInv, OnceTypes
  <2>3. calls \in [Contexts -> UNION {[1 .. n -> Labels] : n \in 0 .. MaxDepth}]
    BY ShortSequence, Zenon DEF OnceInv, OnceTypes, CallsOK
  <2>4. started \in 0 .. 2 /\ started <= 1
    BY DEF OnceInv, OnceTypes
  <2>5. TypeOK
    BY <2>1, <2>2, <2>3, <2>4, Zenon DEF TypeOK, OnceInv, OnceTypes
  <2>6. OnceFlagExact
    BY <2>4, Zenon DEF OnceFlagExact, RunsOnce, TrueMeansInitialized,
       FalseMeansRunning, OnceInv, Answers, UnderWay
  <2> QED
    BY <2>5, <2>6, Zenon
<1>2. Init => OnceInv
  BY OnceInit, Zenon
<1>3. OnceInv /\ [Next]_(vars) => OnceInv'
  BY OnceStep, Zenon
<1> QED
  BY <1>1, <1>2, <1>3, PTL DEF Spec


-----------------------------------------------------------------------------
(***************************************************************************)
(* guarded.  A context is inside a critical section from cpsid to the      *)
(* restore of its outermost lock.                                          *)
(***************************************************************************)
CONSTANT MaxNesting
VARIABLES pc, value_, loaded, own

Guarded == INSTANCE Guarded

Inside(c) == Len(previous[c]) > (IF pc[c] = "locking" THEN 1 ELSE 0)

GuardedTypes ==
  /\ CoreOK /\ primask \in BOOLEAN
  /\ previous \in [Contexts -> Seq(BOOLEAN)]
  /\ value_ \in 0 .. 3 /\ own \in BOOLEAN
  /\ pc \in [Contexts -> {"run", "locking", "store"}]
  /\ loaded \in [Contexts -> 0 .. 3]
  /\ \A c \in Contexts : Len(previous[c]) <= MaxNesting
  /\ \A c \in Contexts : pc[c] # "run" => Len(previous[c]) > 0

\* The outermost lock of a context restores the PRIMASK it was called with.
Restores ==
  \A c \in Contexts : \A i \in 1 .. Len(previous[c]) :
    previous[c][i] <=> i > 1 \/ (c = 0 /\ own)

\* Only the context that executes is inside a section.
InsideExecutes ==
  /\ \A c \in Contexts : Inside(c) => Executing(c)
  /\ own => Executing(0)

MaskedInside == primask <=> own \/ \E c \in Contexts : Inside(c)

Fresh == \A c \in Contexts : pc[c] = "store" => loaded[c] = value_

GuardedInv == GuardedTypes /\ Restores /\ InsideExecutes /\ MaskedInside /\ Fresh

LEMMA GuardedCore ==
  /\ Guarded!Contexts = Contexts
  /\ \A c : /\ Guarded!Executing(c) <=> Executing(c)
            /\ Guarded!Interrupt(c) <=> Interrupt(c)
            /\ Guarded!ReturnFromInterrupt(c) <=> ReturnFromInterrupt(c)
            /\ Guarded!mrs(c) <=> mrs(c)
            /\ Guarded!cpsid(c) <=> cpsid(c)
            /\ Guarded!unlock(c) <=> unlock(c)
BY Zenon DEF Guarded!Contexts, Contexts, Guarded!Executing, Executing, Guarded!Interrupt, Interrupt,
       Guarded!ReturnFromInterrupt, ReturnFromInterrupt, Guarded!mrs, mrs, Guarded!cpsid, cpsid,
       Guarded!unlock, unlock, Guarded!Last, Last, Guarded!Front, Front

LEMMA GuardedInit == ASSUME MaxNesting \in Nat, Guarded!Init PROVE GuardedInv
<1>1. /\ primask = FALSE /\ running = <<0>> /\ previous = [c \in Contexts |-> <<>>]
      /\ value_ = 0 /\ own = FALSE
      /\ pc = [c \in Contexts |-> "run"] /\ loaded = [c \in Contexts |-> 0]
  BY Zenon DEF Guarded!Init, Guarded!CoreInit, Guarded!Contexts, Contexts
<1>2. CoreOK
  BY <1>1 DEF CoreOK, Contexts
<1>3. \A c \in Contexts : previous[c] = <<>> /\ Len(previous[c]) = 0
  BY <1>1, Zenon
<1>4. previous \in [Contexts -> Seq(BOOLEAN)]
  BY <1>1
<1>5. \A c \in Contexts : ~Inside(c) /\ pc[c] = "run"
  BY <1>1, <1>3 DEF Inside
<1>6. GuardedTypes
  <2>1. value_ \in 0 .. 3 /\ loaded \in [Contexts -> 0 .. 3]
    BY <1>1
  <2>2. \A c \in Contexts : Len(previous[c]) <= MaxNesting
    BY <1>3
  <2>3. primask \in BOOLEAN /\ own \in BOOLEAN /\ pc \in [Contexts -> {"run", "locking", "store"}]
    BY <1>1, Zenon
  <2> QED
    BY <1>2, <1>4, <1>5, <2>1, <2>2, <2>3, Zenon DEF GuardedTypes
<1>7. Restores
  BY <1>3 DEF Restores
<1>8. InsideExecutes /\ MaskedInside /\ Fresh
  BY <1>1, <1>5, Zenon DEF InsideExecutes, MaskedInside, Fresh
<1> QED
  BY <1>6, <1>7, <1>8, Zenon DEF GuardedInv

\* A context that executes outside every section finds interrupts enabled.
LEMMA MaskOutside ==
  ASSUME CoreOK, InsideExecutes, MaskedInside, NEW c \in Contexts, Executing(c), ~Inside(c)
  PROVE  /\ primask <=> c = 0 /\ own
         /\ \A d \in Contexts : ~Inside(d)
<1>1. \A d \in Contexts : ~Inside(d)
  BY Zenon DEF InsideExecutes, Executing
<1>2. own => c = 0
  BY Zenon DEF InsideExecutes, Executing
<1> QED
  BY <1>1, <1>2, Zenon DEF MaskedInside

\* scoped_lock's constructor up to the mask.
LEMMA GuardedLocks ==
  ASSUME GuardedInv, MaxNesting \in Nat, NEW c \in Contexts, Guarded!with(c)
  PROVE  GuardedInv'
<1>1. /\ Executing(c) /\ pc[c] = "run" /\ Len(previous[c]) < MaxNesting /\ mrs(c)
      /\ pc' = [pc EXCEPT ![c] = "locking"] /\ UNCHANGED <<value_, loaded, own>>
  BY GuardedCore, Zenon DEF Guarded!with, Guarded!Goto
<1>2. /\ previous' \in [Contexts -> Seq(BOOLEAN)]
      /\ \A d \in Contexts : d # c => previous'[d] = previous[d]
      /\ Len(previous[c]) \in Nat /\ Len(previous'[c]) = Len(previous[c]) + 1
      /\ \A i \in 1 .. Len(previous[c]) : previous'[c][i] = previous[c][i]
      /\ previous'[c][Len(previous[c]) + 1] = primask
      /\ UNCHANGED <<primask, running>>
  BY <1>1, LockFacts, Zenon DEF GuardedInv, GuardedTypes
<1>3. /\ pc' \in [Contexts -> {"run", "locking", "store"}] /\ pc'[c] = "locking"
      /\ \A d \in Contexts : d # c => pc'[d] = pc[d]
  BY <1>1, Zenon DEF GuardedInv, GuardedTypes
<1>4. \A d \in Contexts : Inside(d)' <=> Inside(d)
  BY <1>1, <1>2, <1>3, SMTT(60) DEF Inside
<1>5. GuardedTypes'
  <2>1. CoreOK' /\ primask' \in BOOLEAN /\ own' \in BOOLEAN
        /\ value_' \in 0 .. 3 /\ loaded' \in [Contexts -> 0 .. 3]
    BY <1>1, <1>2, ZenonT(60) DEF GuardedInv, GuardedTypes, CoreOK
  <2>2. \A d \in Contexts : Len(previous'[d]) <= MaxNesting
    BY <1>1, <1>2, SMTT(60) DEF GuardedInv, GuardedTypes
  <2>3. \A d \in Contexts : pc'[d] # "run" => Len(previous'[d]) > 0
    BY <1>2, <1>3, SMTT(60) DEF GuardedInv, GuardedTypes
  <2> QED
    BY <1>2, <1>3, <2>1, <2>2, <2>3, Zenon DEF GuardedTypes
<1>6. primask <=> Len(previous[c]) + 1 > 1 \/ (c = 0 /\ own)
  <2>1. CASE Len(previous[c]) = 0
    <3>1. ~Inside(c)
      BY <2>1, <1>1 DEF Inside
    <3>2. primask <=> c = 0 /\ own
      BY <3>1, <1>1, MaskOutside, Zenon DEF GuardedInv, GuardedTypes
    <3> QED
      BY <3>2, <2>1, SMTT(60)
  <2>2. CASE Len(previous[c]) > 0
    <3>1. Inside(c)
      BY <2>2, <1>1, ZenonT(60) DEF Inside
    <3> QED
      BY <3>1, <2>2, <1>2 DEF GuardedInv, MaskedInside
  <2> QED
    BY <2>1, <2>2, <1>2, SMTT(60)
<1>7. Restores'
  <2> SUFFICES ASSUME NEW d \in Contexts, NEW i \in 1 .. Len(previous'[d])
               PROVE  previous'[d][i] <=> i > 1 \/ (d = 0 /\ own')
    BY Zenon DEF Restores
  <2>1. CASE d # c
    BY <2>1, <1>1, <1>2, ZenonT(60) DEF GuardedInv, Restores
  <2>2. CASE d = c /\ i \in 1 .. Len(previous[c])
    BY <2>2, <1>1, <1>2, Zenon DEF GuardedInv, Restores
  <2>3. CASE d = c /\ i = Len(previous[c]) + 1
    BY <2>3, <1>1, <1>2, <1>6, Zenon
  <2> QED
    BY <2>1, <2>2, <2>3, <1>2, SMTT(60)
<1>8. InsideExecutes' /\ MaskedInside'
  BY <1>1, <1>2, <1>4, Zenon DEF GuardedInv, InsideExecutes, MaskedInside, Executing
<1>9. Fresh'
  BY <1>1, <1>3, Zenon DEF GuardedInv, Fresh
<1> QED
  BY <1>5, <1>7, <1>8, <1>9, Zenon DEF GuardedInv

\* Interrupts are masked.
LEMMA GuardedMasks ==
  ASSUME GuardedInv, NEW c \in Contexts, Guarded!Masked(c)
  PROVE  GuardedInv'
<1>1. /\ Executing(c) /\ pc[c] = "locking" /\ primask' = TRUE
      /\ pc' = [pc EXCEPT ![c] = "run"] /\ UNCHANGED <<value_, loaded, own, running, previous>>
  BY GuardedCore, Zenon DEF Guarded!Masked, Guarded!Goto, cpsid
<1>2. /\ pc' \in [Contexts -> {"run", "locking", "store"}] /\ pc'[c] = "run"
      /\ \A d \in Contexts : d # c => pc'[d] = pc[d]
  BY <1>1, Zenon DEF GuardedInv, GuardedTypes
<1>3. Inside(c)' /\ \A d \in Contexts : d # c => (Inside(d)' <=> Inside(d))
  BY <1>1, <1>2, Zenon DEF Inside, GuardedInv, GuardedTypes
<1>4. GuardedTypes'
  BY <1>1, <1>2, Zenon DEF GuardedInv, GuardedTypes, CoreOK
<1>5. Restores'
  BY <1>1, Zenon DEF GuardedInv, Restores
<1>6. InsideExecutes' /\ MaskedInside'
  BY <1>1, <1>3, Zenon DEF GuardedInv, InsideExecutes, MaskedInside, Executing
<1>7. Fresh'
  BY <1>1, <1>2, Zenon DEF GuardedInv, Fresh
<1> QED
  BY <1>4, <1>5, <1>6, <1>7, Zenon DEF GuardedInv

\* The body's load and store: no other context is in a body.
LEMMA GuardedBody ==
  ASSUME GuardedInv, NEW c \in Contexts, Guarded!Load(c) \/ Guarded!Store(c)
  PROVE  GuardedInv'
<1>1. /\ Executing(c) /\ pc[c] \in {"run", "store"} /\ previous[c] # <<>>
      /\ \E l \in {"run", "store"} : pc' = [pc EXCEPT ![c] = l]
      /\ UNCHANGED <<primask, running, previous, own>>
  <2>1. CASE Guarded!Load(c)
    BY <2>1, GuardedCore, Zenon DEF Guarded!Load, Guarded!Goto, Guarded!Holds, Guarded!core
  <2>2. CASE Guarded!Store(c)
    BY <2>2, GuardedCore, SMTT(60) DEF Guarded!Store, Guarded!Goto, Guarded!core, GuardedInv, GuardedTypes
  <2> QED
    BY <2>1, <2>2, Zenon
<1>2. /\ pc' \in [Contexts -> {"run", "locking", "store"}] /\ pc'[c] # "locking"
      /\ \A d \in Contexts : d # c => pc'[d] = pc[d]
  BY <1>1, Zenon DEF GuardedInv, GuardedTypes
<1>3. value_' \in 0 .. 3 /\ loaded' \in [Contexts -> 0 .. 3]
  <2>1. CASE Guarded!Load(c)
    BY <2>1, Zenon DEF GuardedInv, GuardedTypes, Guarded!Load
  <2>2. CASE Guarded!Store(c)
    <3>1. (loaded[c] + 1) % 4 \in 0 .. 3
      BY SMTT(60) DEF GuardedInv, GuardedTypes
    <3> QED
      BY <2>2, <3>1, SMTT(60) DEF GuardedInv, GuardedTypes, Guarded!Store
  <2> QED
    BY <2>1, <2>2, Zenon
<1>4. \A d \in Contexts : Inside(d)' <=> Inside(d)
  BY <1>1, <1>2, Zenon DEF Inside
<1>5. Len(previous[c]) \in Nat /\ Len(previous[c]) > 0
  BY <1>1, SeqFacts DEF GuardedInv, GuardedTypes
<1>6. GuardedTypes'
  BY <1>1, <1>2, <1>3, <1>5, Zenon DEF GuardedInv, GuardedTypes, CoreOK
<1>7. Restores'
  BY <1>1, Zenon DEF GuardedInv, Restores
<1>8. InsideExecutes' /\ MaskedInside'
  BY <1>1, <1>4, Zenon DEF GuardedInv, InsideExecutes, MaskedInside, Executing
<1>9. \A d \in Contexts : d # c => pc[d] # "store"
  BY <1>1, Zenon DEF GuardedInv, GuardedTypes, InsideExecutes, Inside, Executing
<1>10. Fresh'
  <2> SUFFICES ASSUME NEW d \in Contexts, pc'[d] = "store" PROVE loaded'[d] = value_'
    BY Zenon DEF Fresh
  <2>1. d = c
    BY <1>2, <1>9, Zenon
  <2> QED
    BY <2>1, <1>1, Zenon DEF Guarded!Load, Guarded!Store, Guarded!Goto, GuardedInv, GuardedTypes
<1> QED
  BY <1>6, <1>7, <1>8, <1>10, Zenon DEF GuardedInv

\* scoped_lock's destructor: an inner lock restores a masked state, the outermost
\* the state that the context was in.
LEMMA GuardedLeaves ==
  ASSUME GuardedInv, MaxNesting \in Nat, NEW c \in Contexts, Guarded!Leave(c)
  PROVE  GuardedInv'
<1>1. /\ Executing(c) /\ pc[c] = "run" /\ previous[c] # <<>> /\ unlock(c)
      /\ UNCHANGED <<value_, pc, loaded, own>>
  BY GuardedCore, Zenon DEF Guarded!Leave, Guarded!Holds
<1>2. Len(previous[c]) \in Nat /\ Len(previous[c]) > 0
  BY <1>1, SeqFacts DEF GuardedInv, GuardedTypes
<1>3. /\ previous' \in [Contexts -> Seq(BOOLEAN)]
      /\ \A d \in Contexts : d # c => previous'[d] = previous[d]
      /\ Len(previous'[c]) = Len(previous[c]) - 1
      /\ \A i \in 1 .. Len(previous[c]) - 1 : previous'[c][i] = previous[c][i]
      /\ primask' = previous[c][Len(previous[c])] /\ primask' \in BOOLEAN
      /\ UNCHANGED running
  BY <1>1, <1>2, UnlockFacts, Zenon DEF GuardedInv, GuardedTypes
<1>4. primask' <=> Len(previous[c]) > 1 \/ (c = 0 /\ own)
  BY <1>2, <1>3, SMTT(60) DEF GuardedInv, Restores
<1>5. /\ Inside(c)' <=> Len(previous[c]) > 1
      /\ \A d \in Contexts : d # c => ~Inside(d)'
  <2>1. \A d \in Contexts : d # c => ~Inside(d)
    BY <1>1, Zenon DEF GuardedInv, InsideExecutes, Executing
  <2> QED
    BY <1>1, <1>2, <1>3, <2>1, SMTT(60) DEF Inside
<1>6. GuardedTypes'
  <2>1. CoreOK' /\ own' \in BOOLEAN /\ value_' \in 0 .. 3 /\ loaded' \in [Contexts -> 0 .. 3]
    BY <1>1, <1>3, Zenon DEF GuardedInv, GuardedTypes, CoreOK
  <2>2. ASSUME NEW d \in Contexts PROVE Len(previous'[d]) <= MaxNesting
    <3>1. Len(previous[c]) <= MaxNesting /\ Len(previous[d]) <= MaxNesting
      BY Zenon DEF GuardedInv, GuardedTypes
    <3> QED
      BY <3>1, <1>2, <1>3, SMTT(60)
  <2>3. \A d \in Contexts : pc'[d] # "run" => Len(previous'[d]) > 0
    BY <1>1, <1>3, Zenon DEF GuardedInv, GuardedTypes
  <2> QED
    BY <1>1, <1>3, <2>1, <2>2, <2>3, ZenonT(60) DEF GuardedInv, GuardedTypes
<1>7. Restores'
  <2> SUFFICES ASSUME NEW d \in Contexts, NEW i \in 1 .. Len(previous'[d])
               PROVE  previous'[d][i] <=> i > 1 \/ (d = 0 /\ own')
    BY Zenon DEF Restores
  <2>1. CASE d # c
    BY <2>1, <1>1, <1>3, Zenon DEF GuardedInv, Restores
  <2>2. CASE d = c
    <3>1. i \in 1 .. Len(previous[c]) - 1 /\ i \in 1 .. Len(previous[c])
      BY <2>2, <1>2, <1>3
    <3> QED
      BY <2>2, <3>1, <1>1, <1>3, Zenon DEF GuardedInv, Restores
  <2> QED
    BY <2>1, <2>2, Zenon
<1>8. InsideExecutes' /\ MaskedInside'
  <2>1. own => c = 0
    BY <1>1, Zenon DEF GuardedInv, InsideExecutes, Executing
  <2>2. InsideExecutes'
    BY <1>1, <1>3, <1>5, Zenon DEF GuardedInv, InsideExecutes, Executing
  <2>3. MaskedInside'
    BY <1>1, <1>4, <1>5, <2>1, Zenon DEF MaskedInside
  <2> QED
    BY <2>2, <2>3, Zenon
<1>9. Fresh'
  BY <1>1, Zenon DEF GuardedInv, Fresh
<1> QED
  BY <1>6, <1>7, <1>8, <1>9, Zenon DEF GuardedInv

\* The main program's own section, and handlers that start and return.
LEMMA GuardedMaskOwn ==
  ASSUME GuardedInv, Guarded!MaskOwn
  PROVE  GuardedInv'
<1>1. /\ Executing(0) /\ pc[0] = "run" /\ previous[0] = <<>> /\ 0 \in Contexts
      /\ primask' = ~own /\ own' = ~own
      /\ UNCHANGED <<running, previous, value_, pc, loaded>>
  BY GuardedCore, Zenon DEF Guarded!MaskOwn, Contexts
<1>2. Len(previous[0]) = 0
  BY <1>1
<1>3. ~Inside(0)
  BY <1>1, <1>2 DEF Inside
<1>4. \A d \in Contexts : ~Inside(d)'
  <2>1. \A d \in Contexts : ~Inside(d)
    BY <1>1, <1>3, MaskOutside, Zenon DEF GuardedInv, GuardedTypes
  <2> QED
    BY <1>1, <2>1, Zenon DEF Inside
<1>5. GuardedTypes'
  BY <1>1, Zenon DEF GuardedInv, GuardedTypes, CoreOK
<1>6. Restores'
  <2> SUFFICES ASSUME NEW d \in Contexts, NEW i \in 1 .. Len(previous'[d])
               PROVE  previous'[d][i] <=> i > 1 \/ (d = 0 /\ own')
    BY Zenon DEF Restores
  <2>1. d # 0
    BY <1>1, <1>2, SMTT(60)
  <2> QED
    BY <1>1, <2>1, Zenon DEF GuardedInv, Restores
<1>7. InsideExecutes' /\ MaskedInside'
  BY <1>1, <1>4, Zenon DEF InsideExecutes, MaskedInside, Executing
<1>8. Fresh'
  BY <1>1, ZenonT(60) DEF GuardedInv, Fresh
<1> QED
  BY <1>5, <1>6, <1>7, <1>8, Zenon DEF GuardedInv

LEMMA GuardedHandlers ==
  ASSUME GuardedInv, NEW c \in Contexts, Guarded!HandlerStarts(c) \/ Guarded!HandlerEnds(c)
  PROVE  GuardedInv'
<1>1. UNCHANGED <<primask, previous, value_, pc, loaded, own>>
  BY Zenon DEF Guarded!HandlerStarts, Guarded!HandlerEnds, Guarded!Interrupt, Guarded!ReturnFromInterrupt
<1>2. CoreOK' /\ (\A d \in Contexts : ~Inside(d)) /\ ~own
  <2>1. CASE Guarded!HandlerStarts(c)
    <3>1. Interrupt(c)
      BY <2>1, GuardedCore, Zenon DEF Guarded!HandlerStarts
    <3>2. CoreOK' /\ ~primask
      BY <3>1, InterruptCore, Zenon DEF GuardedInv, GuardedTypes
    <3> QED
      BY <3>2, Zenon DEF GuardedInv, MaskedInside
  <2>2. CASE Guarded!HandlerEnds(c)
    <3>1. ReturnFromInterrupt(c) /\ pc[c] = "run" /\ previous[c] = <<>>
      BY <2>2, GuardedCore, Zenon DEF Guarded!HandlerEnds
    <3>2. CoreOK' /\ Executing(c) /\ c # 0
      BY <3>1, ReturnCore, Zenon DEF GuardedInv, GuardedTypes
    <3>3. ~Inside(c)
      BY <3>1 DEF Inside
    <3>4. \A d \in Contexts : ~Inside(d)
      BY <3>2, <3>3, MaskOutside, Zenon DEF GuardedInv, GuardedTypes
    <3>5. ~own
      BY <3>2, Zenon DEF GuardedInv, InsideExecutes, Executing
    <3> QED
      BY <3>2, <3>4, <3>5, Zenon
  <2> QED
    BY <2>1, <2>2, Zenon
<1>3. \A d \in Contexts : ~Inside(d)'
  BY <1>1, <1>2, Zenon DEF Inside
<1>4. GuardedTypes'
  BY <1>1, <1>2, Zenon DEF GuardedInv, GuardedTypes
<1>5. Restores'
  BY <1>1, Zenon DEF GuardedInv, Restores
<1>6. InsideExecutes' /\ MaskedInside'
  BY <1>1, <1>2, <1>3, Zenon DEF GuardedInv, InsideExecutes, MaskedInside
<1>7. Fresh'
  BY <1>1, Zenon DEF GuardedInv, Fresh
<1> QED
  BY <1>4, <1>5, <1>6, <1>7, Zenon DEF GuardedInv

LEMMA GuardedStep ==
  ASSUME GuardedInv, MaxNesting \in Nat, [Guarded!Next]_(Guarded!vars)
  PROVE  GuardedInv'
<1>1. CASE UNCHANGED Guarded!vars
  BY <1>1, Zenon DEF Guarded!vars, Guarded!core, GuardedInv, GuardedTypes, CoreOK, Restores,
              InsideExecutes, MaskedInside, Fresh, Inside, Executing
<1>2. CASE Guarded!MaskOwn
  BY <1>2, GuardedMaskOwn, Zenon
<1>3. ASSUME NEW c \in Contexts,
             \/ Guarded!with(c) \/ Guarded!Masked(c) \/ Guarded!Load(c) \/ Guarded!Store(c)
             \/ Guarded!Leave(c) \/ Guarded!HandlerStarts(c) \/ Guarded!HandlerEnds(c)
      PROVE  GuardedInv'
  BY <1>3, GuardedLocks, GuardedMasks, GuardedBody, GuardedLeaves, GuardedHandlers, Zenon
<1> QED
  BY <1>1, <1>2, <1>3, GuardedCore, Zenon DEF Guarded!Next

(***************************************************************************)
(* No update comes between the load and the store of a body that           *)
(* guarded::with runs, and PRIMASK is set exactly while a section is open, *)
(* however sections and interrupts nest (lock.hpp:137-143, 211-216,        *)
(* 274-280, 339-343).                                                      *)
(***************************************************************************)
THEOREM GuardedSafe ==
  ASSUME MaxNesting \in Nat
  PROVE  Guarded!Spec => [](Guarded!TypeOK /\ Guarded!UpdatesAtomic /\ Guarded!MaskExact)
<1>1. GuardedInv => Guarded!TypeOK /\ Guarded!UpdatesAtomic /\ Guarded!MaskExact
  <2> SUFFICES ASSUME GuardedInv
               PROVE  Guarded!TypeOK /\ Guarded!UpdatesAtomic /\ Guarded!MaskExact
    BY Zenon
  <2>1. previous \in [Contexts -> UNION {[1 .. n -> BOOLEAN] : n \in 0 .. MaxNesting}]
    <3>1. \A c \in Contexts : previous[c] \in UNION {[1 .. n -> BOOLEAN] : n \in 0 .. MaxNesting}
      BY ShortSequence, ZenonT(60) DEF GuardedInv, GuardedTypes
    <3> QED
      BY <3>1, Zenon DEF GuardedInv, GuardedTypes
  <2>2. Guarded!CoreTypeOK
    BY GuardedCore, SMTT(60) DEF GuardedInv, GuardedTypes, CoreOK, Guarded!CoreTypeOK
  <2>3. Guarded!TypeOK
    BY <2>1, <2>2, GuardedCore, Zenon DEF Guarded!TypeOK, Guarded!Values, GuardedInv, GuardedTypes
  <2>4. Guarded!UpdatesAtomic
    BY GuardedCore, Zenon DEF Guarded!UpdatesAtomic, GuardedInv, Fresh
  <2>5. \A c \in Contexts : Inside(c) <=> \/ Guarded!Holds(c)
                                          \/ pc[c] = "locking" /\ Len(previous[c]) > 1
    <3> SUFFICES ASSUME NEW c \in Contexts
                 PROVE  Inside(c) <=> \/ Guarded!Holds(c)
                                      \/ pc[c] = "locking" /\ Len(previous[c]) > 1
      BY Zenon
    <3>1. previous[c] # <<>> <=> Len(previous[c]) > 0
      BY SeqFacts DEF GuardedInv, GuardedTypes
    <3> QED
      BY <3>1, Zenon DEF Inside, Guarded!Holds
  <2>6. Guarded!MaskExact
    BY <2>5, GuardedCore, Zenon DEF Guarded!MaskExact, GuardedInv, MaskedInside
  <2> QED
    BY <2>3, <2>4, <2>6, Zenon
<1>2. Guarded!Init => GuardedInv
  BY GuardedInit, Zenon
<1>3. GuardedInv /\ [Guarded!Next]_(Guarded!vars) => GuardedInv'
  BY GuardedStep, Zenon
<1> QED
  BY <1>1, <1>2, <1>3, PTL DEF Guarded!Spec

-----------------------------------------------------------------------------
(***************************************************************************)
(* tick_extender.                                                          *)
(***************************************************************************)
CONSTANTS Period, MaxTime
VARIABLES total_, time, raw, readAt, lastRead

Ticks == INSTANCE TickExtender

LEMMA DivMod ==
  ASSUME NEW P \in Nat \ {0}, NEW a \in Int
  PROVE  /\ a % P \in 0 .. P - 1
         /\ a \div P \in Int
         /\ a = P * (a \div P) + (a % P)
BY SMTT(60)

LEMMA SmallMultiple ==
  ASSUME NEW P \in Nat \ {0}, NEW k \in Int, -P < P * k, P * k < P
  PROVE  P * k = 0
<1>1. CASE k >= 1
  <2>1. P * k >= P
    BY <1>1
  <2> QED
    BY <2>1
<1>2. CASE k <= -1
  <2>1. P * k <= -P
    BY <1>2, SMTT(60)
  <2> QED
    BY <2>1, SMTT(60)
<1>3. CASE k = 0
  BY <1>3, SMTT(60)
<1> QED
  BY <1>1, <1>2, <1>3, SMTT(60)

\* A count r less than a period after t, read modulo the period, is recovered.
LEMMA Unwrap ==
  ASSUME NEW P \in Nat \ {0}, NEW r \in Nat, NEW t \in Nat, t <= r, r - t < P
  PROVE  t + (((r % P) - t) % P) = r
<1>1. PICK q \in Int, m \in Int : m = r % P /\ r = P * q + m
  <2>1. r \div P \in Int /\ r % P \in Int /\ r = P * (r \div P) + (r % P)
    BY DivMod
  <2> QED
    BY <2>1, Zenon
<1>0. PICK y \in Int : y = m - t
  OBVIOUS
<1>2. PICK q2 \in Int, n \in Int : n = y % P /\ y = P * q2 + n /\ 0 <= n /\ n < P
  <2>1. y \div P \in Int /\ y % P \in 0 .. P - 1 /\ y = P * (y \div P) + (y % P)
    BY DivMod, Zenon
  <2>2. y % P \in Int /\ 0 <= y % P /\ y % P < P
    BY <2>1, SMTT(60)
  <2> QED
    BY <2>1, <2>2, ZenonT(60)
<1>3. PICK k \in Int, a \in Int, b \in Int : k = q + q2 /\ a = P * q /\ b = P * q2
  BY <1>1, <1>2, SMTT(60)
<1>4. P * k = a + b
  BY <1>3, SMTT(60)
<1>5. r - t = P * k + n
  BY <1>0, <1>1, <1>2, <1>3, <1>4, SMTT(60)
<1>6. P * k \in Int /\ -P < P * k /\ P * k < P
  <2>1. PICK z \in Int : z = P * k
    BY <1>3
  <2>2. r - t = z + n
    BY <2>1, <1>5, Zenon
  <2> QED
    BY <2>1, <2>2, <1>2, SMTT(60)
<1>7. P * k = 0
  BY <1>3, <1>6, SmallMultiple, Zenon
<1>8. r - t = n
  BY <1>5, <1>7, <1>2, SMTT(60)
<1>9. ((r % P) - t) % P = n
  BY <1>0, <1>1, <1>2, ZenonT(60)
<1> QED
  BY <1>8, <1>9, SMTT(60)

\* A context is inside the section from cpsid to the restore.
Reading(c) == pc[c] \in {"read", "update", "leave"}

TickTypes ==
  /\ CoreOK /\ primask \in BOOLEAN
  /\ previous \in [Contexts -> Seq(BOOLEAN)]
  /\ total_ \in Nat /\ time \in 0 .. MaxTime /\ lastRead \in 0 .. time
  /\ pc \in [Contexts -> {"run", "locking", "read", "update", "leave"}]
  /\ raw \in [Contexts -> 0 .. Period - 1]
  /\ readAt \in [Contexts -> 0 .. time]

\* now() is called with interrupts enabled and masks them for itself alone.
ReadersExclusive ==
  /\ \A c \in Contexts : IF pc[c] = "run" THEN Len(previous[c]) = 0
                         ELSE Len(previous[c]) = 1 /\ ~previous[c][1]
  /\ \A c \in Contexts : Reading(c) => Executing(c)
  /\ primask <=> \E c \in Contexts : Reading(c)

\* total_ is the time of the last read, or the read before it while the last
\* waits to be added.
TotalBehind ==
  /\ total_ <= lastRead /\ lastRead - total_ < Period /\ time - lastRead < Period
  /\ (\A c \in Contexts : pc[c] # "update") => total_ = lastRead
  /\ \A c \in Contexts : pc[c] = "update" => raw[c] = lastRead % Period
  /\ \A c \in Contexts : pc[c] \in {"update", "leave"} => readAt[c] = lastRead

TickInv == TickTypes /\ ReadersExclusive /\ TotalBehind

LEMMA TicksCore ==
  /\ Ticks!Contexts = Contexts
  /\ \A c : /\ Ticks!Executing(c) <=> Executing(c)
            /\ Ticks!Interrupt(c) <=> Interrupt(c)
            /\ Ticks!ReturnFromInterrupt(c) <=> ReturnFromInterrupt(c)
            /\ Ticks!mrs(c) <=> mrs(c)
            /\ Ticks!cpsid(c) <=> cpsid(c)
            /\ Ticks!unlock(c) <=> unlock(c)
BY Zenon DEF Ticks!Contexts, Contexts, Ticks!Executing, Executing, Ticks!Interrupt, Interrupt,
       Ticks!ReturnFromInterrupt, ReturnFromInterrupt, Ticks!mrs, mrs, Ticks!cpsid, cpsid,
       Ticks!unlock, unlock, Ticks!Last, Last, Ticks!Front, Front

LEMMA TickInit ==
  ASSUME Period \in Nat \ {0}, MaxTime \in Nat, Ticks!Init
  PROVE  TickInv
<1>1. /\ primask = FALSE /\ running = <<0>> /\ previous = [c \in Contexts |-> <<>>]
      /\ total_ = 0 /\ time = 0 /\ lastRead = 0
      /\ pc = [c \in Contexts |-> "run"] /\ raw = [c \in Contexts |-> 0]
      /\ readAt = [c \in Contexts |-> 0]
  BY Zenon DEF Ticks!Init, Ticks!CoreInit, Ticks!Contexts, Contexts
<1>2. CoreOK
  BY <1>1 DEF CoreOK, Contexts
<1>3. \A c \in Contexts : Len(previous[c]) = 0 /\ pc[c] = "run" /\ ~Reading(c)
  BY <1>1, Zenon DEF Reading
<1>4. previous \in [Contexts -> Seq(BOOLEAN)]
  BY <1>1
<1>a. primask \in BOOLEAN /\ pc \in [Contexts -> {"run", "locking", "read", "update", "leave"}]
  BY <1>1, Zenon
<1>5. /\ total_ \in Nat /\ time \in 0 .. MaxTime /\ lastRead \in 0 .. time
      /\ raw \in [Contexts -> 0 .. Period - 1] /\ readAt \in [Contexts -> 0 .. time]
  <2>1. 0 \in 0 .. Period - 1 /\ 0 \in 0 .. MaxTime /\ 0 \in 0 .. 0
    OBVIOUS
  <2> QED
    BY <1>1, <2>1, Zenon
<1>6. TickTypes
  BY <1>2, <1>4, <1>a, <1>5, Zenon DEF TickTypes
<1>7. ReadersExclusive
  BY <1>1, <1>3, Zenon DEF ReadersExclusive
<1>8. TotalBehind
  BY <1>1, <1>3 DEF TotalBehind
<1> QED
  BY <1>6, <1>7, <1>8, Zenon DEF TickInv

LEMMA TickTick ==
  ASSUME TickInv, Period \in Nat \ {0}, MaxTime \in Nat, Ticks!Tick
  PROVE  TickInv'
<1>1. /\ time < MaxTime /\ time + 1 - lastRead < Period /\ time' = time + 1
      /\ UNCHANGED <<primask, running, previous, total_, pc, raw, readAt, lastRead>>
  BY Zenon DEF Ticks!Tick, Ticks!core
<1>2. TickTypes'
  <2>1. time' \in 0 .. MaxTime /\ lastRead' \in 0 .. time'
    BY <1>1 DEF TickInv, TickTypes
  <2>2. readAt' \in [Contexts -> 0 .. time']
    <3>1. \A i \in 0 .. time : i \in 0 .. time'
      BY <1>1, SMTT(60) DEF TickInv, TickTypes
    <3> QED
      BY <1>1, <3>1, Zenon DEF TickInv, TickTypes
  <2> QED
    BY <1>1, <2>1, <2>2, Zenon DEF TickInv, TickTypes, CoreOK
<1>3. ReadersExclusive'
  BY <1>1, Zenon DEF TickInv, ReadersExclusive, Reading, Executing
<1>4. TotalBehind'
  BY <1>1 DEF TickInv, TickTypes, TotalBehind
<1> QED
  BY <1>2, <1>3, <1>4, Zenon DEF TickInv

\* Where a step changes the label of c alone, no other context reads.
LEMMA OneReader ==
  ASSUME ReadersExclusive, NEW c \in Contexts, Executing(c)
  PROVE  \A d \in Contexts : d # c => ~Reading(d) /\ pc[d] # "update"
BY Zenon DEF ReadersExclusive, Executing, Reading

LEMMA TickNow ==
  ASSUME TickInv, NEW c \in Contexts, Ticks!now(c)
  PROVE  TickInv'
<1>1. /\ Executing(c) /\ pc[c] = "run" /\ mrs(c)
      /\ pc' = [pc EXCEPT ![c] = "locking"] /\ UNCHANGED <<total_, raw, time, readAt, lastRead>>
  BY TicksCore, Zenon DEF Ticks!now, Ticks!Goto, Ticks!ghosts
<1>2. /\ previous' \in [Contexts -> Seq(BOOLEAN)]
      /\ \A d \in Contexts : d # c => previous'[d] = previous[d]
      /\ Len(previous[c]) \in Nat /\ Len(previous'[c]) = Len(previous[c]) + 1
      /\ previous'[c][Len(previous[c]) + 1] = primask
      /\ UNCHANGED <<primask, running>>
  BY <1>1, LockFacts, Zenon DEF TickInv, TickTypes
<1>3. /\ pc' \in [Contexts -> {"run", "locking", "read", "update", "leave"}] /\ pc'[c] = "locking"
      /\ \A d \in Contexts : d # c => pc'[d] = pc[d]
  BY <1>1, Zenon DEF TickInv, TickTypes
<1>4. (\A d \in Contexts : ~Reading(d)) /\ ~primask
  <2>1. ~Reading(c)
    BY <1>1, Zenon DEF Reading
  <2>2. \A d \in Contexts : d # c => ~Reading(d)
    BY <1>1, OneReader, Zenon DEF TickInv
  <2> QED
    BY <2>1, <2>2, Zenon DEF TickInv, ReadersExclusive
<1>5. TickTypes'
  BY <1>1, <1>2, <1>3, ZenonT(60) DEF TickInv, TickTypes, CoreOK
<1>6. Len(previous'[c]) = 1 /\ ~previous'[c][1]
  <2>1. Len(previous[c]) = 0
    BY <1>1, Zenon DEF TickInv, ReadersExclusive
  <2> QED
    BY <2>1, <1>2, <1>4, SMTT(60)
<1>7. \A d \in Contexts : ~Reading(d)'
  BY <1>3, <1>4, Zenon DEF Reading
<1>8. ReadersExclusive'
  BY <1>2, <1>3, <1>4, <1>6, <1>7, Zenon DEF TickInv, ReadersExclusive
<1>9. TotalBehind'
  BY <1>1, <1>3, Zenon DEF TickInv, TotalBehind
<1> QED
  BY <1>5, <1>8, <1>9, Zenon DEF TickInv

LEMMA TickLocked ==
  ASSUME TickInv, NEW c \in Contexts, Ticks!Locked(c)
  PROVE  TickInv'
<1>1. /\ Executing(c) /\ pc[c] = "locking" /\ primask' = TRUE
      /\ pc' = [pc EXCEPT ![c] = "read"]
      /\ UNCHANGED <<running, previous, total_, raw, time, readAt, lastRead>>
  BY TicksCore, Zenon DEF Ticks!Locked, Ticks!Goto, Ticks!ghosts, cpsid
<1>2. /\ pc' \in [Contexts -> {"run", "locking", "read", "update", "leave"}] /\ pc'[c] = "read"
      /\ \A d \in Contexts : d # c => pc'[d] = pc[d]
  BY <1>1, Zenon DEF TickInv, TickTypes
<1>3. TickTypes'
  BY <1>1, <1>2, Zenon DEF TickInv, TickTypes, CoreOK
<1>4. ReadersExclusive'
  BY <1>1, <1>2, ZenonT(60) DEF TickInv, ReadersExclusive, Reading, Executing
<1>5. TotalBehind'
  BY <1>1, <1>2, Zenon DEF TickInv, TotalBehind
<1> QED
  BY <1>3, <1>4, <1>5, Zenon DEF TickInv

LEMMA TickRead ==
  ASSUME TickInv, Period \in Nat \ {0}, MaxTime \in Nat, NEW c \in Contexts, Ticks!ReadRaw(c)
  PROVE  TickInv'
<1>1. /\ Executing(c) /\ pc[c] = "read" /\ pc' = [pc EXCEPT ![c] = "update"]
      /\ raw' = [raw EXCEPT ![c] = time % Period] /\ readAt' = [readAt EXCEPT ![c] = time]
      /\ lastRead' = time /\ UNCHANGED <<primask, running, previous, total_, time>>
  BY TicksCore, Zenon DEF Ticks!ReadRaw, Ticks!Read, Ticks!Goto, Ticks!core
<1>2. /\ pc' \in [Contexts -> {"run", "locking", "read", "update", "leave"}] /\ pc'[c] = "update"
      /\ \A d \in Contexts : d # c => pc'[d] = pc[d]
  BY <1>1, Zenon DEF TickInv, TickTypes
<1>3. time \in Nat /\ time % Period \in 0 .. Period - 1 /\ time \in 0 .. time
  <2>1. time \in Nat
    BY DEF TickInv, TickTypes
  <2> QED
    BY <2>1, DivMod, SMTT(60)
<1>4. raw' \in [Contexts -> 0 .. Period - 1] /\ raw'[c] = time % Period
      /\ readAt' \in [Contexts -> 0 .. time'] /\ readAt'[c] = time
  BY <1>1, <1>3, Zenon DEF TickInv, TickTypes
<1>5. TickTypes'
  BY <1>1, <1>2, <1>3, <1>4, Zenon DEF TickInv, TickTypes, CoreOK
<1>6. ReadersExclusive'
  BY <1>1, <1>2, ZenonT(60) DEF TickInv, ReadersExclusive, Reading, Executing
<1>7. total_ = lastRead /\ \A d \in Contexts : d # c => pc'[d] \notin {"update", "leave"}
  <2>1. \A d \in Contexts : d # c => pc[d] \notin {"update", "leave"} /\ pc[d] # "update"
    BY <1>1, OneReader, Zenon DEF TickInv, Reading
  <2> QED
    BY <2>1, <1>1, <1>2, Zenon DEF TickInv, TotalBehind
<1>8. total_' <= lastRead' /\ lastRead' - total_' < Period /\ time' - lastRead' < Period
  BY <1>1, <1>3, <1>7, SMTT(60) DEF TickInv, TickTypes, TotalBehind
<1>9. TotalBehind'
  BY <1>1, <1>2, <1>4, <1>7, <1>8, Zenon DEF TotalBehind
<1> QED
  BY <1>5, <1>6, <1>9, Zenon DEF TickInv

LEMMA TickUpdate ==
  ASSUME TickInv, Period \in Nat \ {0}, MaxTime \in Nat, NEW c \in Contexts, Ticks!Update(c)
  PROVE  TickInv'
<1>1. /\ Executing(c) /\ pc[c] = "update" /\ pc' = [pc EXCEPT ![c] = "leave"]
      /\ total_' = total_ + ((raw[c] - total_) % Period)
      /\ UNCHANGED <<primask, running, previous, raw, time, readAt, lastRead>>
  BY TicksCore, Zenon DEF Ticks!Update, Ticks!Goto, Ticks!core, Ticks!ghosts
<1>2. /\ pc' \in [Contexts -> {"run", "locking", "read", "update", "leave"}] /\ pc'[c] = "leave"
      /\ \A d \in Contexts : d # c => pc'[d] = pc[d]
  BY <1>1, Zenon DEF TickInv, TickTypes
<1>3. /\ total_ \in Nat /\ lastRead \in Nat /\ total_ <= lastRead /\ lastRead - total_ < Period
      /\ raw[c] = lastRead % Period /\ readAt[c] = lastRead
  BY <1>1, SMTT(60) DEF TickInv, TickTypes, TotalBehind
<1>4. total_' = lastRead
  BY <1>1, <1>3, Unwrap, Zenon
<1>5. TickTypes'
  BY <1>1, <1>2, <1>3, <1>4, Zenon DEF TickInv, TickTypes, CoreOK
<1>6. ReadersExclusive'
  BY <1>1, <1>2, Zenon DEF TickInv, ReadersExclusive, Reading, Executing
<1>7. \A d \in Contexts : d # c => pc'[d] \notin {"update", "leave"}
  BY <1>1, <1>2, OneReader, ZenonT(60) DEF TickInv, Reading
<1>8. TotalBehind'
  BY <1>1, <1>2, <1>3, <1>4, <1>7, SMTT(60) DEF TickInv, TotalBehind
<1> QED
  BY <1>5, <1>6, <1>8, Zenon DEF TickInv

\* The section is left, with the total or by an exception of read().
LEMMA TickLeaves ==
  ASSUME TickInv, Period \in Nat \ {0}, NEW c \in Contexts,
         Ticks!ReadThrows(c) \/ Ticks!Return(c)
  PROVE  TickInv'
<1>1. /\ Executing(c) /\ pc[c] \in {"read", "leave"} /\ pc' = [pc EXCEPT ![c] = "run"]
      /\ unlock(c) /\ UNCHANGED <<total_, time, lastRead>>
  BY TicksCore, Zenon DEF Ticks!ReadThrows, Ticks!Return, Ticks!Goto, Ticks!ghosts
<1>2. Len(previous[c]) = 1 /\ ~previous[c][1]
  BY <1>1, Zenon DEF TickInv, ReadersExclusive
<1>3. /\ previous' \in [Contexts -> Seq(BOOLEAN)]
      /\ \A d \in Contexts : d # c => previous'[d] = previous[d]
      /\ Len(previous'[c]) = Len(previous[c]) - 1
      /\ primask' = previous[c][Len(previous[c])] /\ primask' \in BOOLEAN
      /\ UNCHANGED running
  <2>1. Len(previous[c]) > 0
    BY <1>2, SMTT(60)
  <2> QED
    BY <1>1, <2>1, UnlockFacts, Zenon DEF TickInv, TickTypes
<1>4. ~primask' /\ Len(previous'[c]) = 0
  <2>1. primask' = previous[c][1]
    BY <1>2, <1>3, Zenon
  <2> QED
    BY <2>1, <1>2, <1>3
<1>5. /\ pc' \in [Contexts -> {"run", "locking", "read", "update", "leave"}] /\ pc'[c] = "run"
      /\ \A d \in Contexts : d # c => pc'[d] = pc[d]
  BY <1>1, Zenon DEF TickInv, TickTypes
<1>6. raw' \in [Contexts -> 0 .. Period - 1] /\ readAt' \in [Contexts -> 0 .. time']
  <2>1. CASE Ticks!ReadThrows(c)
    BY <2>1, <1>1, Zenon DEF Ticks!ReadThrows, Ticks!ghosts, TickInv, TickTypes
  <2>2. CASE Ticks!Return(c)
    <3>1. 0 \in 0 .. Period - 1 /\ 0 \in 0 .. time
      BY SMTT(60) DEF TickInv, TickTypes
    <3> QED
      BY <2>2, <3>1, <1>1, Zenon DEF Ticks!Return, TickInv, TickTypes
  <2> QED
    BY <2>1, <2>2, Zenon
<1>7. TickTypes'
  BY <1>1, <1>3, <1>5, <1>6, Zenon DEF TickInv, TickTypes, CoreOK
<1>8. \A d \in Contexts : ~Reading(d)' /\ pc'[d] \notin {"update", "leave"}
  BY <1>1, <1>5, OneReader, Zenon DEF TickInv, Reading
<1>9. ReadersExclusive'
  BY <1>3, <1>4, <1>5, <1>8, ZenonT(60) DEF TickInv, ReadersExclusive
<1>10. \A d \in Contexts : pc[d] # "update"
  BY <1>1, OneReader, Zenon DEF TickInv, Reading
<1>11. TotalBehind'
  BY <1>1, <1>8, <1>10, Zenon DEF TickInv, TotalBehind
<1> QED
  BY <1>7, <1>9, <1>11, Zenon DEF TickInv

LEMMA TickHandlers ==
  ASSUME TickInv, NEW c \in Contexts, Ticks!HandlerStarts(c) \/ Ticks!HandlerEnds(c)
  PROVE  TickInv'
<1>1. UNCHANGED <<primask, previous, total_, pc, raw, time, readAt, lastRead>>
  BY Zenon DEF Ticks!HandlerStarts, Ticks!HandlerEnds, Ticks!Interrupt, Ticks!ReturnFromInterrupt,
         Ticks!ghosts
<1>2. CoreOK' /\ \A d \in Contexts : ~Reading(d)
  <2>1. CASE Ticks!HandlerStarts(c)
    <3>1. Interrupt(c)
      BY <2>1, TicksCore, Zenon DEF Ticks!HandlerStarts
    <3>2. CoreOK' /\ ~primask
      BY <3>1, InterruptCore, Zenon DEF TickInv, TickTypes
    <3> QED
      BY <3>2, Zenon DEF TickInv, ReadersExclusive
  <2>2. CASE Ticks!HandlerEnds(c)
    <3>1. ReturnFromInterrupt(c) /\ pc[c] = "run"
      BY <2>2, TicksCore, Zenon DEF Ticks!HandlerEnds
    <3>2. CoreOK' /\ Executing(c)
      BY <3>1, ReturnCore, Zenon DEF TickInv, TickTypes
    <3>3. ~Reading(c)
      BY <3>1, Zenon DEF Reading
    <3> QED
      BY <3>2, <3>3, OneReader, Zenon DEF TickInv
  <2> QED
    BY <2>1, <2>2, Zenon
<1>3. TickTypes'
  BY <1>1, <1>2, Zenon DEF TickInv, TickTypes
<1>4. \A d \in Contexts : ~Reading(d)'
  BY <1>1, <1>2, Zenon DEF Reading
<1>5. ReadersExclusive'
  BY <1>1, <1>2, <1>4, Zenon DEF TickInv, ReadersExclusive
<1>6. TotalBehind'
  BY <1>1, Zenon DEF TickInv, TotalBehind
<1> QED
  BY <1>3, <1>5, <1>6, Zenon DEF TickInv

LEMMA TickStep ==
  ASSUME TickInv, Period \in Nat \ {0}, MaxTime \in Nat, [Ticks!Next]_(Ticks!vars)
  PROVE  TickInv'
<1>1. CASE UNCHANGED Ticks!vars
  BY <1>1, Zenon DEF Ticks!vars, Ticks!core, TickInv, TickTypes, CoreOK, ReadersExclusive, TotalBehind,
              Reading, Executing
<1>2. CASE Ticks!Tick
  BY <1>2, TickTick, Zenon
<1>3. ASSUME NEW c \in Contexts,
             \/ Ticks!now(c) \/ Ticks!Locked(c) \/ Ticks!ReadRaw(c) \/ Ticks!ReadThrows(c)
             \/ Ticks!Update(c) \/ Ticks!Return(c)
             \/ Ticks!HandlerStarts(c) \/ Ticks!HandlerEnds(c)
      PROVE  TickInv'
  BY <1>3, TickNow, TickLocked, TickRead, TickUpdate, TickLeaves, TickHandlers, ZenonT(60)
<1> QED
  BY <1>1, <1>2, <1>3, TicksCore, Zenon DEF Ticks!Next

(***************************************************************************)
(* tick_extender::now returns the unwrapped time of its own read, for a    *)
(* counter of any period whose reads are less than a period apart, and     *)
(* whichever handlers call now() meanwhile (tick_extender.hpp:11-22,       *)
(* 105-110).                                                               *)
(***************************************************************************)
THEOREM TicksSafe ==
  ASSUME Period \in Nat \ {0}, MaxTime \in Nat
  PROVE  Ticks!Spec => [](Ticks!TypeOK /\ Ticks!TickExact)
<1>1. TickInv => Ticks!TypeOK /\ Ticks!TickExact
  <2> SUFFICES ASSUME TickInv PROVE Ticks!TypeOK /\ Ticks!TickExact
    BY Zenon
  <2>1. Ticks!CoreTypeOK
    BY TicksCore DEF TickInv, TickTypes, CoreOK, Ticks!CoreTypeOK
  <2>2. previous \in [Contexts -> {<<>>} \cup {<<b>> : b \in BOOLEAN}]
    <3>1. ASSUME NEW c \in Contexts PROVE previous[c] \in {<<>>} \cup {<<b>> : b \in BOOLEAN}
      <4>1. PICK p \in Seq(BOOLEAN) : p = previous[c]
        BY Zenon DEF TickInv, TickTypes
      <4>2. Len(p) = 0 \/ Len(p) = 1
        BY <4>1, Zenon DEF TickInv, ReadersExclusive
      <4>3. CASE Len(p) = 0
        BY <4>1, <4>3, SeqFacts, ZenonT(60)
      <4>4. CASE Len(p) = 1
        <5>1. p = <<p[1]>> /\ p[1] \in BOOLEAN
          BY <4>4, SMTT(60)
        <5> QED
          BY <5>1, <4>1, Zenon
      <4> QED
        BY <4>2, <4>3, <4>4, Zenon
    <3> QED
      BY <3>1, Zenon DEF TickInv, TickTypes
  <2>3. Ticks!TypeOK
    BY <2>1, <2>2, TicksCore, Zenon DEF Ticks!TypeOK, TickInv, TickTypes
  <2>4. Ticks!TickExact
    <3> SUFFICES ASSUME NEW c \in Contexts, pc[c] = "leave" PROVE total_ = readAt[c]
      BY TicksCore, Zenon DEF Ticks!TickExact
    <3>1. Executing(c) /\ pc[c] # "update"
      BY Zenon DEF TickInv, ReadersExclusive, Reading
    <3>2. \A d \in Contexts : pc[d] # "update"
      BY <3>1, OneReader, Zenon DEF TickInv
    <3> QED
      BY <3>2, Zenon DEF TickInv, TotalBehind
  <2> QED
    BY <2>3, <2>4, Zenon
<1>2. Ticks!Init => TickInv
  BY TickInit, Zenon
<1>3. TickInv /\ [Ticks!Next]_(Ticks!vars) => TickInv'
  BY TickStep, Zenon
<1> QED
  BY <1>1, <1>2, <1>3, PTL DEF Ticks!Spec

-----------------------------------------------------------------------------
(***************************************************************************)
(* atomic_ref (AtomicRef): a word is the bytes of an object, and a padded  *)
(* type compares equal whatever its padding holds.                         *)
(***************************************************************************)
CONSTANTS Threads, Width
VARIABLES padded, ignores_padding, object, word_call, expected, exact, stored

Word == INSTANCE AtomicRef WITH call <- word_call

\* The bytes of an object: a value and its padding.
Bytes(w) == w = Word!Word(w.value, w.padding)

\* What a call of compare_exchange_strong keeps from attempt to attempt.
StrongCall(c) ==
  /\ DOMAIN c = {"at", "held", "wanted", "desired", "attempts"}
  /\ c.at = "idle" => c.attempts = 0
  /\ Bytes(c.wanted) /\ Bytes(c.desired)
  /\ c.held.value = c.wanted.value
  /\ ignores_padding => c.wanted.padding = 0
  /\ ~ignores_padding => c.held = c.wanted

\* The inductive invariant: a retry after a failure that only the padding
\* explains holds the object as it is, unless someone stored since.
ExchangeInv ==
  /\ exact = TRUE /\ Bytes(object)
  /\ expected = [t \in Threads |-> expected[t]]
  /\ \A t \in Threads : Bytes(expected[t])
  /\ stored \in [Threads -> BOOLEAN]
  /\ word_call = [t \in Threads |-> word_call[t]]
  /\ \A t \in Threads :
       /\ StrongCall(word_call[t])
       /\ word_call[t].attempts = 1 /\ ~stored[t] => object = word_call[t].held

\* clear_padding keeps the value, and zeroes the padding where it is ignored.
LEMMA ClearedWord ==
  ASSUME NEW w, Bytes(w)
  PROVE  /\ Bytes(Word!clear_padding(w)) /\ Word!clear_padding(w).value = w.value
         /\ ignores_padding => Word!clear_padding(w).padding = 0
         /\ ~ignores_padding => Word!clear_padding(w) = w
BY SMTT(60) DEF Bytes, Word!clear_padding, Word!Word

\* The arguments of a call are words.
LEMMA ArgumentBytes ==
  ASSUME NEW w \in Word!Arguments
  PROVE  Bytes(w)
BY SMTT(60) DEF Word!Arguments, Word!Words, Bytes, Word!Word

\* A call that has returned has made no attempt.
LEMMA IdleCall == StrongCall(Word!None)' /\ Word!None.attempts = 0
BY DEF StrongCall, Word!None, Bytes, Word!Word

\* A thread's access leaves the other threads' calls as they are.
LEMMA AccessKeeps ==
  ASSUME ExchangeInv, UNCHANGED ignores_padding,
         NEW t \in Threads, NEW c, NEW e, StrongCall(c)', Bytes(e),
         exact' = TRUE, Bytes(object'),
         word_call' = [word_call EXCEPT ![t] = c], expected' = [expected EXCEPT ![t] = e],
         stored' \in [Threads -> BOOLEAN],
         c.attempts = 1 /\ ~stored'[t] => object' = c.held,
         \A u \in Threads \ {t} : ~stored'[u] => ~stored[u] /\ object' = object
  PROVE  ExchangeInv'
<1>1. /\ word_call' = [u \in Threads |-> word_call'[u]]
      /\ \A u \in Threads : word_call'[u] = IF u = t THEN c ELSE word_call[u]
  BY SMTT(60) DEF ExchangeInv
<1>2. /\ expected' = [u \in Threads |-> expected'[u]]
      /\ \A u \in Threads : expected'[u] = IF u = t THEN e ELSE expected[u]
  BY DEF ExchangeInv
<1>3. ASSUME NEW u \in Threads
      PROVE  /\ StrongCall(word_call[u])' /\ Bytes(expected'[u])
             /\ word_call'[u].attempts = 1 /\ ~stored'[u] => object' = word_call'[u].held
  <2>1. CASE u = t
    BY <1>1, <1>2, <2>1, ZenonT(60) DEF StrongCall
  <2>2. CASE u # t
    <3>1. word_call'[u] = word_call[u] /\ expected'[u] = expected[u]
      BY <1>1, <1>2, <2>2, ZenonT(60)
    <3>2. /\ StrongCall(word_call[u]) /\ Bytes(expected[u])
          /\ word_call[u].attempts = 1 /\ ~stored[u] => object = word_call[u].held
      BY ZenonT(60) DEF ExchangeInv
    <3>3. StrongCall(word_call[u])'
      BY <3>1, <3>2, ZenonT(60) DEF StrongCall
    <3> QED
      BY <2>2, <3>1, <3>2, <3>3, ZenonT(60)
  <2> QED
    BY <2>1, <2>2, ZenonT(60)
<1> QED
  BY <1>1, <1>2, <1>3, ZenonT(60) DEF ExchangeInv

\* An access that stores shows in every other thread's flag.
LEMMA StoresSeen ==
  ASSUME ExchangeInv, NEW t \in Threads, NEW w, Word!Stores(t, w)
  PROVE  /\ stored' \in [Threads -> BOOLEAN] /\ object' = w
         /\ stored'[t] <=> stored[t]
         /\ \A u \in Threads \ {t} : stored'[u]
BY Zenon DEF ExchangeInv, Word!Stores

\* An attempt of compare_exchange_strong: it swaps, retries or reports.
LEMMA StrongAttemptKeeps ==
  ASSUME ExchangeInv, NEW t \in Threads, Word!strong_attempt(t)
  PROVE  ExchangeInv'
<1> DEFINE c == word_call[t]
<1>1. /\ StrongCall(c) /\ c.at = "strong" /\ Bytes(object) /\ Bytes(expected[t])
      /\ word_call = [u \in Threads |-> word_call[u]]
      /\ expected = [u \in Threads |-> expected[u]]
      /\ stored \in [Threads -> BOOLEAN] /\ exact = TRUE
      /\ c.attempts = 1 /\ ~stored[t] => object = c.held
  BY Zenon DEF ExchangeInv, Word!strong_attempt
<1>2. UNCHANGED ignores_padding
  BY Zenon DEF Word!strong_attempt
<1>3. CASE object = c.held
  <2>1. /\ Word!Stores(t, c.desired) /\ UNCHANGED expected
        /\ word_call' = [word_call EXCEPT ![t] = Word!None]
        /\ exact' = (exact /\ object.value = c.wanted.value)
    BY <1>3, Zenon DEF Word!strong_attempt, Word!Return
  <2>2. exact' = TRUE
    BY <1>1, <1>3, <2>1, ZenonT(60) DEF StrongCall
  <2>3. expected' = [expected EXCEPT ![t] = expected[t]]
    BY <1>1, <2>1, SMTT(60)
  <2>4. Bytes(c.desired) /\ Word!None.attempts # 1
    BY <1>1, IdleCall, SMTT(60) DEF StrongCall
  <2>5. /\ stored' \in [Threads -> BOOLEAN] /\ object' = c.desired
        /\ \A u \in Threads \ {t} : stored'[u]
    BY <2>1, StoresSeen, Zenon
  <2> HIDE DEF c
  <2> QED
    BY <1>1, <1>2, <2>1, <2>2, <2>3, <2>4, <2>5, IdleCall, AccessKeeps, ZenonT(60)
<1>4. CASE object # c.held /\ Word!Different(object, c.wanted)
  <2>1. /\ object' = object /\ stored' = [stored EXCEPT ![t] = FALSE]
        /\ word_call' = [word_call EXCEPT ![t] = Word!None]
        /\ expected' = [expected EXCEPT ![t] = object]
        /\ exact' = (exact /\ IF ignores_padding THEN ~(object.value = c.wanted.value)
                              ELSE ~(object = c.held))
    BY <1>4, SMTT(60) DEF Word!strong_attempt, Word!Return
  <2>2. ignores_padding => object.value # c.wanted.value
    BY <1>1, <1>4, SMTT(60) DEF StrongCall, Word!Different, Bytes, Word!Word, Word!clear_padding
  <2>3. exact' = TRUE
    BY <1>1, <1>4, <2>1, <2>2, ZenonT(60)
  <2>4. /\ stored' \in [Threads -> BOOLEAN] /\ Word!None.attempts # 1
        /\ \A u \in Threads \ {t} : stored'[u] <=> stored[u]
    BY <1>1, <2>1, IdleCall, SMTT(60)
  <2> HIDE DEF c
  <2> QED
    BY <1>1, <1>2, <2>1, <2>3, <2>4, IdleCall, AccessKeeps, ZenonT(60)
<1>5. CASE object # c.held /\ ~Word!Different(object, c.wanted)
  <2>0. PICK d : d = [c EXCEPT !.held = object, !.attempts = 1]
    BY Zenon
  <2>1. /\ object' = object /\ stored' = [stored EXCEPT ![t] = FALSE]
        /\ word_call' = [word_call EXCEPT ![t].held = object, ![t].attempts = 1]
        /\ UNCHANGED expected
        /\ exact' = (exact /\ (c.attempts = 1 => stored[t]))
    BY <1>5, SMTT(60) DEF Word!strong_attempt
  <2>2. exact' = TRUE
    BY <1>1, <1>5, <2>1, ZenonT(60)
  <2>3. object.value = c.wanted.value /\ (~ignores_padding => object = c.wanted)
    <3>1. Word!clear_padding(object) = c.wanted
      BY <1>5, Zenon DEF Word!Different
    <3> QED
      BY <1>1, <3>1, ClearedWord, SMTT(60)
  <2>4. word_call' = [word_call EXCEPT ![t] = d]
    BY <2>0, <2>1, Zenon
  <2>5. StrongCall(d)' /\ d.held = object
    <3>1. /\ DOMAIN d = {"at", "held", "wanted", "desired", "attempts"}
          /\ d.at = "strong" /\ d.held = object /\ d.wanted = c.wanted /\ d.desired = c.desired
      BY <1>1, <2>0, SMTT(60) DEF StrongCall
    <3>2. Bytes(c.wanted) /\ Bytes(c.desired) /\ (ignores_padding => c.wanted.padding = 0)
      BY <1>1, ZenonT(60) DEF StrongCall
    <3> HIDE DEF c
    <3> QED
      BY <1>2, <2>3, <3>1, <3>2, ZenonT(60) DEF StrongCall
  <2>6. expected' = [expected EXCEPT ![t] = expected[t]]
    BY <1>1, <2>1, SMTT(60)
  <2>7. /\ stored' \in [Threads -> BOOLEAN]
        /\ \A u \in Threads \ {t} : ~stored'[u] => ~stored[u]
    BY <1>1, <2>1, SMTT(60)
  <2>8. object' = object /\ object' = d.held /\ Bytes(object') /\ Bytes(expected[t])
    BY <1>1, <2>1, <2>5, ZenonT(60)
  <2> HIDE DEF c
  <2> QED
    BY <1>2, <2>2, <2>4, <2>5, <2>6, <2>7, <2>8, AccessKeeps, ZenonT(60)
<1> QED
  BY <1>3, <1>4, <1>5, ZenonT(60)

\* compare_exchange_strong clears the padding of its arguments first.
LEMMA StrongStarts ==
  ASSUME ExchangeInv, NEW t \in Threads, NEW w \in Word!Arguments,
         Word!compare_exchange_strong(t, w)
  PROVE  ExchangeInv'
<1> DEFINE held == Word!clear_padding(expected[t])
<1>0. PICK c : c = [at |-> "strong", held |-> held, wanted |-> held,
                    desired |-> Word!clear_padding(w), attempts |-> 0]
  BY Zenon
<1>1. /\ word_call' = [word_call EXCEPT ![t] = c]
      /\ stored' = [stored EXCEPT ![t] = FALSE]
      /\ UNCHANGED <<ignores_padding, object, expected, exact>>
  BY <1>0, Zenon DEF Word!compare_exchange_strong
<1>2. /\ Bytes(object) /\ Bytes(expected[t]) /\ exact = TRUE
      /\ expected = [u \in Threads |-> expected[u]] /\ stored \in [Threads -> BOOLEAN]
  BY Zenon DEF ExchangeInv
<1>3. /\ Bytes(held) /\ Bytes(Word!clear_padding(w))
      /\ ignores_padding => held.padding = 0
  BY <1>2, ArgumentBytes, ClearedWord, ZenonT(60)
<1> HIDE DEF held
<1>4. StrongCall(c)' /\ c.attempts # 1
  <2>1. /\ DOMAIN c = {"at", "held", "wanted", "desired", "attempts"}
        /\ c.at = "strong" /\ c.held = held /\ c.wanted = held /\ c.attempts = 0
        /\ c.desired = Word!clear_padding(w)
    BY <1>0, SMTT(60)
  <2> QED
    BY <1>1, <1>3, <2>1, SMTT(60) DEF StrongCall
<1>5. expected' = [expected EXCEPT ![t] = expected[t]]
  BY <1>1, <1>2, SMTT(60)
<1>6. /\ stored' \in [Threads -> BOOLEAN]
      /\ \A u \in Threads \ {t} : ~stored'[u] => ~stored[u]
  BY <1>1, <1>2, SMTT(60)
<1> QED
  BY <1>1, <1>2, <1>4, <1>5, <1>6, AccessKeeps, ZenonT(60)

\* The calls that make one access.
LEMMA OneAccess ==
  ASSUME ExchangeInv, UNCHANGED <<ignores_padding, word_call, exact>>,
         NEW t \in Threads, NEW e, Bytes(e), expected' = [expected EXCEPT ![t] = e],
         word_call[t].at = "idle",
         \/ UNCHANGED <<object, stored>>
         \/ \E w : Bytes(w) /\ Word!Stores(t, w)
  PROVE  ExchangeInv'
<1>1. /\ StrongCall(word_call[t]) /\ Bytes(object) /\ exact = TRUE
      /\ word_call = [u \in Threads |-> word_call[u]] /\ stored \in [Threads -> BOOLEAN]
  BY Zenon DEF ExchangeInv
<1>2. word_call' = [word_call EXCEPT ![t] = word_call[t]]
  BY <1>1, SMTT(60)
<1>3. StrongCall(word_call[t])' /\ word_call[t].attempts # 1
  BY <1>1, SMTT(60) DEF StrongCall
<1>4. /\ Bytes(object') /\ stored' \in [Threads -> BOOLEAN]
      /\ \A u \in Threads \ {t} : ~stored'[u] => ~stored[u] /\ object' = object
  <2>1. CASE UNCHANGED <<object, stored>>
    BY <1>1, <2>1, SMTT(60)
  <2>2. CASE \E w : Bytes(w) /\ Word!Stores(t, w)
    BY <2>2, StoresSeen, ZenonT(60)
  <2> QED
    BY <2>1, <2>2, ZenonT(60)
<1> QED
  BY <1>1, <1>2, <1>3, <1>4, AccessKeeps, ZenonT(60)

\* Words of no padding.
LEMMA FetchedBytes == \A v, p : Bytes(Word!Word(v, p))
BY DEF Bytes, Word!Word

\* Every other operation makes one access.
LEMMA AccessesKeep ==
  ASSUME ExchangeInv, NEW t \in Threads,
         \/ Word!load(t)
         \/ \E w \in Word!Arguments :
              \/ Word!store(t, w) \/ Word!exchange(t, w) \/ Word!Expect(t, w)
              \/ \E spurious \in BOOLEAN : Word!compare_exchange_weak(t, w, spurious)
         \/ \E arg \in Word!Values, op \in {"add", "sub", "and", "or", "xor"} :
              Word!fetch(t, op, arg)
  PROVE  ExchangeInv'
<1>1. /\ Bytes(object) /\ Bytes(expected[t])
      /\ expected = [u \in Threads |-> expected[u]]
  BY Zenon DEF ExchangeInv
<1>2. expected' = expected => expected' = [expected EXCEPT ![t] = expected[t]]
  BY <1>1, SMTT(60)
<1>3. \A w \in Word!Arguments : Bytes(w) /\ Bytes(Word!clear_padding(w))
  BY ArgumentBytes, ClearedWord, ZenonT(60)
<1>4. CASE Word!load(t)
  BY <1>1, <1>4, OneAccess, ZenonT(60) DEF Word!load
<1>5. ASSUME NEW w \in Word!Arguments, Word!store(t, w)
      PROVE  ExchangeInv'
  BY <1>1, <1>2, <1>3, <1>5, OneAccess, ZenonT(60) DEF Word!store
<1>6. ASSUME NEW w \in Word!Arguments, Word!exchange(t, w)
      PROVE  ExchangeInv'
  BY <1>1, <1>3, <1>6, OneAccess, ZenonT(60) DEF Word!exchange
<1>7. ASSUME NEW w \in Word!Arguments, Word!Expect(t, w)
      PROVE  ExchangeInv'
  BY <1>3, <1>7, OneAccess, ZenonT(60) DEF Word!Expect
<1>8. ASSUME NEW w \in Word!Arguments, NEW spurious, Word!compare_exchange_weak(t, w, spurious)
      PROVE  ExchangeInv'
  <2>1. word_call[t].at = "idle" /\ UNCHANGED <<ignores_padding, word_call, exact>>
    BY <1>8, ZenonT(60) DEF Word!compare_exchange_weak
  <2>2. \/ Word!Stores(t, Word!clear_padding(w)) /\ expected' = expected
        \/ UNCHANGED <<object, stored>> /\ expected' = [expected EXCEPT ![t] = object]
    BY <1>8, Zenon DEF Word!compare_exchange_weak
  <2>3. CASE Word!Stores(t, Word!clear_padding(w)) /\ expected' = expected
    BY <1>1, <1>2, <1>3, <2>1, <2>3, OneAccess, ZenonT(60)
  <2>4. CASE UNCHANGED <<object, stored>> /\ expected' = [expected EXCEPT ![t] = object]
    BY <1>1, <2>1, <2>4, OneAccess, ZenonT(60)
  <2> QED
    BY <2>2, <2>3, <2>4, ZenonT(60)
<1>9. ASSUME NEW arg, NEW op, Word!fetch(t, op, arg)
      PROVE  ExchangeInv'
  BY <1>1, <1>9, FetchedBytes, OneAccess, ZenonT(60) DEF Word!fetch
<1> QED
  BY <1>4, <1>5, <1>6, <1>7, <1>8, <1>9, ZenonT(60)

(***************************************************************************)
(* For every set of threads and every width, a strong compare-exchange     *)
(* through atomic_ref succeeds exactly when the value bits are the         *)
(* expected ones, whatever the padding holds and whatever other threads do *)
(* between its attempts; one that fails found others; and it goes round    *)
(* again only once for the padding, or after another thread stored         *)
(* (atomic_ref.hpp:350-359, 378-379).                                      *)
(***************************************************************************)
THEOREM ExchangesSafe == Word!Spec => []Word!ExchangeExact
<1>1. Word!Init => ExchangeInv
  <2> SUFFICES ASSUME Word!Init PROVE ExchangeInv
    OBVIOUS
  <2>1. /\ object \in Word!Words /\ exact = TRUE
        /\ word_call = [t \in Threads |-> Word!None]
        /\ expected = [t \in Threads |-> Word!Word(0, 0)]
        /\ stored = [t \in Threads |-> FALSE]
    BY ZenonT(60) DEF Word!Init
  <2>2. StrongCall(Word!None) /\ Word!None.attempts # 1
    BY SMTT(60) DEF StrongCall, Word!None, Bytes, Word!Word
  <2>3. Bytes(object) /\ Bytes(Word!Word(0, 0))
    BY <2>1, SMTT(60) DEF Bytes, Word!Words, Word!Word
  <2> QED
    BY <2>1, <2>2, <2>3, ZenonT(60) DEF ExchangeInv
<1>2. ExchangeInv /\ [Word!Next]_(Word!vars) => ExchangeInv'
  <2>1. ASSUME ExchangeInv, UNCHANGED Word!vars
        PROVE  ExchangeInv'
    BY <2>1, ZenonT(60) DEF ExchangeInv, StrongCall, Word!vars
  <2> QED
    BY <2>1, StrongAttemptKeeps, StrongStarts, AccessesKeep, ZenonT(60) DEF Word!Next
<1>3. ExchangeInv => Word!ExchangeExact
  BY DEF ExchangeInv, Word!ExchangeExact
<1> QED
  BY <1>1, <1>2, <1>3, PTL DEF Word!Spec

==============================================================================
