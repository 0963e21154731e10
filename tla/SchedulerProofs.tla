--------------------------- MODULE SchedulerProofs ---------------------------
(***************************************************************************)
(* Proofs about Scheduler, for every capacity, set of tasks and depth of   *)
(* nested rounds.  TypeOK /\ SnapshotExact is inductive: a number handed   *)
(* out is used by no entry and by no snapshot, so it cannot revive a copy  *)
(* whose attachment has ended, and an entry that leaves takes the only     *)
(* occurrence of its number with it.                                       *)
(***************************************************************************)
EXTENDS Scheduler, TLAPS

\* The constants as the provers need them.
LEMMA SchedulerConstants ==
  /\ Capacity \in Nat /\ MaxRounds \in Nat
  /\ attachment_numbers \in Nat /\ attachment_numbers > 0
BY SchedulerAssumption DEF attachment_numbers

\* The numbers tried are numbers.
LEMMA CandidateInRange ==
  ASSUME next_attachment_ \in Numbers, NEW k \in Nat
  PROVE  Candidate(k) \in Numbers
<1>1. \A m \in Nat, a \in Int : m > 0 => a % m \in 0 .. m - 1
  BY SMT
<1>2. next_attachment_ + k \in Int
  BY SchedulerConstants DEF Numbers
<1> QED
  BY <1>1, <1>2, SchedulerConstants, Zenon DEF Candidate, Numbers

\* A sequence is a function on its indices.
LEMMA SeqFacts ==
  ASSUME NEW S, NEW s \in Seq(S)
  PROVE  Len(s) \in Nat /\ s \in [1 .. Len(s) -> S] /\ DOMAIN s = 1 .. Len(s)
OBVIOUS

\* What appending an element to a vector gives.
LEMMA Appended ==
  ASSUME NEW S, NEW s \in Seq(S), NEW x \in S
  PROVE  Append(s, x) \in Seq(S) /\ Len(Append(s, x)) = Len(s) + 1
OBVIOUS

\* What joining two vectors gives.
LEMMA Joined ==
  ASSUME NEW S, NEW a \in Seq(S), NEW b \in Seq(S)
  PROVE  /\ a \o b \in Seq(S) /\ Len(a \o b) = Len(a) + Len(b)
         /\ \A k \in 1 .. Len(a) + Len(b) :
              (a \o b)[k] = IF k <= Len(a) THEN a[k] ELSE b[k - Len(a)]
OBVIOUS

\* What erasing an entry of a vector leaves.
LEMMA WithoutFacts ==
  ASSUME NEW S, NEW s \in Seq(S), NEW i \in 1 .. Len(s)
  PROVE  /\ Without(s, i) \in Seq(S)
         /\ Len(Without(s, i)) = Len(s) - 1 /\ Len(s) \in Nat
         /\ \A k \in 1 .. Len(s) - 1 : Without(s, i)[k] = IF k < i THEN s[k] ELSE s[k + 1]
<1> DEFINE a == SubSeq(s, 1, i - 1)
           b == SubSeq(s, i + 1, Len(s))
<1>1. Len(s) \in Nat /\ i \in Int /\ 1 <= i /\ i <= Len(s) /\ \A k \in 1 .. Len(s) : s[k] \in S
  OBVIOUS
<1>2. /\ a \in Seq(S) /\ Len(a) = i - 1
      /\ \A k \in 1 .. i - 1 : a[k] = s[k]
  <2>1. CASE i = 1
    BY <1>1, <2>1
  <2>2. CASE i > 1
    BY <1>1, <2>2
  <2> QED
    BY <1>1, <2>1, <2>2
<1>3. /\ b \in Seq(S) /\ Len(b) = Len(s) - i
      /\ \A k \in 1 .. Len(s) - i : b[k] = s[i + k]
  <2>1. CASE i = Len(s)
    BY <1>1, <2>1
  <2>2. CASE i < Len(s)
    BY <1>1, <2>2
  <2> QED
    BY <1>1, <2>1, <2>2
<1>4. Without(s, i) = a \o b
  BY Zenon DEF Without
<1> HIDE DEF a, b
<1>5. /\ a \o b \in Seq(S) /\ Len(a \o b) = Len(a) + Len(b)
      /\ \A k \in 1 .. Len(a) + Len(b) : (a \o b)[k] = IF k <= Len(a) THEN a[k] ELSE b[k - Len(a)]
  BY <1>2, <1>3, Joined, ZenonT(60)
<1>6. Len(a) + Len(b) = Len(s) - 1
  BY <1>1, <1>2, <1>3
<1>7. ASSUME NEW k \in 1 .. Len(s) - 1
      PROVE  Without(s, i)[k] = IF k < i THEN s[k] ELSE s[k + 1]
  <2>1. CASE k < i
    BY <1>1, <1>2, <1>4, <1>5, <1>6, <2>1, SMTT(60)
  <2>2. CASE k >= i
    <3>1. k - (i - 1) \in 1 .. Len(s) - i /\ i + (k - (i - 1)) = k + 1
      BY <1>1, <2>2
    <3>2. b[k - (i - 1)] = s[k + 1]
      BY <1>3, <3>1, Zenon
    <3> QED
      BY <1>1, <1>2, <1>4, <1>5, <1>6, <2>2, <3>2, SMTT(60)
  <2> QED
    BY <1>1, <2>1, <2>2
<1> QED
  BY <1>1, <1>4, <1>5, <1>6, <1>7, Zenon

\* The element k it leaves was element Source(i, k).
Source(i, k) == IF k < i THEN k ELSE k + 1

LEMMA SourceFacts ==
  ASSUME NEW n \in Nat, NEW i \in 1 .. n, NEW j \in 1 .. n - 1, NEW k \in 1 .. n - 1
  PROVE  Source(i, j) \in 1 .. n /\ (j # k => Source(i, j) # Source(i, k))
BY DEF Source

\* A function on an initial segment is a sequence of that length.
LEMMA FunctionIsSeq ==
  ASSUME NEW S, NEW n \in Nat, NEW s \in [1 .. n -> S]
  PROVE  s \in Seq(S) /\ Len(s) = n
OBVIOUS

\* Marking copies as ended changes nothing but gone.
LEMMA EndedFacts ==
  ASSUME NEW s \in Seq(Frames), NEW n
  PROVE  /\ Ended(s, n) \in Seq(Frames) /\ Len(Ended(s, n)) = Len(s) /\ Len(s) \in Nat
         /\ \A f \in 1 .. Len(s) :
              /\ Ended(s, n)[f].polling = s[f].polling
              /\ Ended(s, n)[f].i = s[f].i /\ Ended(s, n)[f].kind = s[f].kind
              /\ Len(Ended(s, n)[f].entries) = Len(s[f].entries)
              /\ \A k \in 1 .. Len(s[f].entries) :
                   /\ Ended(s, n)[f].entries[k].attachment = s[f].entries[k].attachment
                   /\ Ended(s, n)[f].entries[k].gone
                        <=> s[f].entries[k].gone \/ s[f].entries[k].attachment = n
<1> DEFINE mark(e) == IF e.attachment = n THEN [e EXCEPT !.gone = TRUE] ELSE e
           marked(es) == [k \in DOMAIN es |-> mark(es[k])]
           ended(f) == [s[f] EXCEPT !.entries = marked(@)]
<1>1. \A e \in Copies : /\ mark(e) \in Copies /\ mark(e).attachment = e.attachment
                        /\ mark(e).gone <=> e.gone \/ e.attachment = n
  BY Zenon DEF Copies
<1>2. \A es \in Seq(Copies) :
        /\ marked(es) \in Seq(Copies) /\ Len(marked(es)) = Len(es)
        /\ \A k \in 1 .. Len(es) : marked(es)[k] = mark(es[k])
  <2> HIDE DEF mark
  <2> QED
    BY <1>1, SMTT(60)
<1>3. \A f \in 1 .. Len(s) : s[f] \in Frames /\ s[f].entries \in Seq(Copies)
  <2>1. \A f \in 1 .. Len(s) : s[f] \in Frames
    BY SeqFacts, Zenon
  <2> QED
    BY <2>1, Zenon DEF Frames
<1>4. Ended(s, n) = [f \in DOMAIN s |-> ended(f)]
  BY Zenon DEF Ended
<1>5. \A f \in 1 .. Len(s) :
        /\ ended(f) \in Frames /\ ended(f).entries = marked(s[f].entries)
        /\ ended(f).polling = s[f].polling /\ ended(f).i = s[f].i /\ ended(f).kind = s[f].kind
  <2> HIDE DEF marked
  <2> QED
    BY <1>2, <1>3, ZenonT(60) DEF Frames
<1>6. Ended(s, n) \in Seq(Frames) /\ Len(Ended(s, n)) = Len(s)
      /\ \A f \in 1 .. Len(s) : Ended(s, n)[f] = ended(f)
  <2>1. DOMAIN s = 1 .. Len(s) /\ Len(s) \in Nat
    BY SeqFacts, Zenon
  <2> HIDE DEF ended
  <2>2. Ended(s, n) \in [1 .. Len(s) -> Frames] /\ \A f \in 1 .. Len(s) : Ended(s, n)[f] = ended(f)
    BY <1>4, <1>5, <2>1, ZenonT(60)
  <2> QED
    BY <2>1, <2>2, FunctionIsSeq, Zenon
<1>7. \A f \in 1 .. Len(s) : \A k \in 1 .. Len(s[f].entries) : s[f].entries[k] \in Copies
  BY <1>3
<1> HIDE DEF mark, marked, ended
<1> QED
  BY <1>1, <1>2, <1>3, <1>5, <1>6, <1>7, SMTT(60)

-----------------------------------------------------------------------------
\* The frames after a push, a pop and a change of the innermost one.
LEMMA PushFacts ==
  ASSUME NEW s \in Seq(Frames), NEW f \in Frames
  PROVE  /\ Append(s, f) \in Seq(Frames)
         /\ Len(Append(s, f)) = Len(s) + 1 /\ Len(s) \in Nat
         /\ \A k \in 1 .. Len(s) : Append(s, f)[k] = s[k]
         /\ Append(s, f)[Len(s) + 1] = f
OBVIOUS

\* A stack without its innermost frame, and with another one in its place.
LEMMA PopFacts ==
  ASSUME NEW S, NEW s \in Seq(S), s # <<>>
  PROVE  /\ Len(s) \in Nat /\ Len(s) > 0 /\ s[Len(s)] \in S
         /\ SubSeq(s, 1, Len(s) - 1) \in Seq(S)
         /\ Len(SubSeq(s, 1, Len(s) - 1)) = Len(s) - 1
         /\ \A k \in 1 .. Len(s) - 1 : SubSeq(s, 1, Len(s) - 1)[k] = s[k]
<1> DEFINE b == SubSeq(s, 1, Len(s) - 1)
<1>1. Len(s) \in Nat /\ Len(s) > 0 /\ s[Len(s)] \in S
  OBVIOUS
<1>2. b \in Seq(S) /\ \A k \in 1 .. Len(s) - 1 : b[k] = s[k]
  BY <1>1
<1>3. Len(b) = Len(s) - 1
  <2>1. CASE Len(s) = 1
    BY <2>1
  <2>2. CASE Len(s) > 1
    BY <2>2
  <2> QED
    BY <1>1, <2>1, <2>2, SMTT(60)
<1> QED
  BY <1>1, <1>2, <1>3, Zenon

Swap(s, x) == Append(SubSeq(s, 1, Len(s) - 1), x)

LEMMA SwapFacts ==
  ASSUME NEW S, NEW s \in Seq(S), NEW x \in S, s # <<>>
  PROVE  /\ Swap(s, x) \in Seq(S) /\ Len(Swap(s, x)) = Len(s)
         /\ \A k \in 1 .. Len(s) : Swap(s, x)[k] = IF k < Len(s) THEN s[k] ELSE x
<1>1. PICK b \in Seq(S) : b = SubSeq(s, 1, Len(s) - 1)
  BY PopFacts, Zenon
<1>2. /\ Swap(s, x) = Append(b, x) /\ Len(s) \in Nat /\ Len(s) > 0 /\ Len(b) = Len(s) - 1
      /\ \A k \in 1 .. Len(s) - 1 : b[k] = s[k]
  BY <1>1, PopFacts, Zenon DEF Swap
<1>3. /\ Swap(s, x) \in Seq(S) /\ Len(Swap(s, x)) = Len(b) + 1
      /\ \A k \in 1 .. Len(b) : Swap(s, x)[k] = b[k]
      /\ Swap(s, x)[Len(b) + 1] = x
  BY <1>2
<1>4. Len(Swap(s, x)) = Len(s)
  BY <1>2, <1>3
<1>5. \A k \in 1 .. Len(s) : k < Len(s) => Swap(s, x)[k] = s[k]
  BY <1>2, <1>3
<1>6. \A k \in 1 .. Len(s) : ~(k < Len(s)) => Swap(s, x)[k] = x
  BY <1>2, <1>3
<1> QED
  BY <1>3, <1>4, <1>5, <1>6, Zenon

LEMMA BelowFacts ==
  ASSUME stack \in Seq(Frames), stack # <<>>
  PROVE  /\ Len(stack) \in Nat /\ Len(stack) > 0
         /\ Top = stack[Len(stack)] /\ Top \in Frames
         /\ Below \in Seq(Frames) /\ Len(Below) = Len(stack) - 1
         /\ \A k \in 1 .. Len(stack) - 1 : Below[k] = stack[k]
<1>1. /\ Len(stack) \in Nat /\ Len(stack) > 0 /\ stack[Len(stack)] \in Frames
      /\ SubSeq(stack, 1, Len(stack) - 1) \in Seq(Frames)
      /\ Len(SubSeq(stack, 1, Len(stack) - 1)) = Len(stack) - 1
  BY PopFacts, Zenon
<1>2. \A k \in 1 .. Len(stack) - 1 : SubSeq(stack, 1, Len(stack) - 1)[k] = stack[k]
  BY PopFacts, Zenon
<1> QED
  BY <1>1, <1>2, Zenon DEF Top, Below

LEMMA ReplaceTopFacts ==
  ASSUME stack \in Seq(Frames), stack # <<>>, NEW frame \in Frames
  PROVE  /\ ReplaceTop(frame) \in Seq(Frames)
         /\ Len(ReplaceTop(frame)) = Len(stack)
         /\ \A k \in 1 .. Len(stack) : ReplaceTop(frame)[k] = IF k < Len(stack) THEN stack[k] ELSE frame
<1>1. ReplaceTop(frame) = Swap(stack, frame)
  BY Zenon DEF ReplaceTop, Below, Swap
<1>2. /\ Swap(stack, frame) \in Seq(Frames) /\ Len(Swap(stack, frame)) = Len(stack)
      /\ \A k \in 1 .. Len(stack) : Swap(stack, frame)[k] = IF k < Len(stack) THEN stack[k] ELSE frame
  BY SwapFacts
<1> QED
  BY <1>1, <1>2, Zenon

\* The frames run_once and run_until_idle make are frames.
LEMMA BetweenPolls ==
  ASSUME NEW es \in Seq(Copies), NEW i \in Nat, i >= 1, Len(es) <= Capacity
  PROVE  /\ Round(es, i, FALSE) \in Frames /\ Round(es, i, FALSE).entries = es
         /\ FrameOK(Round(es, i, FALSE))
BY Zenon DEF Round, Frames, FrameOK

LEMMA InPoll ==
  ASSUME NEW es \in Seq(Copies), NEW i \in Nat, i >= 1, i <= Len(es), Len(es) <= Capacity
  PROVE  /\ Round(es, i, TRUE) \in Frames /\ Round(es, i, TRUE).entries = es
         /\ FrameOK(Round(es, i, TRUE))
BY DEF Round, Frames, FrameOK

LEMMA LoopFrame ==
  ASSUME NEW n \in Nat
  PROVE  Loop(n) \in Frames /\ Loop(n).entries = <<>> /\ FrameOK(Loop(n))
BY SchedulerConstants DEF Loop, Frames, FrameOK

LEMMA SnapshotFacts ==
  ASSUME tasks_ \in Seq(Entries)
  PROVE  /\ Snapshot \in Seq(Copies) /\ Len(Snapshot) = Len(tasks_)
         /\ \A k \in 1 .. Len(tasks_) : /\ Snapshot[k].attachment = tasks_[k].attachment
                                        /\ Snapshot[k].gone = FALSE
<1>1. /\ DOMAIN tasks_ = 1 .. Len(tasks_) /\ Len(tasks_) \in Nat
      /\ \A k \in 1 .. Len(tasks_) : tasks_[k] \in Entries
  BY SeqFacts, Zenon
<1>2. /\ Snapshot \in [1 .. Len(tasks_) -> Copies]
      /\ \A k \in 1 .. Len(tasks_) : /\ Snapshot[k].attachment = tasks_[k].attachment
                                     /\ Snapshot[k].gone = FALSE
  BY <1>1, Zenon DEF Snapshot, Entries, Copies
<1> QED
  BY <1>1, <1>2, FunctionIsSeq, Zenon

LEMMA SnapshotIsFrame ==
  ASSUME TypeOK
  PROVE  /\ Round(Snapshot, 1, FALSE) \in Frames /\ Round(Snapshot, 1, FALSE).entries = Snapshot
         /\ FrameOK(Round(Snapshot, 1, FALSE))
<1>1. Snapshot \in Seq(Copies) /\ Len(Snapshot) <= Capacity
  BY SnapshotFacts, Zenon DEF TypeOK
<1>2. 1 \in Nat /\ 1 >= 1
  OBVIOUS
<1> QED
  BY <1>1, <1>2, BetweenPolls, Zenon

\* A step that leaves tasks_ alone and starts or ends rounds.
LEMMA ExactAfterRounds ==
  ASSUME TypeOK, SnapshotExact, UNCHANGED tasks_,
         \A f \in 1 .. Len(stack') :
           \/ \E g \in 1 .. Len(stack) : stack'[f].entries = stack[g].entries
           \/ stack'[f].entries = Snapshot
           \/ stack'[f].entries = <<>>
  PROVE  SnapshotExact'
<1>1. \A n : holds(n)' <=> holds(n)
  BY Zenon DEF holds
<1>2. tasks_ \in Seq(Entries)
  BY Zenon DEF TypeOK
<1>3. \A k \in 1 .. Len(Snapshot) : Snapshot[k].gone <=> ~holds(Snapshot[k].attachment)
  BY <1>2, SnapshotFacts, Zenon DEF holds
<1>4. \A f \in 1 .. Len(stack') : \A k \in 1 .. Len(stack'[f].entries) :
        stack'[f].entries[k].gone <=> ~holds(stack'[f].entries[k].attachment)
  <2> SUFFICES ASSUME NEW f \in 1 .. Len(stack'), NEW k \in 1 .. Len(stack'[f].entries)
               PROVE  stack'[f].entries[k].gone <=> ~holds(stack'[f].entries[k].attachment)
    BY Zenon
  <2>1. CASE \E g \in 1 .. Len(stack) : stack'[f].entries = stack[g].entries
    BY <2>1, Zenon DEF SnapshotExact
  <2>2. CASE stack'[f].entries = Snapshot
    BY <1>3, <2>2, Zenon
  <2>3. CASE stack'[f].entries = <<>>
    BY <2>3
  <2> QED
    BY <2>1, <2>2, <2>3, Zenon
<1> QED
  BY <1>4, ZenonT(60) DEF SnapshotExact, holds

LEMMA EndedFrames ==
  ASSUME NEW s \in Seq(Frames), NEW n, \A f \in 1 .. Len(s) : FrameOK(s[f])
  PROVE  /\ Ended(s, n) \in Seq(Frames)
         /\ \A f \in 1 .. Len(Ended(s, n)) : FrameOK(Ended(s, n)[f])
<1>1. Ended(s, n) \in Seq(Frames) /\ Len(Ended(s, n)) = Len(s)
  BY EndedFacts, Zenon
<1>2. ASSUME NEW f \in 1 .. Len(s) PROVE FrameOK(Ended(s, n)[f])
  <2>1. /\ Ended(s, n)[f].polling = s[f].polling /\ Ended(s, n)[f].i = s[f].i
        /\ Ended(s, n)[f].kind = s[f].kind
        /\ Len(Ended(s, n)[f].entries) = Len(s[f].entries)
    BY EndedFacts, SMTT(60)
  <2> QED
    BY <2>1, Zenon DEF FrameOK
<1> QED
  BY <1>1, <1>2, Zenon

\* EndedFacts on the copies of a result e.
LEMMA EndedCopies ==
  ASSUME NEW s \in Seq(Frames), NEW n, NEW e, e = Ended(s, n)
  PROVE  /\ Len(e) = Len(s)
         /\ \A g \in 1 .. Len(s) :
              /\ Len(e[g].entries) = Len(s[g].entries)
              /\ \A j \in 1 .. Len(s[g].entries) :
                   /\ e[g].entries[j].attachment = s[g].entries[j].attachment
                   /\ e[g].entries[j].gone
                        <=> s[g].entries[j].gone \/ s[g].entries[j].attachment = n
<1>1. Len(e) = Len(s)
  BY EndedFacts, Zenon
<1>2. ASSUME NEW g \in 1 .. Len(s) PROVE Len(e[g].entries) = Len(s[g].entries)
  BY EndedFacts, SMTT(60)
<1>3. ASSUME NEW g \in 1 .. Len(s), NEW j \in 1 .. Len(s[g].entries)
      PROVE  /\ e[g].entries[j].attachment = s[g].entries[j].attachment
             /\ e[g].entries[j].gone
                  <=> s[g].entries[j].gone \/ s[g].entries[j].attachment = n
  <2>1. /\ Ended(s, n)[g].entries[j].attachment = s[g].entries[j].attachment
        /\ Ended(s, n)[g].entries[j].gone
             <=> s[g].entries[j].gone \/ s[g].entries[j].attachment = n
    BY EndedFacts, SMTT(60)
  <2> QED
    BY <2>1, Zenon
<1> QED
  BY <1>1, <1>2, <1>3, Zenon

\* A step that erases entry i and marks the copies of its attachment.
LEMMA ExactAfterErase ==
  ASSUME TypeOK, SnapshotExact, NEW i \in 1 .. Len(tasks_), Erase(i),
         NEW s \in Seq(Frames),
         \A f \in 1 .. Len(s) : \E g \in 1 .. Len(stack) : s[f].entries = stack[g].entries,
         stack' = Ended(s, tasks_[i].attachment)
  PROVE  SnapshotExact'
<1>1. tasks_ \in Seq(Entries)
  BY Zenon DEF TypeOK
<1>2. /\ Len(tasks_') = Len(tasks_) - 1 /\ Len(tasks_) \in Nat
      /\ \A k \in 1 .. Len(tasks_) - 1 : tasks_'[k] = IF k < i THEN tasks_[k] ELSE tasks_[k + 1]
  BY <1>1, WithoutFacts, Zenon DEF Erase
<1>3. \A j, k \in 1 .. Len(tasks_') : j # k => tasks_'[j].attachment # tasks_'[k].attachment
  <2> SUFFICES ASSUME NEW j \in 1 .. Len(tasks_'), NEW k \in 1 .. Len(tasks_'), j # k
               PROVE  tasks_'[j].attachment # tasks_'[k].attachment
    BY Zenon
  <2>1. j \in 1 .. Len(tasks_) - 1 /\ k \in 1 .. Len(tasks_) - 1
    BY <1>2, Zenon
  <2>2. tasks_'[j] = tasks_[Source(i, j)] /\ tasks_'[k] = tasks_[Source(i, k)]
    BY <1>2, <2>1, Zenon DEF Source
  <2>3. /\ Source(i, j) \in 1 .. Len(tasks_) /\ Source(i, k) \in 1 .. Len(tasks_)
        /\ Source(i, j) # Source(i, k)
    BY <1>2, <2>1, SourceFacts, Zenon
  <2> QED
    BY <2>2, <2>3, ZenonT(60) DEF SnapshotExact
<1>4. \A n : (\E k \in 1 .. Len(tasks_') : tasks_'[k].attachment = n)
               <=> holds(n) /\ n # tasks_[i].attachment
  <2> SUFFICES ASSUME NEW n
               PROVE  (\E k \in 1 .. Len(tasks_') : tasks_'[k].attachment = n)
                        <=> holds(n) /\ n # tasks_[i].attachment
    BY Zenon
  <2>1. ASSUME NEW k \in 1 .. Len(tasks_'), tasks_'[k].attachment = n
        PROVE  holds(n) /\ n # tasks_[i].attachment
    <3>1. PICK j \in 1 .. Len(tasks_) : j # i /\ tasks_'[k] = tasks_[j]
      <4>1. CASE k < i
        BY <1>2, <4>1, SMTT(60)
      <4>2. CASE ~(k < i)
        <5>1. k + 1 \in 1 .. Len(tasks_) /\ k + 1 # i /\ tasks_'[k] = tasks_[k + 1]
          BY <1>2, <4>2
        <5> QED
          BY <5>1, Zenon
      <4> QED
        BY <4>1, <4>2, Zenon
    <3> QED
      BY <2>1, <3>1, ZenonT(60) DEF SnapshotExact, holds
  <2>2. ASSUME NEW k \in 1 .. Len(tasks_), tasks_[k].attachment = n, n # tasks_[i].attachment
        PROVE  \E j \in 1 .. Len(tasks_') : tasks_'[j].attachment = n
    <3>1. CASE k < i
      BY <1>2, <2>2, <3>1, SMTT(60)
    <3>2. CASE k > i
      <4>1. k - 1 \in 1 .. Len(tasks_) - 1 /\ ~(k - 1 < i) /\ (k - 1) + 1 = k
        BY <1>2, <3>2
      <4>2. tasks_'[k - 1] = tasks_[k]
        BY <1>2, <4>1, Zenon
      <4> QED
        BY <1>2, <2>2, <4>1, <4>2, Zenon
    <3>3. k # i
      BY <2>2, Zenon
    <3> QED
      BY <3>1, <3>2, <3>3
  <2> QED
    BY <2>1, <2>2, Zenon DEF holds
<1>5. \A f \in 1 .. Len(stack') : \A k \in 1 .. Len(stack'[f].entries) :
        stack'[f].entries[k].gone
          <=> ~(\E j \in 1 .. Len(tasks_') : tasks_'[j].attachment = stack'[f].entries[k].attachment)
  <2> SUFFICES ASSUME NEW f \in 1 .. Len(stack'), NEW k \in 1 .. Len(stack'[f].entries)
               PROVE  stack'[f].entries[k].gone
                        <=> ~(\E j \in 1 .. Len(tasks_') :
                                tasks_'[j].attachment = stack'[f].entries[k].attachment)
    BY Zenon
  <2>1. /\ f \in 1 .. Len(s) /\ k \in 1 .. Len(s[f].entries)
        /\ stack'[f].entries[k].attachment = s[f].entries[k].attachment
        /\ stack'[f].entries[k].gone
             <=> s[f].entries[k].gone \/ s[f].entries[k].attachment = tasks_[i].attachment
    <3>1. PICK n : n = tasks_[i].attachment
      BY Zenon
    <3>2. /\ Len(stack') = Len(s)
          /\ \A g \in 1 .. Len(s) :
               /\ Len(stack'[g].entries) = Len(s[g].entries)
               /\ \A j \in 1 .. Len(s[g].entries) :
                    /\ stack'[g].entries[j].attachment = s[g].entries[j].attachment
                    /\ stack'[g].entries[j].gone
                         <=> s[g].entries[j].gone \/ s[g].entries[j].attachment = n
      <4>1. PICK e : e = Ended(s, n) /\ e = stack'
        BY <3>1, Zenon
      <4>2. /\ Len(e) = Len(s)
            /\ \A g \in 1 .. Len(s) :
                 /\ Len(e[g].entries) = Len(s[g].entries)
                 /\ \A j \in 1 .. Len(s[g].entries) :
                      /\ e[g].entries[j].attachment = s[g].entries[j].attachment
                      /\ e[g].entries[j].gone
                           <=> s[g].entries[j].gone \/ s[g].entries[j].attachment = n
        BY <4>1, EndedCopies, ZenonT(120)
      <4> QED
        BY <4>1, <4>2, ZenonT(60)
    <3>3. f \in 1 .. Len(s)
      BY <3>2, Zenon
    <3>4. k \in 1 .. Len(s[f].entries)
      BY <3>1, <3>2, <3>3, Zenon
    <3> QED
      BY <3>1, <3>2, <3>3, <3>4, Zenon
  <2>2. s[f].entries[k].gone <=> ~holds(s[f].entries[k].attachment)
    BY <2>1, Zenon DEF SnapshotExact
  <2>3. (\E j \in 1 .. Len(tasks_') : tasks_'[j].attachment = s[f].entries[k].attachment)
          <=> holds(s[f].entries[k].attachment) /\ s[f].entries[k].attachment # tasks_[i].attachment
    BY <1>4, Zenon
  <2> QED
    BY <2>1, <2>2, <2>3, Zenon
<1> QED
  BY <1>3, <1>5, Zenon DEF SnapshotExact, holds

-----------------------------------------------------------------------------
\* try_attach: the number it takes belongs to no entry and to no copy.
LEMMA AttachPreserves ==
  ASSUME TypeOK, SnapshotExact, NEW t \in Tasks, Attach(t)
  PROVE  TypeOK' /\ SnapshotExact'
<1>1. PICK k \in 0 .. attachment_numbers - 1 :
        /\ ~in_use(Candidate(k))
        /\ tasks_' = Append(tasks_, [task |-> t, attachment |-> Candidate(k)])
        /\ next_attachment_' = Candidate(k + 1)
  BY Zenon DEF Attach
<1>2. k \in Nat /\ k + 1 \in Nat
  BY SchedulerConstants
<1>3. Candidate(k) \in Numbers /\ next_attachment_' \in Numbers
  BY <1>1, <1>2, CandidateInRange, Zenon DEF TypeOK
<1>4. PICK n \in Numbers : n = Candidate(k)
  BY <1>3, Zenon
<1>5. tasks_ \in Seq(Entries) /\ [task |-> t, attachment |-> n] \in Entries
  BY <1>4, Zenon DEF TypeOK, Entries
<1>6. /\ tasks_' \in Seq(Entries) /\ Len(tasks_') = Len(tasks_) + 1 /\ Len(tasks_) \in Nat
      /\ \A j \in 1 .. Len(tasks_) : tasks_'[j] = tasks_[j]
      /\ tasks_'[Len(tasks_) + 1].attachment = n
  BY <1>1, <1>4, <1>5
<1>7. Len(tasks_') <= Capacity
  BY <1>6, SchedulerConstants DEF Attach
<1>8. TypeOK'
  BY <1>3, <1>6, <1>7, Zenon DEF TypeOK, Attach
<1>9. ~holds(n) /\ \A f \in 1 .. Len(stack) : \A j \in 1 .. Len(stack[f].entries) :
                     stack[f].entries[j].attachment # n
  BY <1>1, <1>4, Zenon DEF in_use
<1>10. \A i, j \in 1 .. Len(tasks_') : i # j => tasks_'[i].attachment # tasks_'[j].attachment
  <2>1. \A i \in 1 .. Len(tasks_') : i \in 1 .. Len(tasks_) \/ i = Len(tasks_) + 1
    BY <1>6
  <2>2. \A i \in 1 .. Len(tasks_) : tasks_'[i].attachment # n
    BY <1>6, <1>9, Zenon DEF holds
  <2>3. \A i, j \in 1 .. Len(tasks_) : i # j => tasks_'[i].attachment # tasks_'[j].attachment
    BY <1>6, ZenonT(60) DEF SnapshotExact
  <2> QED
    BY <1>6, <2>1, <2>2, <2>3, Zenon
<1>11. \A m : (\E j \in 1 .. Len(tasks_') : tasks_'[j].attachment = m) <=> holds(m) \/ m = n
  <2>1. \A j \in 1 .. Len(tasks_') : j \in 1 .. Len(tasks_) \/ j = Len(tasks_) + 1
    BY <1>6
  <2>2. Len(tasks_) + 1 \in 1 .. Len(tasks_') /\ \A j \in 1 .. Len(tasks_) : j \in 1 .. Len(tasks_')
    BY <1>6
  <2> QED
    BY <1>6, <2>1, <2>2, Zenon DEF holds
<1>12. stack' = stack
  BY Zenon DEF Attach
<1>13. \A f \in 1 .. Len(stack') : \A j \in 1 .. Len(stack'[f].entries) :
         stack'[f].entries[j].gone
           <=> ~(\E i \in 1 .. Len(tasks_') : tasks_'[i].attachment = stack'[f].entries[j].attachment)
  <2> SUFFICES ASSUME NEW f \in 1 .. Len(stack), NEW j \in 1 .. Len(stack[f].entries)
               PROVE  stack[f].entries[j].gone
                        <=> ~(\E i \in 1 .. Len(tasks_') :
                                tasks_'[i].attachment = stack[f].entries[j].attachment)
    BY <1>12, SMTT(60)
  <2>1. stack[f].entries[j].gone <=> ~holds(stack[f].entries[j].attachment)
    BY Zenon DEF SnapshotExact
  <2>2. stack[f].entries[j].attachment # n
    BY <1>9, Zenon
  <2>3. (\E i \in 1 .. Len(tasks_') : tasks_'[i].attachment = stack[f].entries[j].attachment)
          <=> holds(stack[f].entries[j].attachment) \/ stack[f].entries[j].attachment = n
    BY <1>11, Zenon
  <2> QED
    BY <2>1, <2>2, <2>3, Zenon
<1> QED
  BY <1>8, <1>10, <1>13, Zenon DEF SnapshotExact, holds

LEMMA DetachPreserves ==
  ASSUME TypeOK, SnapshotExact, NEW t \in Tasks, Detach(t)
  PROVE  TypeOK' /\ SnapshotExact'
<1>1. PICK i \in 1 .. Len(tasks_) : Erase(i) /\ stack' = Ended(stack, tasks_[i].attachment)
  BY Zenon DEF Detach
<1>2. tasks_ \in Seq(Entries) /\ stack \in Seq(Frames)
  BY Zenon DEF TypeOK
<1>3. SnapshotExact'
  BY <1>1, <1>2, ExactAfterErase, Zenon
<1>4. tasks_' \in Seq(Entries) /\ Len(tasks_') <= Capacity /\ next_attachment_' \in Numbers
  <2>1. tasks_' \in Seq(Entries) /\ Len(tasks_') = Len(tasks_) - 1 /\ Len(tasks_) \in Nat
    BY <1>1, <1>2, WithoutFacts, Zenon DEF Erase
  <2> QED
    BY <1>1, <2>1, SchedulerConstants DEF TypeOK, Erase
<1>5. /\ stack' \in Seq(Frames)
      /\ \A f \in 1 .. Len(stack') : FrameOK(stack'[f])
  <2>1. PICK n : n = tasks_[i].attachment
    BY Zenon
  <2>2. stack' = Ended(stack, n) /\ \A f \in 1 .. Len(stack) : FrameOK(stack[f])
    BY <1>1, <2>1, Zenon DEF TypeOK
  <2> QED
    BY <1>2, <2>2, EndedFrames, Zenon
<1> QED
  BY <1>3, <1>4, <1>5, Zenon DEF TypeOK

\* A step of the innermost round that leaves tasks_ alone.
LEMMA RoundStep ==
  ASSUME TypeOK, SnapshotExact, stack # <<>>, UNCHANGED <<tasks_, next_attachment_>>,
         NEW frame \in Frames, frame.entries = Top.entries, FrameOK(frame),
         stack' = ReplaceTop(frame)
  PROVE  TypeOK' /\ SnapshotExact'
<1>1. stack \in Seq(Frames) /\ Len(stack) \in Nat /\ Len(stack) > 0 /\ Top = stack[Len(stack)]
  BY BelowFacts, Zenon DEF TypeOK
<1>2. /\ stack' \in Seq(Frames) /\ Len(stack') = Len(stack)
      /\ \A k \in 1 .. Len(stack) : stack'[k] = IF k < Len(stack) THEN stack[k] ELSE frame
  BY <1>1, ReplaceTopFacts, Zenon
<1>3. \A f \in 1 .. Len(stack') : FrameOK(stack'[f])
  BY <1>1, <1>2, Zenon DEF TypeOK
<1>4. TypeOK'
  BY <1>2, <1>3, Zenon DEF TypeOK
<1>5. \A f \in 1 .. Len(stack') : \E g \in 1 .. Len(stack) : stack'[f].entries = stack[g].entries
  BY <1>1, <1>2
<1> QED
  BY <1>4, <1>5, ExactAfterRounds, Zenon

\* A step that pushes a frame of run_once or run_until_idle.
LEMMA PushStep ==
  ASSUME TypeOK, SnapshotExact, UNCHANGED <<tasks_, next_attachment_>>,
         NEW frame \in Frames, FrameOK(frame), frame.entries = Snapshot \/ frame.entries = <<>>,
         stack' = Append(stack, frame)
  PROVE  TypeOK' /\ SnapshotExact'
<1>1. stack \in Seq(Frames)
  BY Zenon DEF TypeOK
<1>2. /\ stack' \in Seq(Frames) /\ Len(stack') = Len(stack) + 1 /\ Len(stack) \in Nat
      /\ \A k \in 1 .. Len(stack) : stack'[k] = stack[k]
      /\ stack'[Len(stack) + 1] = frame
  BY <1>1, PushFacts, Zenon
<1>3. \A f \in 1 .. Len(stack') : f \in 1 .. Len(stack) \/ f = Len(stack) + 1
  BY <1>2
<1>4. \A f \in 1 .. Len(stack') : FrameOK(stack'[f])
  BY <1>2, <1>3, Zenon DEF TypeOK
<1>5. TypeOK'
  BY <1>2, <1>4, Zenon DEF TypeOK
<1>6. \A f \in 1 .. Len(stack') :
        \/ \E g \in 1 .. Len(stack) : stack'[f].entries = stack[g].entries
        \/ stack'[f].entries = Snapshot
        \/ stack'[f].entries = <<>>
  BY <1>2, <1>3, Zenon
<1> QED
  BY <1>5, <1>6, ExactAfterRounds, Zenon

\* The return of run_once or run_until_idle.
LEMMA PopStep ==
  ASSUME TypeOK, SnapshotExact, UNCHANGED <<tasks_, next_attachment_>>,
         stack # <<>>, stack' = Below
  PROVE  TypeOK' /\ SnapshotExact'
<1>1. /\ Len(stack) \in Nat /\ Len(stack) > 0
      /\ stack' \in Seq(Frames) /\ Len(stack') = Len(stack) - 1
      /\ \A k \in 1 .. Len(stack) - 1 : stack'[k] = stack[k]
  BY BelowFacts, Zenon DEF TypeOK
<1>2. \A f \in 1 .. Len(stack') : f \in 1 .. Len(stack) /\ stack'[f] = stack[f]
  BY <1>1
<1>3. TypeOK'
  BY <1>1, <1>2, Zenon DEF TypeOK
<1>4. \A f \in 1 .. Len(stack') : \E g \in 1 .. Len(stack) : stack'[f].entries = stack[g].entries
  BY <1>2, Zenon
<1> QED
  BY <1>3, <1>4, ExactAfterRounds, Zenon

\* A poll that returns false: its own attachment ends, or had ended before.
LEMMA PollCompletesPreserves ==
  ASSUME TypeOK, SnapshotExact, PollCompletes
  PROVE  TypeOK' /\ SnapshotExact'
<1>1. /\ stack # <<>> /\ stack \in Seq(Frames) /\ Len(stack) \in Nat /\ Len(stack) > 0
      /\ Top = stack[Len(stack)] /\ Top \in Frames /\ Top.i \in Nat /\ Top.entries \in Seq(Copies)
  BY BelowFacts, Zenon DEF TypeOK, PollCompletes, Frames
<1> DEFINE next == Round(Top.entries, Top.i + 1, FALSE)
<1>2. next \in Frames /\ next.entries = Top.entries /\ FrameOK(next)
  <2>1. Top.i + 1 \in Nat /\ Top.i + 1 >= 1
    BY <1>1, SMTT(60)
  <2>2. Len(Top.entries) <= Capacity
    BY <1>1 DEF TypeOK, FrameOK
  <2> QED
    BY <1>1, <2>1, <2>2, BetweenPolls, Zenon
<1>3. PICK frame \in Frames :
        frame = next /\ frame.entries = Top.entries /\ FrameOK(frame)
  BY <1>2, Zenon
<1>4. PICK s \in Seq(Frames) : s = ReplaceTop(frame)
  BY <1>1, ReplaceTopFacts, Zenon
<1>5. /\ Len(s) = Len(stack)
      /\ \A k \in 1 .. Len(stack) : s[k] = IF k < Len(stack) THEN stack[k] ELSE frame
  BY <1>1, <1>4, ReplaceTopFacts, Zenon
<1>6. CASE \E i \in 1 .. Len(tasks_) :
             /\ tasks_[i].attachment = Top.entries[Top.i].attachment
             /\ Erase(i) /\ stack' = Ended(s, Top.entries[Top.i].attachment)
  <2>1. PICK i \in 1 .. Len(tasks_) : Erase(i) /\ stack' = Ended(s, tasks_[i].attachment)
    BY <1>6, Zenon
  <2>2. \A f \in 1 .. Len(s) : \E g \in 1 .. Len(stack) : s[f].entries = stack[g].entries
    <3>1. \A f \in 1 .. Len(s) : f \in 1 .. Len(stack) /\ s[f].entries = stack[f].entries
      <4>1. \A f \in 1 .. Len(s) : f \in 1 .. Len(stack) /\ (f < Len(stack) \/ f = Len(stack))
        BY <1>1, <1>5
      <4> HIDE DEF next
      <4> QED
        BY <1>1, <1>3, <1>5, <4>1, Zenon
    <3> QED
      BY <3>1, Zenon
  <2>3. SnapshotExact'
    BY <2>1, <2>2, ExactAfterErase, Zenon
  <2>4. \A f \in 1 .. Len(s) : FrameOK(s[f])
    BY <1>1, <1>3, <1>5, Zenon DEF TypeOK
  <2>5. stack' \in Seq(Frames) /\ \A f \in 1 .. Len(stack') : FrameOK(stack'[f])
    BY <2>1, <2>4, EndedFrames, Zenon
  <2>6. tasks_' \in Seq(Entries) /\ Len(tasks_') = Len(tasks_) - 1 /\ Len(tasks_) \in Nat
    BY <2>1, WithoutFacts, Zenon DEF Erase, TypeOK
  <2>7. TypeOK'
    BY <2>1, <2>5, <2>6, SchedulerConstants DEF TypeOK, Erase
  <2> QED
    BY <2>3, <2>7, Zenon
<1>7. CASE stack' = s /\ UNCHANGED <<tasks_, next_attachment_>>
  BY <1>1, <1>3, <1>4, <1>7, RoundStep, Zenon
<1> QED
  BY <1>3, <1>4, <1>6, <1>7, Zenon DEF PollCompletes

\* One turn of run_until_idle: the loop's frame and a round above it.
LEMMA LoopTurnPreserves ==
  ASSUME TypeOK, SnapshotExact, LoopTurn
  PROVE  TypeOK' /\ SnapshotExact'
<1>1. CASE stack' = Below
  BY <1>1, PopStep, Zenon DEF LoopTurn
<1>2. CASE Top.left > 0 /\ stack' = Append(ReplaceTop(Loop(Top.left - 1)), Round(Snapshot, 1, FALSE))
  <2>1. /\ stack # <<>> /\ stack \in Seq(Frames) /\ Len(stack) \in Nat /\ Len(stack) > 0
        /\ Top.left - 1 \in Nat
    <3>1. stack # <<>> /\ stack \in Seq(Frames)
      BY Zenon DEF TypeOK, LoopTurn
    <3>2. Len(stack) \in Nat /\ Len(stack) > 0 /\ Top \in Frames
      BY <3>1, BelowFacts, Zenon
    <3>3. Top.left \in Nat
      BY <3>2, Zenon DEF Frames
    <3> QED
      BY <1>2, <3>1, <3>2, <3>3
  <2>2. /\ Loop(Top.left - 1) \in Frames /\ FrameOK(Loop(Top.left - 1))
        /\ Loop(Top.left - 1).entries = <<>>
    BY <2>1, LoopFrame, Zenon
  <2>3. /\ Round(Snapshot, 1, FALSE) \in Frames /\ FrameOK(Round(Snapshot, 1, FALSE))
        /\ Round(Snapshot, 1, FALSE).entries = Snapshot
    BY SnapshotIsFrame, Zenon
  <2>4. /\ ReplaceTop(Loop(Top.left - 1)) \in Seq(Frames)
        /\ Len(ReplaceTop(Loop(Top.left - 1))) = Len(stack)
        /\ \A k \in 1 .. Len(stack) :
             ReplaceTop(Loop(Top.left - 1))[k] = IF k < Len(stack) THEN stack[k] ELSE Loop(Top.left - 1)
    BY <2>1, <2>2, ReplaceTopFacts, Zenon
  <2> DEFINE below == ReplaceTop(Loop(Top.left - 1))
             frame == Round(Snapshot, 1, FALSE)
  <2>5. /\ stack' \in Seq(Frames) /\ Len(stack') = Len(stack) + 1
        /\ \A k \in 1 .. Len(stack) : stack'[k] = below[k]
        /\ stack'[Len(stack) + 1] = frame
    <3>1. stack' = Append(below, frame) /\ below \in Seq(Frames) /\ frame \in Frames
          /\ Len(below) = Len(stack)
      BY <1>2, <2>3, <2>4, Zenon
    <3> HIDE DEF below, frame
    <3> QED
      BY <3>1, PushFacts
  <2>6. \A f \in 1 .. Len(stack') :
          \/ f \in 1 .. Len(stack) /\ stack'[f] = stack[f]
          \/ stack'[f] = Loop(Top.left - 1)
          \/ stack'[f] = Round(Snapshot, 1, FALSE)
    <3>1. \A f \in 1 .. Len(stack') : (f \in 1 .. Len(stack) /\ f < Len(stack))
                                      \/ (f \in 1 .. Len(stack) /\ ~(f < Len(stack))) \/ f = Len(stack) + 1
      BY <2>1, <2>5
    <3>2. \A f \in 1 .. Len(stack) :
            stack'[f] = IF f < Len(stack) THEN stack[f] ELSE Loop(Top.left - 1)
      BY <2>4, <2>5, Zenon
    <3> QED
      BY <2>5, <3>1, <3>2, Zenon
  <2>7. TypeOK'
    BY <2>2, <2>3, <2>5, <2>6, Zenon DEF TypeOK, LoopTurn
  <2> QED
    BY <2>2, <2>3, <2>6, <2>7, ExactAfterRounds, Zenon DEF LoopTurn
<1> QED
  BY <1>1, <1>2, Zenon DEF LoopTurn

-----------------------------------------------------------------------------
LEMMA Inductive ==
  ASSUME TypeOK, SnapshotExact, [Next]_vars
  PROVE  TypeOK' /\ SnapshotExact'
<1>1. ASSUME UNCHANGED vars PROVE TypeOK' /\ SnapshotExact'
  BY <1>1 DEF vars, TypeOK, SnapshotExact, holds
<1>2. ASSUME NEW t \in Tasks, AttachFails(t) PROVE TypeOK' /\ SnapshotExact'
  BY <1>1, <1>2, Zenon DEF AttachFails
<1>3. ASSUME stack # <<>>
      PROVE  /\ Top.i \in Nat /\ Top.entries \in Seq(Copies)
             /\ FrameOK(Top) /\ Len(Top.entries) \in Nat /\ Len(Top.entries) <= Capacity
  <2>1. Top \in Frames /\ FrameOK(Top)
    BY <1>3, BelowFacts DEF TypeOK
  <2> QED
    BY <2>1 DEF Frames, FrameOK
<1>4. ASSUME Skip \/ PollYields PROVE TypeOK' /\ SnapshotExact'
  <2>1. /\ stack # <<>> /\ UNCHANGED <<tasks_, next_attachment_>>
        /\ stack' = ReplaceTop(Round(Top.entries, Top.i + 1, FALSE))
    BY <1>4, Zenon DEF Skip, PollYields, InRound
  <2>2. /\ Top.i + 1 \in Nat /\ Top.i + 1 >= 1
        /\ Top.entries \in Seq(Copies) /\ Len(Top.entries) <= Capacity
    BY <1>3, <2>1
  <2>3. /\ Round(Top.entries, Top.i + 1, FALSE) \in Frames
        /\ Round(Top.entries, Top.i + 1, FALSE).entries = Top.entries
        /\ FrameOK(Round(Top.entries, Top.i + 1, FALSE))
    BY <2>2, BetweenPolls, Zenon
  <2> QED
    BY <2>1, <2>3, RoundStep, Zenon
<1>5. ASSUME Poll PROVE TypeOK' /\ SnapshotExact'
  <2>1. Top.i >= 1 /\ Top.i <= Len(Top.entries) /\ stack # <<>>
    BY <1>3, <1>5, Zenon DEF Poll, InRound, FrameOK
  <2> QED
    BY <1>3, <1>5, <2>1, InPoll, RoundStep, Zenon DEF Poll
<1>6. ASSUME RunOnce PROVE TypeOK' /\ SnapshotExact'
  BY <1>6, SnapshotIsFrame, PushStep, Zenon DEF RunOnce
<1>7. ASSUME RunUntilIdle PROVE TypeOK' /\ SnapshotExact'
  BY <1>7, SchedulerConstants, LoopFrame, PushStep, Zenon DEF RunUntilIdle
<1>8. ASSUME RoundEnds PROVE TypeOK' /\ SnapshotExact'
  BY <1>8, PopStep, Zenon DEF RoundEnds, InRound
<1> QED
  BY <1>1, <1>2, <1>4, <1>5, <1>6, <1>7, <1>8, AttachPreserves, DetachPreserves,
     PollCompletesPreserves, LoopTurnPreserves, Zenon DEF Next

\* Capacity bounds the attached tasks, numbers stay in their range and a
\* poll is always of an entry of its round's snapshot.
THEOREM TypeCorrect == Spec => []TypeOK
<1>1. Init => TypeOK /\ SnapshotExact
  BY SchedulerConstants DEF Init, TypeOK, SnapshotExact, Numbers
<1> QED
  BY <1>1, Inductive, PTL DEF Spec

\* Attachment numbers are never confused, for any capacity and any nesting of
\* rounds inside polls: an entry of a running snapshot answers to its number
\* exactly while its own attachment lasts.
THEOREM SnapshotsExact == Spec => []SnapshotExact
<1>1. Init => TypeOK /\ SnapshotExact
  BY SchedulerConstants DEF Init, TypeOK, SnapshotExact, Numbers
<1> QED
  BY <1>1, Inductive, PTL DEF Spec

-----------------------------------------------------------------------------
(***************************************************************************)
(* The numbers do not run out: tasks_ and the snapshot of one round have   *)
(* 2 * Capacity places, one less than there are numbers.                   *)
(***************************************************************************)
INSTANCE FiniteSetTheorems

LEMMA OneSnapshot ==
  ASSUME TypeOK, \A f, g \in Rounds : f = g
  PROVE  \E es : /\ Len(es) \in Nat /\ Len(es) <= Capacity
                 /\ \A n : in_use(n) => holds(n) \/ \E k \in 1 .. Len(es) : es[k].attachment = n
<1>1. \A f \in 1 .. Len(stack) : /\ stack[f] \in Frames /\ Len(stack[f].entries) \in Nat
                                 /\ FrameOK(stack[f])
  <2>1. \A f \in 1 .. Len(stack) : stack[f] \in Frames /\ FrameOK(stack[f])
    BY SeqFacts, Zenon DEF TypeOK
  <2> QED
    BY <2>1 DEF Frames
<1>2. \A f \in 1 .. Len(stack) : f \in Rounds \/ Len(stack[f].entries) = 0
  BY <1>1, Zenon DEF FrameOK, Rounds, Frames
<1>3. CASE Rounds = {}
  <2>1. \A f \in 1 .. Len(stack) : \A k \in 1 .. Len(stack[f].entries) : FALSE
    BY <1>2, <1>3, SMTT(60)
  <2>2. \A n : in_use(n) => holds(n)
    BY <2>1, Zenon DEF in_use
  <2>3. Len(<<>>) \in Nat /\ Len(<<>>) <= Capacity
    BY SchedulerConstants
  <2> QED
    BY <2>2, <2>3, Zenon
<1>4. CASE Rounds # {}
  <2>1. PICK f \in 1 .. Len(stack) : f \in Rounds
    BY <1>4, Zenon DEF Rounds
  <2>2. \A g \in 1 .. Len(stack) : \A k \in 1 .. Len(stack[g].entries) : g = f
    BY <1>1, <1>2, <2>1, SMTT(60)
  <2>3. \A n : in_use(n) => holds(n) \/ \E k \in 1 .. Len(stack[f].entries) : stack[f].entries[k].attachment = n
    BY <2>2, Zenon DEF in_use
  <2> QED
    BY <1>1, <2>3, Zenon DEF FrameOK
<1> QED
  BY <1>3, <1>4, Zenon

LEMMA NumberFree == TypeOK => NumberAvailable
<1> SUFFICES ASSUME TypeOK, \A f, g \in Rounds : f = g, \A n \in Numbers : in_use(n)
             PROVE  FALSE
  BY Zenon DEF NumberAvailable
<1>1. PICK es : /\ Len(es) \in Nat /\ Len(es) <= Capacity
                /\ \A n : in_use(n) => holds(n) \/ \E k \in 1 .. Len(es) : es[k].attachment = n
  BY OneSnapshot, Zenon
<1>2. Capacity \in Nat /\ Len(tasks_) \in Nat /\ Len(tasks_) <= Capacity
  BY SchedulerConstants, SeqFacts, Zenon DEF TypeOK
<1> DEFINE Places == 1 .. 2 * Capacity
           At(p, n) == \/ p \in 1 .. Len(tasks_) /\ tasks_[p].attachment = n
                       \/ p - Capacity \in 1 .. Len(es) /\ es[p - Capacity].attachment = n
           place == [n \in Numbers |-> CHOOSE p \in Places : At(p, n)]
<1>3. \A n \in Numbers : \E p \in Places : At(p, n)
  <2> SUFFICES ASSUME NEW n \in Numbers PROVE \E p \in Places : At(p, n)
    BY Zenon
  <2>1. CASE holds(n)
    <3>1. PICK p \in 1 .. Len(tasks_) : tasks_[p].attachment = n
      BY <2>1, Zenon DEF holds
    <3>2. p \in Places
      BY <1>2, SMTT(60)
    <3> QED
      BY <3>1, <3>2, Zenon
  <2>2. CASE \E k \in 1 .. Len(es) : es[k].attachment = n
    <3>1. PICK k \in 1 .. Len(es) : es[k].attachment = n
      BY <2>2, Zenon
    <3>2. k + Capacity \in Places /\ (k + Capacity) - Capacity = k
      BY <1>1, <1>2, SMTT(60)
    <3> QED
      BY <3>1, <3>2, Zenon
  <2> QED
    BY <1>1, <2>1, <2>2, ZenonT(60)
<1>4. \A p \in Places : ~(p \in 1 .. Len(tasks_) /\ p - Capacity \in 1 .. Len(es))
  BY <1>1, <1>2
<1>5. \A p \in Places : \A m, n : At(p, m) /\ At(p, n) => m = n
  BY <1>4, ZenonT(60)
<1>6. IsFiniteSet(Numbers) /\ IsFiniteSet(Places) /\ Cardinality(Places) < Cardinality(Numbers)
  <2>1. /\ IsFiniteSet(Numbers)
        /\ Cardinality(Numbers) = IF 0 > attachment_numbers - 1 THEN 0 ELSE (attachment_numbers - 1) - 0 + 1
    BY SchedulerConstants, FS_Interval, SMTT(60) DEF Numbers
  <2>2. /\ IsFiniteSet(Places)
        /\ Cardinality(Places) = IF 1 > 2 * Capacity THEN 0 ELSE 2 * Capacity - 1 + 1
    <3>1. 1 \in Int /\ 2 * Capacity \in Int
      BY <1>2, SMTT(60)
    <3> QED
      BY <3>1, FS_Interval, Zenon
  <2>3. Cardinality(Numbers) = 2 * Capacity + 1
    BY <1>2, <2>1, SMTT(60) DEF attachment_numbers
  <2>4. Cardinality(Places) = 2 * Capacity
    BY <1>2, <2>2, SMTT(60)
  <2>5. Cardinality(Places) < Cardinality(Numbers)
    BY <1>2, <2>3, <2>4, SMTT(60)
  <2> QED
    BY <2>1, <2>2, <2>5, Zenon
<1> HIDE DEF At, Places
<1>7. place \in [Numbers -> Places] /\ \A n \in Numbers : At(place[n], n)
  BY <1>3, ZenonT(60)
<1> HIDE DEF place
<1>8. \E m, n \in Numbers : m # n /\ place[m] = place[n]
  BY <1>6, <1>7, FS_PigeonHole, SMTT(60)
<1> QED
  BY <1>5, <1>7, <1>8, Zenon

(***************************************************************************)
(* try_attach of a scheduler that is not full finds a free number, for     *)
(* every capacity, unless rounds nest                                      *)
(* (coro/scheduler.hpp:101-103, 235-238).                                  *)
(***************************************************************************)
THEOREM NumbersSuffice == Spec => []NumberAvailable
BY TypeCorrect, NumberFree, PTL

-----------------------------------------------------------------------------
(***************************************************************************)
(* The deadline scheduler.  Its reserve, one slot for each poll on the     *)
(* stack, is exact: poll_depth_ counts the polls, and entries and reserve  *)
(* together never exceed Capacity.                                         *)
(***************************************************************************)
CONSTANTS MaxTick, MaxDispatches, PastDeadlines

VARIABLES queue_, poll_depth_, due_stack, tick

Due == INSTANCE DeadlineScheduler WITH stack <- due_stack

DueEntries == [task : Tasks, deadline : Due!Ticks]

Polls(s) == {f \in 1 .. Len(s) : s[f].polling}

DueInv ==
  /\ Due!TypeOK
  /\ poll_depth_ = Cardinality(Polls(due_stack))
  /\ Len(queue_) + poll_depth_ <= Capacity

LEMMA SameCardinality == \A S : Due!Cardinality(S) = Cardinality(S)
BY Zenon DEF Due!Cardinality, Cardinality, Due!IsFiniteSet, IsFiniteSet

\* The polls are frames of the stack.
LEMMA PollsBounded ==
  ASSUME NEW s \in Seq(Due!Frames)
  PROVE  /\ IsFiniteSet(Polls(s)) /\ Cardinality(Polls(s)) \in Nat
         /\ Cardinality(Polls(s)) <= Len(s)
<1>1. Len(s) \in Nat
  BY SeqFacts, Zenon
<1>2. IsFiniteSet(1 .. Len(s)) /\ Cardinality(1 .. Len(s)) = Len(s)
  <2>1. /\ IsFiniteSet(1 .. Len(s))
        /\ Cardinality(1 .. Len(s)) = IF 1 > Len(s) THEN 0 ELSE Len(s) - 1 + 1
    <3>1. 1 \in Int /\ Len(s) \in Int
      BY <1>1
    <3> QED
      BY <3>1, FS_Interval, Zenon
  <2>2. \A n \in Nat : (IF 1 > n THEN 0 ELSE n - 1 + 1) = n
    OBVIOUS
  <2> QED
    BY <1>1, <2>1, <2>2, ZenonT(60)
<1>3. Polls(s) \in SUBSET (1 .. Len(s))
  BY Zenon DEF Polls
<1>4. IsFiniteSet(Polls(s)) /\ Cardinality(Polls(s)) <= Cardinality(1 .. Len(s))
  BY <1>2, <1>3, FS_Subset, ZenonT(60)
<1> QED
  BY <1>2, <1>4, FS_CardinalityType, ZenonT(60)

\* run_due starts outside a poll, and returns from outside one.
LEMMA PollsPush ==
  ASSUME NEW s \in Seq(Due!Frames), NEW x \in Due!Frames, ~x.polling
  PROVE  Polls(Append(s, x)) = Polls(s)
<1>1. /\ Len(Append(s, x)) = Len(s) + 1 /\ Len(s) \in Nat
      /\ \A k \in 1 .. Len(s) : Append(s, x)[k] = s[k]
      /\ Append(s, x)[Len(s) + 1] = x
  OBVIOUS
<1>2. \A k : k \in 1 .. Len(s) + 1 <=> k \in 1 .. Len(s) \/ k = Len(s) + 1
  BY <1>1
<1> QED
  BY <1>1, <1>2, ZenonT(60) DEF Polls

LEMMA PollsPop ==
  ASSUME NEW s \in Seq(Due!Frames), s # <<>>, ~s[Len(s)].polling
  PROVE  Polls(SubSeq(s, 1, Len(s) - 1)) = Polls(s)
<1>1. PICK b : b = SubSeq(s, 1, Len(s) - 1)
  BY Zenon
<1>2. Len(s) \in Nat /\ Len(b) = Len(s) - 1 /\ \A k \in 1 .. Len(s) - 1 : b[k] = s[k]
  BY <1>1, PopFacts, Zenon
<1>3. \A k : k \in 1 .. Len(s) /\ k # Len(s) <=> k \in 1 .. Len(s) - 1
  BY <1>2
<1> QED
  BY <1>1, <1>2, <1>3, ZenonT(60) DEF Polls

\* A poll starts or ends in the innermost frame.
LEMMA PollsSwap ==
  ASSUME NEW s \in Seq(Due!Frames), NEW x \in Due!Frames, s # <<>>
  PROVE  Polls(Swap(s, x)) = IF x.polling THEN Polls(s) \cup {Len(s)} ELSE Polls(s) \ {Len(s)}
<1>1. /\ Len(Swap(s, x)) = Len(s)
      /\ \A k \in 1 .. Len(s) : Swap(s, x)[k] = IF k < Len(s) THEN s[k] ELSE x
  BY SwapFacts
<1>2. Len(s) \in Nat /\ Len(s) > 0
  BY PopFacts, Zenon
<1>3. Len(s) \in 1 .. Len(s) /\ \A k \in 1 .. Len(s) : k # Len(s) <=> k < Len(s)
  BY <1>2
<1>4. \A k \in 1 .. Len(s) : Swap(s, x)[k] = IF k = Len(s) THEN x ELSE s[k]
  BY <1>1, <1>3, Zenon
<1> QED
  BY <1>1, <1>3, <1>4, ZenonT(60) DEF Polls

LEMMA DueTyped ==
  ASSUME Due!TypeOK
  PROVE  /\ queue_ \in Seq(DueEntries) /\ Len(queue_) \in Nat
         /\ due_stack \in Seq(Due!Frames) /\ Len(due_stack) \in Nat
         /\ poll_depth_ \in Nat
<1>1. /\ queue_ \in Seq(DueEntries) /\ due_stack \in Seq(Due!Frames)
      /\ poll_depth_ \in 0 .. MaxDepth
  BY Zenon DEF Due!TypeOK, DueEntries
<1>2. Len(queue_) \in Nat /\ Len(due_stack) \in Nat
  BY <1>1, SeqFacts, ZenonT(60)
<1>3. poll_depth_ \in Nat
  BY <1>1, SchedulerAssumption, SMTT(60)
<1> QED
  BY <1>1, <1>2, <1>3, ZenonT(60)

\* What a step has to establish.
LEMMA DueKept ==
  ASSUME queue_' \in Seq(DueEntries), due_stack' \in Seq(Due!Frames),
         Len(due_stack') <= MaxDepth, poll_depth_' = Cardinality(Polls(due_stack')),
         tick' \in 0 .. MaxTick, Len(queue_') + poll_depth_' <= Capacity
  PROVE  DueInv'
<1>1. poll_depth_' \in Nat /\ poll_depth_' <= Len(due_stack') /\ Len(due_stack') \in Nat
  BY PollsBounded, SeqFacts, ZenonT(60)
<1>2. poll_depth_' \in 0 .. MaxDepth
  BY <1>1, SchedulerAssumption, SMTT(60)
<1> QED
  BY <1>2, Zenon DEF DueInv, Due!TypeOK, DueEntries, Due!Ticks, Due!Frames

\* A step of the tasks outside a frame: only the queue or the clock moves.
LEMMA QueueMoves ==
  ASSUME DueInv, queue_' \in Seq(DueEntries), UNCHANGED <<poll_depth_, due_stack>>,
         tick' \in 0 .. MaxTick, Len(queue_') + poll_depth_ <= Capacity
  PROVE  DueInv'
<1>1. /\ due_stack' \in Seq(Due!Frames) /\ Len(due_stack') <= MaxDepth
      /\ poll_depth_' = Cardinality(Polls(due_stack'))
      /\ Len(queue_') + poll_depth_' <= Capacity
  BY Zenon DEF DueInv, Due!TypeOK
<1> QED
  BY <1>1, DueKept, ZenonT(60)

\* An entry is a task and a deadline that fits a tick.
LEMMA PushedEntry ==
  ASSUME Due!TypeOK, NEW t \in Tasks, NEW d \in Due!Deadlines,
         queue_' = Append(queue_, Due!Entry(t, d))
  PROVE  queue_' \in Seq(DueEntries) /\ Len(queue_') = Len(queue_) + 1
<1>1. d \in Due!Ticks
  BY Zenon DEF Due!Deadlines
<1>2. PICK e \in DueEntries : e = Due!Entry(t, d)
  BY <1>1, Zenon DEF DueEntries, Due!Entry
<1>3. queue_' = Append(queue_, e)
  BY <1>2, ZenonT(60)
<1>4. queue_ \in Seq(DueEntries)
  BY DueTyped, Zenon
<1>5. Append(queue_, e) \in Seq(DueEntries) /\ Len(Append(queue_, e)) = Len(queue_) + 1
  BY <1>4, Appended, SMTT(60)
<1> QED
  BY <1>3, <1>5, ZenonT(60)

LEMMA ScheduleKeeps ==
  ASSUME DueInv, NEW t \in Tasks, NEW d \in Due!Deadlines, Due!try_schedule(t, d)
  PROVE  DueInv'
<1>1. /\ queue_' \in Seq(DueEntries) /\ Len(queue_') = Len(queue_) + 1
      /\ UNCHANGED <<poll_depth_, due_stack>> /\ tick' \in 0 .. MaxTick
  BY PushedEntry, ZenonT(60) DEF DueInv, Due!TypeOK, Due!try_schedule
<1>2. Len(queue_) \in Nat /\ poll_depth_ \in Nat
  BY DueTyped, ZenonT(60) DEF DueInv
<1>3. Len(queue_) + poll_depth_ < Capacity
  BY Zenon DEF Due!try_schedule, Due!reserved
<1>4. Len(queue_') + poll_depth_ <= Capacity
  <2>1. \A m, n \in Nat : m + n < Capacity => (m + 1) + n <= Capacity
    BY SchedulerAssumption, SMTT(60)
  <2> QED
    BY <1>1, <1>2, <1>3, <2>1, ZenonT(60)
<1> QED
  BY <1>1, <1>4, QueueMoves, ZenonT(60)

LEMMA CancelKeeps ==
  ASSUME DueInv, NEW t \in Tasks, Due!cancel(t)
  PROVE  DueInv'
<1> DEFINE n == Cardinality(Due!Others(t))
<1>1. PICK kept \in [1 .. Cardinality(Due!Others(t)) -> Due!Others(t)] :
        /\ \A j, k \in DOMAIN kept : j < k => kept[j] < kept[k]
        /\ queue_' = [k \in DOMAIN kept |-> queue_[kept[k]]]
  BY SameCardinality, Zenon DEF Due!cancel
<1>2. queue_ \in Seq(DueEntries) /\ Len(queue_) \in Nat /\ poll_depth_ \in Nat
  BY DueTyped, Zenon DEF DueInv
<1>3. n \in Nat /\ n <= Len(queue_)
  <2>1. /\ IsFiniteSet(1 .. Len(queue_))
        /\ Cardinality(1 .. Len(queue_)) = IF 1 > Len(queue_) THEN 0 ELSE Len(queue_) - 1 + 1
    <3>1. 1 \in Int /\ Len(queue_) \in Int
      BY <1>2, SMTT(60)
    <3> QED
      BY <3>1, FS_Interval, ZenonT(60)
  <2>2. \A m \in Nat : (IF 1 > m THEN 0 ELSE m - 1 + 1) = m
    OBVIOUS
  <2>3. Due!Others(t) \in SUBSET (1 .. Len(queue_))
    BY Zenon DEF Due!Others
  <2>4. IsFiniteSet(Due!Others(t)) /\ n <= Cardinality(1 .. Len(queue_))
    BY <2>1, <2>3, FS_Subset, ZenonT(60)
  <2>5. n \in Nat
    BY <2>4, FS_CardinalityType, ZenonT(60)
  <2> QED
    BY <1>2, <2>1, <2>2, <2>4, <2>5, ZenonT(60)
<1>4. queue_' \in [1 .. n -> DueEntries]
  <2>1. \A k \in 1 .. n : kept[k] \in 1 .. Len(queue_)
    BY <1>1, Zenon DEF Due!Others
  <2>2. \A i \in 1 .. Len(queue_) : queue_[i] \in DueEntries
    BY <1>2, SeqFacts, ZenonT(60)
  <2>3. DOMAIN kept = 1 .. n
    BY <1>1, Zenon
  <2> HIDE DEF n
  <2> QED
    BY <1>1, <2>1, <2>2, <2>3, ZenonT(60)
<1> HIDE DEF n
<1>5. queue_' \in Seq(DueEntries) /\ Len(queue_') = n
  BY <1>3, <1>4, SMTT(60)
<1>6. Len(queue_') + poll_depth_ <= Capacity
  <2>1. Len(queue_) + poll_depth_ <= Capacity
    BY Zenon DEF DueInv
  <2> QED
    BY <1>2, <1>3, <1>5, <2>1, SchedulerAssumption, SMTT(60)
<1>7. UNCHANGED <<poll_depth_, due_stack>> /\ tick' \in 0 .. MaxTick
  BY Zenon DEF DueInv, Due!TypeOK, Due!cancel
<1> QED
  BY <1>5, <1>6, <1>7, QueueMoves, ZenonT(60)

\* The innermost frame is a frame.
LEMMA DueTop ==
  ASSUME Due!TypeOK, due_stack # <<>>
  PROVE  /\ Due!Top \in Due!Frames /\ Due!Top = due_stack[Len(due_stack)]
         /\ \A x : Append(Due!Below, x) = Swap(due_stack, x)
<1>1. due_stack \in Seq(Due!Frames)
  BY DueTyped, Zenon
<1>2. due_stack[Len(due_stack)] \in Due!Frames
  BY <1>1, PopFacts, ZenonT(60)
<1> QED
  BY <1>2, Zenon DEF Due!Top, Due!Below, Swap

LEMMA RunDueKeeps ==
  ASSUME MaxDispatches \in Nat, DueInv, Due!run_due
  PROVE  DueInv'
<1>1. PICK x : x = Due!Loop(tick, MaxDispatches)
  BY Zenon
<1>2. x \in Due!Frames /\ ~x.polling
  <2>1. tick \in 0 .. MaxTick /\ MaxDispatches \in 0 .. MaxDispatches
    BY DEF DueInv, Due!TypeOK
  <2> QED
    BY <1>1, <2>1, SMTT(60) DEF Due!Loop, Due!Frames
<1>3. /\ due_stack \in Seq(Due!Frames) /\ Len(due_stack) \in Nat
      /\ queue_ \in Seq(DueEntries)
  BY DueTyped, Zenon DEF DueInv
<1>4. due_stack' = Append(due_stack, x) /\ Len(due_stack) < MaxDepth
  BY <1>1, Zenon DEF Due!run_due
<1>5. due_stack' \in Seq(Due!Frames) /\ Len(due_stack') = Len(due_stack) + 1
  BY <1>2, <1>3, <1>4, Appended, ZenonT(60)
<1>6. Len(due_stack') <= MaxDepth
  BY <1>3, <1>4, <1>5, SchedulerAssumption, SMTT(60)
<1>7. Polls(due_stack') = Polls(due_stack)
  BY <1>2, <1>3, <1>4, PollsPush, ZenonT(60)
<1>8. /\ queue_' \in Seq(DueEntries) /\ poll_depth_' = Cardinality(Polls(due_stack'))
      /\ tick' \in 0 .. MaxTick /\ Len(queue_') + poll_depth_' <= Capacity
  BY <1>3, <1>7, ZenonT(60) DEF DueInv, Due!TypeOK, Due!run_due
<1> QED
  BY <1>5, <1>6, <1>8, DueKept, ZenonT(60)

LEMMA RunDueReturnsKeeps ==
  ASSUME DueInv, Due!run_due_returns
  PROVE  DueInv'
<1>1. due_stack # <<>> /\ ~Due!Top.polling /\ due_stack' = SubSeq(due_stack, 1, Len(due_stack) - 1)
  BY Zenon DEF Due!run_due_returns, Due!InLoop, Due!Below
<1>2. due_stack \in Seq(Due!Frames) /\ queue_ \in Seq(DueEntries) /\ Due!TypeOK
  BY DueTyped, ZenonT(60) DEF DueInv
<1>3. ~due_stack[Len(due_stack)].polling
  BY <1>1, Zenon DEF Due!Top
<1>4. /\ due_stack' \in Seq(Due!Frames) /\ Len(due_stack') = Len(due_stack) - 1
      /\ Len(due_stack) \in Nat
  BY <1>1, <1>2, PopFacts, ZenonT(60)
<1>5. Len(due_stack') <= MaxDepth
  <2>1. Len(due_stack) <= MaxDepth
    BY <1>2, Zenon DEF Due!TypeOK
  <2> QED
    BY <1>4, <2>1, SchedulerAssumption, SMTT(60)
<1>6. Polls(due_stack') = Polls(due_stack)
  BY <1>1, <1>2, <1>3, PollsPop, ZenonT(60)
<1>7. /\ queue_' \in Seq(DueEntries) /\ poll_depth_' = Cardinality(Polls(due_stack'))
      /\ tick' \in 0 .. MaxTick /\ Len(queue_') + poll_depth_' <= Capacity
  BY <1>2, <1>6, ZenonT(60) DEF DueInv, Due!TypeOK, Due!run_due_returns
<1> QED
  BY <1>4, <1>5, <1>7, DueKept, ZenonT(60)

\* The task is taken off the queue before its poll starts: one entry less, one
\* poll more.
LEMMA DispatchKeeps ==
  ASSUME MaxDispatches \in Nat, DueInv, Due!Dispatch
  PROVE  DueInv'
<1>1. PICK i \in 1 .. Len(queue_) :
        /\ queue_' = Due!Without(i)
        /\ due_stack' = Append(Due!Below, Due!InPoll(Due!Loop(Due!Top.now, Due!Top.left - 1),
                                                     queue_[i].task))
  BY Zenon DEF Due!Dispatch
<1>2. /\ due_stack # <<>> /\ ~Due!Top.polling /\ Due!Top.left > 0 /\ Due!TypeOK
      /\ poll_depth_' = poll_depth_ + 1 /\ tick' \in 0 .. MaxTick
  BY Zenon DEF Due!Dispatch, Due!InLoop, DueInv, Due!TypeOK
<1>3. /\ due_stack \in Seq(Due!Frames) /\ queue_ \in Seq(DueEntries) /\ Len(queue_) \in Nat
      /\ poll_depth_ \in Nat
  BY <1>2, DueTyped, ZenonT(60)
<1>4. PICK x : x = Due!InPoll(Due!Loop(Due!Top.now, Due!Top.left - 1), queue_[i].task)
  BY Zenon
<1>5. x \in Due!Frames /\ x.polling
  <2>1. Due!Top.now \in 0 .. MaxTick /\ Due!Top.left \in 0 .. MaxDispatches
    BY <1>2, DueTop, Zenon DEF Due!Frames
  <2>2. Due!Top.left - 1 \in 0 .. MaxDispatches
    <3>1. \A k \in 0 .. MaxDispatches : k > 0 => k - 1 \in 0 .. MaxDispatches
      BY MaxDispatches \in Nat
    <3> QED
      BY <1>2, <2>1, <3>1, Zenon
  <2>3. queue_[i].task \in Tasks
    <3>1. queue_[i] \in DueEntries
      BY <1>1, <1>3, SeqFacts, ZenonT(60)
    <3> QED
      BY <3>1, Zenon DEF DueEntries
  <2> QED
    BY <1>4, <2>1, <2>2, <2>3, ZenonT(60) DEF Due!InPoll, Due!Loop, Due!Frames
<1>6. due_stack' = Swap(due_stack, x)
  BY <1>1, <1>2, <1>4, DueTop, ZenonT(60)
<1>7. due_stack' \in Seq(Due!Frames) /\ Len(due_stack') = Len(due_stack)
  BY <1>2, <1>3, <1>5, <1>6, SwapFacts, ZenonT(60)
<1>8. Polls(due_stack') = Polls(due_stack) \cup {Len(due_stack)}
  BY <1>2, <1>3, <1>5, <1>6, PollsSwap, Zenon
<1>9. Cardinality(Polls(due_stack')) = Cardinality(Polls(due_stack)) + 1
  <2>1. IsFiniteSet(Polls(due_stack))
    BY <1>3, PollsBounded, ZenonT(60)
  <2>2. Len(due_stack) \notin Polls(due_stack)
    BY <1>2, DueTop, ZenonT(60) DEF Polls
  <2> QED
    BY <1>8, <2>1, <2>2, FS_AddElement, ZenonT(60)
<1>10. queue_' \in Seq(DueEntries) /\ Len(queue_') = Len(queue_) - 1
  <2>1. queue_' = Without(queue_, i)
    BY <1>1, Zenon DEF Due!Without, Without
  <2> QED
    BY <1>1, <1>3, <2>1, WithoutFacts, ZenonT(60)
<1>11. Len(queue_') + poll_depth_' <= Capacity
  <2>1. Len(queue_) + poll_depth_ <= Capacity
    BY Zenon DEF DueInv
  <2>2. \A m, n \in Nat : (m - 1) + (n + 1) = m + n
    OBVIOUS
  <2> QED
    BY <1>2, <1>3, <1>10, <2>1, <2>2, ZenonT(60)
<1>12. Len(due_stack') <= MaxDepth /\ poll_depth_' = Cardinality(Polls(due_stack'))
  BY <1>2, <1>7, <1>9, ZenonT(60) DEF DueInv, Due!TypeOK
<1> QED
  BY <1>2, <1>7, <1>10, <1>11, <1>12, DueKept, ZenonT(60)

\* The slot a poll kept back takes the entry it re-arms.
LEMMA PollReturnsKeeps ==
  ASSUME DueInv, Due!PollReturns
  PROVE  DueInv'
<1>1. /\ due_stack # <<>> /\ Due!Top.polling /\ Due!TypeOK
      /\ poll_depth_' = poll_depth_ - 1 /\ tick' \in 0 .. MaxTick
      /\ due_stack' = Append(Due!Below, Due!Loop(Due!Top.now, Due!Top.left))
  BY Zenon DEF Due!PollReturns, DueInv, Due!TypeOK
<1>2. /\ due_stack \in Seq(Due!Frames) /\ queue_ \in Seq(DueEntries) /\ Len(queue_) \in Nat
      /\ poll_depth_ \in Nat
  BY <1>1, DueTyped, ZenonT(60)
<1>3. PICK x : x = Due!Loop(Due!Top.now, Due!Top.left)
  BY Zenon
<1>4. x \in Due!Frames /\ ~x.polling
  <2>1. Due!Top.now \in 0 .. MaxTick /\ Due!Top.left \in 0 .. MaxDispatches
    BY <1>1, DueTop, ZenonT(60) DEF Due!Frames
  <2> QED
    BY <1>3, <2>1, SMTT(60) DEF Due!Loop, Due!Frames
<1>5. due_stack' = Swap(due_stack, x)
  <2>1. due_stack' = Append(Due!Below, x)
    BY <1>1, <1>3, ZenonT(60)
  <2> QED
    BY <1>1, <2>1, DueTop, ZenonT(60)
<1>6. due_stack' \in Seq(Due!Frames) /\ Len(due_stack') = Len(due_stack)
  <2>1. due_stack # <<>>
    BY <1>1, Zenon
  <2> QED
    BY <1>2, <1>4, <1>5, <2>1, SwapFacts, ZenonT(60)
<1>7. Polls(due_stack') = Polls(due_stack) \ {Len(due_stack)}
  BY <1>1, <1>2, <1>4, <1>5, PollsSwap, Zenon
<1>8. Cardinality(Polls(due_stack')) = Cardinality(Polls(due_stack)) - 1
  <2>1. IsFiniteSet(Polls(due_stack))
    BY <1>2, PollsBounded, ZenonT(60)
  <2>2. Len(due_stack) \in Nat /\ Len(due_stack) > 0
    BY <1>1, <1>2, PopFacts, ZenonT(60)
  <2>3. Len(due_stack) \in 1 .. Len(due_stack)
    BY <2>2, SMTT(60)
  <2>4. Len(due_stack) \in Polls(due_stack)
    BY <1>1, <2>3, DueTop, ZenonT(60) DEF Polls
  <2> QED
    BY <1>7, <2>1, <2>4, FS_RemoveElement, Zenon
<1>9. queue_' \in Seq(DueEntries) /\ (Len(queue_') = Len(queue_) \/ Len(queue_') = Len(queue_) + 1)
  <2>1. CASE UNCHANGED queue_
    BY <1>2, <2>1, ZenonT(60)
  <2>2. CASE \E d \in Due!Deadlines : queue_' = Append(queue_, Due!Entry(Due!Top.task, d))
    <3>1. Due!Top.task \in Tasks
      BY <1>1, DueTop, Zenon DEF Due!Frames
    <3> QED
      BY <1>1, <2>2, <3>1, PushedEntry, ZenonT(60)
  <2> QED
    BY <2>1, <2>2, Zenon DEF Due!PollReturns
<1>10. Len(queue_') + poll_depth_' <= Capacity
  <2>1. Len(queue_) + poll_depth_ <= Capacity
    BY Zenon DEF DueInv
  <2>2. \A m, n \in Nat : m + n <= Capacity => m + (n - 1) <= Capacity /\ (m + 1) + (n - 1) <= Capacity
    BY SchedulerAssumption, SMTT(60)
  <2> QED
    BY <1>1, <1>2, <1>9, <2>1, <2>2, ZenonT(60)
<1>11. Len(due_stack') <= MaxDepth /\ poll_depth_' = Cardinality(Polls(due_stack'))
  BY <1>1, <1>6, <1>8, ZenonT(60) DEF DueInv, Due!TypeOK
<1> QED
  BY <1>1, <1>6, <1>9, <1>10, <1>11, DueKept, ZenonT(60)

(***************************************************************************)
(* However the tasks nest run_due, schedule, cancel and clear, the queue   *)
(* has a free slot for every poll on the stack: the push that re-arms a    *)
(* task after its poll never finds the queue full                          *)
(* (coro/deadline_scheduler.hpp:158-160, 174-175, 205-209).                *)
(***************************************************************************)
THEOREM RearmSafe ==
  ASSUME MaxTick \in Nat, MaxDispatches \in Nat
  PROVE  Due!Spec => [](Due!TypeOK /\ Due!RearmFits)
<1>1. Due!Init => DueInv
  <2> SUFFICES ASSUME Due!Init
               PROVE  DueInv
    BY Zenon
  <2>1. queue_ = <<>> /\ poll_depth_ = 0 /\ due_stack = <<>> /\ tick = 0
    BY Zenon DEF Due!Init
  <2>2. Polls(due_stack) = {}
    BY <2>1, SMTT(60) DEF Polls
  <2>3. Cardinality(Polls(due_stack)) = 0
    BY <2>2, FS_EmptySet, SMTT(60)
  <2>4. Due!TypeOK
    BY <2>1, SchedulerAssumption, SMTT(60) DEF Due!TypeOK
  <2>5. Len(queue_) + poll_depth_ <= Capacity
    BY <2>1, SchedulerAssumption, SMTT(60)
  <2> QED
    BY <2>1, <2>3, <2>4, <2>5, ZenonT(60) DEF DueInv
<1>2. DueInv /\ [Due!Next]_(Due!vars) => DueInv'
  <2> SUFFICES ASSUME DueInv, [Due!Next]_(Due!vars)
               PROVE  DueInv'
    BY Zenon
  <2>1. ASSUME NEW t \in Tasks, NEW d \in Due!Deadlines, Due!try_schedule(t, d)
        PROVE  DueInv'
    BY <2>1, ScheduleKeeps, Zenon
  <2>2. ASSUME NEW t \in Tasks, Due!cancel(t)
        PROVE  DueInv'
    BY <2>2, CancelKeeps, ZenonT(60)
  <2>3. CASE Due!try_schedule_fails \/ UNCHANGED Due!vars
    BY <2>3, Zenon DEF Due!try_schedule_fails, Due!vars, DueInv, Due!TypeOK, Polls, Due!Frames,
      Due!Ticks
  <2>4. CASE Due!clear
    <3>1. /\ queue_' = <<>> /\ UNCHANGED <<poll_depth_, due_stack>> /\ tick' \in 0 .. MaxTick
      BY <2>4, Zenon DEF Due!clear, DueInv, Due!TypeOK
    <3>2. queue_' \in Seq(DueEntries) /\ Len(queue_') = 0
      BY <3>1, SMTT(60)
    <3>3. Len(queue_) \in Nat /\ poll_depth_ \in Nat /\ Len(queue_) + poll_depth_ <= Capacity
      BY DueTyped, Zenon DEF DueInv
    <3>4. Len(queue_') + poll_depth_ <= Capacity
      BY <3>2, <3>3, SchedulerAssumption, SMTT(60)
    <3> QED
      BY <3>1, <3>2, <3>4, QueueMoves, ZenonT(60)
  <2>5. CASE Due!run_due
    BY <2>5, RunDueKeeps, ZenonT(60)
  <2>6. CASE Due!Dispatch
    BY <2>6, DispatchKeeps, ZenonT(60)
  <2>7. CASE Due!PollReturns
    BY <2>7, PollReturnsKeeps, ZenonT(60)
  <2>8. CASE Due!run_due_returns
    BY <2>8, RunDueReturnsKeeps, ZenonT(60)
  <2>9. CASE Due!Tick
    <3>1. queue_' = queue_ /\ UNCHANGED <<poll_depth_, due_stack>> /\ queue_ \in Seq(DueEntries)
      BY <2>9, DueTyped, ZenonT(60) DEF Due!Tick, DueInv
    <3>2. tick \in 0 .. MaxTick /\ tick < MaxTick /\ tick' = tick + 1
      BY <2>9, Zenon DEF Due!Tick, DueInv, Due!TypeOK
    <3>3. tick' \in 0 .. MaxTick
      BY <3>2, SMTT(60)
    <3>4. Len(queue_') + poll_depth_ <= Capacity
      BY <3>1, Zenon DEF DueInv
    <3> QED
      BY <3>1, <3>3, <3>4, QueueMoves, ZenonT(60)
  <2> QED
    BY <2>1, <2>2, <2>3, <2>4, <2>5, <2>6, <2>7, <2>8, <2>9, ZenonT(60) DEF Due!Next
<1>3. DueInv => Due!TypeOK /\ Due!RearmFits
  <2>1. Due!PollsOnStack = Polls(due_stack)
    BY Zenon DEF Due!PollsOnStack, Polls
  <2> QED
    BY <2>1, SameCardinality, ZenonT(60) DEF DueInv, Due!RearmFits
<1> QED
  BY <1>1, <1>2, <1>3, PTL DEF Due!Spec

=============================================================================
