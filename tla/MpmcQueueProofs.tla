-------------------------- MODULE MpmcQueueProofs ---------------------------
(***************************************************************************)
(* Proofs about MpmcQueue for every width of the ticket type, every        *)
(* capacity and every number of producers and consumers.                   *)
(*                                                                         *)
(* The argument follows the last Capacity tickets issued to producers, one *)
(* for each cell.  Those from dequeue_pos_ on are filled: claimed by a     *)
(* producer that has not published yet, or published.  The ones before it  *)
(* are vacated: claimed by a consumer that has not released the cell yet,  *)
(* or released.  A cell's sequence number says which, and the thread that  *)
(* has claimed the cell is the only one that may change it.  A thread that *)
(* has seen its turn and finds the counter where it loaded it claims the   *)
(* cell in that state, since the counter has not come round: that is what  *)
(* MaxStall < Wrap says.                                                   *)
(***************************************************************************)
EXTENDS MpmcQueue, TLAPS

\* Elements claimed by producers and not by consumers.
Size == Minus(enqueue_pos_, dequeue_pos_)

Filled(i) == FilledIn(enqueue_pos_, dequeue_pos_, i)

Vacated(i) == VacatedIn(enqueue_pos_, dequeue_pos_, i)

\* A producer, a consumer that has claimed its ticket.
Pushing(p) == pc[p] \in {"construct", "publish"}

Popping(c) == pc[c] \in {"move", "release"}

Labels == {"idle", "sequence", "claim", "reload", "construct", "publish", "move", "release"}

Typed == TypeOK /\ pc \in [Threads -> Labels]

\* The threads that have claimed a cell: where their tickets are, and whose
\* turn the cell's sequence number says it is.
OwnersInv ==
  /\ \A p \in Producers : Pushing(p) =>
       Filled(pos[p]) /\ sequence[Slot(pos[p])] = pos[p]
  /\ \A c \in Consumers : Popping(c) =>
       Vacated(pos[c]) /\ sequence[Slot(pos[c])] = Plus(pos[c], 1)
  /\ \A p, q \in Producers : Pushing(p) /\ Pushing(q) /\ pos[p] = pos[q] => p = q
  /\ \A c, d \in Consumers : Popping(c) /\ Popping(d) /\ pos[c] = pos[d] => c = d

\* Every cell: unpublished exactly while a producer has it, and unreleased
\* exactly while a consumer has it.
TurnsInv ==
  /\ \A i \in Index : Filled(i) =>
       \/ sequence[Slot(i)] = Plus(i, 1)
       \/ sequence[Slot(i)] = i /\ \E p \in Producers : Pushing(p) /\ pos[p] = i
  /\ \A i \in Index : Vacated(i) =>
       \/ sequence[Slot(i)] = Plus(i, Capacity)
       \/ sequence[Slot(i)] = Plus(i, 1) /\ \E c \in Consumers : Popping(c) /\ pos[c] = i

\* A thread that has seen its turn, if nobody has claimed the ticket since.
ClaimsInv ==
  /\ \A p \in Producers : pc[p] = "claim" /\ pos[p] = enqueue_pos_ =>
       sequence[Slot(pos[p])] = pos[p]
  /\ \A c \in Consumers : pc[c] = "claim" /\ pos[c] = dequeue_pos_ =>
       sequence[Slot(pos[c])] = Plus(pos[c], 1)

RingInv == Typed /\ Size <= Capacity /\ OwnersInv /\ TurnsInv /\ ClaimsInv

-----------------------------------------------------------------------------
(***************************************************************************)
(* Tickets and the sequence numbers they are compared with.                *)
(***************************************************************************)
\* Successive tickets have different cells, and different tickets different
\* successors.
LEMMA Successors ==
  ASSUME NEW i \in Index, NEW j \in Index
  PROVE  /\ Slot(Plus(i, 1)) # Slot(i)
         /\ Plus(i, 1) = Plus(j, 1) => i = j
<1>1. 1 \in Index /\ Plus(i, 1) \in Index
  BY Constants, TurnsDiffer, SMT DEF Index
<1>2. /\ Plus(i, 1) = IF i + 1 < Wrap THEN i + 1 ELSE i + 1 - Wrap
      /\ Plus(j, 1) = IF j + 1 < Wrap THEN j + 1 ELSE j + 1 - Wrap
      /\ Minus(Plus(i, 1), i) = IF Plus(i, 1) >= i THEN Plus(i, 1) - i ELSE Plus(i, 1) - i + Wrap
  BY <1>1, PlusCases, MinusCases, Zenon
<1>3. Minus(Plus(i, 1), i) = 1
  BY <1>2, Constants, SMT DEF Index
<1>4. Slot(Plus(i, 1)) # Slot(i)
  BY <1>1, <1>3, Constants, SlotsDistinctInWindow, SMTT(60)
<1>5. Plus(i, 1) = Plus(j, 1) => i = j
  BY <1>2, Constants, SMT DEF Index
<1> QED
  BY <1>4, <1>5, Zenon

\* The ticket comparison finds equality exactly (compare_tickets,
\* detail/index_distance.hpp).
LEMMA CompareZero ==
  ASSUME NEW a \in Index, NEW b \in Index, compare_tickets(a, b) = 0
  PROVE  a = b
<1>1. Minus(a, b) = 0
  BY SMT DEF compare_tickets
<1> QED
  BY <1>1, MinusZero, Zenon

-----------------------------------------------------------------------------
(***************************************************************************)
(* The invariant of the ring.                                              *)
(***************************************************************************)
USE DEF Size, Filled, Vacated

\* A producer that wins the compare-exchange claims a cell that is free: the
\* ring is not full, and no consumer still has the cell.
LEMMA PushClaimsFree ==
  ASSUME RingInv, NEW p \in Producers, PushClaim(p)
  PROVE  /\ Size < Capacity
         /\ sequence[Slot(enqueue_pos_)] = enqueue_pos_
         /\ Slot(Minus(enqueue_pos_, Capacity)) = Slot(enqueue_pos_)
         /\ \A c \in Consumers : Popping(c) => pos[c] # Minus(enqueue_pos_, Capacity)
<1> DEFINE e == enqueue_pos_
           d == dequeue_pos_
<1>1. e \in Index /\ d \in Index /\ Minus(e, d) \in Index /\ Minus(e, d) <= Capacity
  BY IndexClosed, Zenon DEF RingInv, Typed, TypeOK
<1>2. sequence[Slot(e)] = e
  BY Zenon DEF PushClaim, RingInv, ClaimsInv
<1>3. Slot(Minus(e, Capacity)) = Slot(e)
  BY <1>1, SlotAdvance, Zenon
<1>4. Minus(e, d) # Capacity
  <2> SUFFICES ASSUME Minus(e, d) = Capacity PROVE FALSE
    BY Zenon
  <2>1. d = Minus(e, Capacity) /\ FilledIn(e, d, d)
    <3>1. Capacity \in Index
      BY Constants, SMT DEF Index
    <3>2. /\ Minus(e, d) = IF e >= d THEN e - d ELSE e - d + Wrap
          /\ Minus(e, Capacity) = IF e >= Capacity THEN e - Capacity ELSE e - Capacity + Wrap
          /\ Minus(d, d) = 0
      BY <1>1, <3>1, MinusCases, MinusZero, Zenon
    <3> QED
      BY <1>1, <3>2, Constants, SMTT(60) DEF Index, FilledIn
  <2>2. sequence[Slot(e)] = Plus(d, 1) \/ sequence[Slot(e)] = d
    BY <1>1, <1>3, <2>1, Zenon DEF RingInv, TurnsInv
  <2> QED
    BY <1>1, <1>2, <2>1, <2>2, TurnsDiffer, SMTT(60)
<1>5. ASSUME NEW c \in Consumers, Popping(c), pos[c] = Minus(e, Capacity)
      PROVE  FALSE
  <2>1. sequence[Slot(e)] = Plus(Minus(e, Capacity), 1)
    BY <1>3, <1>5, Zenon DEF RingInv, OwnersInv
  <2> QED
    BY <1>1, <1>2, <2>1, TurnsDiffer, Zenon
<1> QED
  BY <1>1, <1>2, <1>3, <1>4, <1>5, Constants, SMTT(60) DEF Index

\* A consumer that wins the compare-exchange claims a published element.
LEMMA PopClaimsPublished ==
  ASSUME RingInv, NEW c \in Consumers, PopClaim(c)
  PROVE  /\ 0 < Size
         /\ sequence[Slot(dequeue_pos_)] = Plus(dequeue_pos_, 1)
         /\ \A p \in Producers : Pushing(p) => pos[p] # dequeue_pos_
<1> DEFINE e == enqueue_pos_
           d == dequeue_pos_
<1>1. e \in Index /\ d \in Index /\ Minus(e, d) \in Index /\ Minus(e, d) <= Capacity
  BY IndexClosed, Zenon DEF RingInv, Typed, TypeOK
<1>2. sequence[Slot(d)] = Plus(d, 1)
  BY Zenon DEF PopClaim, RingInv, ClaimsInv
<1>3. Minus(e, d) # 0
  <2> SUFFICES ASSUME Minus(e, d) = 0 PROVE FALSE
    BY Zenon
  <2> DEFINE j == Minus(d, Capacity)
  <2>1. e = d /\ j \in Index /\ Slot(j) = Slot(d)
    BY <1>1, MinusZero, SlotAdvance, TurnsDiffer, SMTT(60)
  <2>2. VacatedIn(e, d, j)
    BY <1>1, <2>1, PushShift, Constants, SMTT(60)
  <2>3. sequence[Slot(d)] = Plus(j, 1) \/ sequence[Slot(d)] = Plus(j, Capacity)
    BY <2>1, <2>2, Zenon DEF RingInv, TurnsInv
  <2> QED
    BY <1>1, <1>2, <2>3, TurnsDiffer, SMTT(60)
<1>4. ASSUME NEW p \in Producers, Pushing(p), pos[p] = d
      PROVE  FALSE
  BY <1>1, <1>2, <1>4, TurnsDiffer, Zenon DEF RingInv, OwnersInv
<1> QED
  BY <1>1, <1>2, <1>3, <1>4, SMTT(60) DEF Index

LEMMA RingInit == Init => RingInv
<1>TypedInit. Init => Typed
  <2> SUFFICES ASSUME Init PROVE Typed
    BY Zenon
  <2>1. 0 \in Index /\ \A i \in Slots : i \in Index
    BY Constants, SMTT(60) DEF Index, Slots
  <2> QED
    BY <2>1, Zenon DEF Init, Typed, TypeOK, Threads, Labels
<1> SUFFICES ASSUME Init PROVE RingInv
  BY Zenon
<1>1. 0 \in Index /\ Capacity \in Index
  BY Constants, SMT DEF Index
<1>2. Minus(0, 0) = 0
  BY <1>1, MinusZero, Zenon
<1>3. Typed /\ Size <= Capacity
  BY <1>2, <1>TypedInit, Constants, SMTT(60) DEF Init
<1>4. \A i \in Index : ~Filled(i)
  <2>1. \A i \in Index : Minus(i, 0) \in Index
    BY <1>1, IndexClosed, Zenon
  <2> QED
    BY <2>1, <1>2, SMTT(60) DEF Init, FilledIn, Index
<1>5. ASSUME NEW i \in Index, Vacated(i)
      PROVE  sequence[Slot(i)] = Plus(i, Capacity)
  <2>1. Minus(0, i) \in 1 .. Capacity
    BY <1>2, <1>5, Constants, SMTT(60) DEF Init, VacatedIn
  <2>2. Minus(0, i) = IF 0 >= i THEN 0 - i ELSE 0 - i + Wrap
    BY <1>1, MinusCases, Zenon
  <2>3. Plus(i, Capacity) = IF i + Capacity < Wrap THEN i + Capacity ELSE i + Capacity - Wrap
    BY <1>1, PlusCases, Zenon
  <2>4. Plus(i, Capacity) \in Slots
    BY <2>1, <2>2, <2>3, Constants, SMTT(60) DEF Index, Slots
  <2>5. Slot(Plus(i, Capacity)) = Plus(i, Capacity)
    BY <2>4, Constants, SMTT(60), ModUnique DEF Slot, Slots
  <2>6. Slot(i) = Plus(i, Capacity)
    BY <2>5, SlotAdvance, Zenon
  <2> QED
    BY <2>4, <2>6, Zenon DEF Init
<1>6. OwnersInv /\ ClaimsInv
  BY Zenon DEF Init, OwnersInv, ClaimsInv, Pushing, Popping, Threads
<1> QED
  BY <1>3, <1>4, <1>5, <1>6, Zenon DEF RingInv, TurnsInv

LEMMA RingStep == MaxStall < Wrap /\ RingInv /\ [Next]_vars => RingInv'
\* Every step keeps the state well typed.
<1>TypedStep. Typed /\ [Next]_vars => Typed'
  <2> SUFFICES ASSUME Typed, [Next]_vars PROVE Typed'
    BY Zenon
  <2> USE MpmcAssumption DEF Typed, TypeOK, Threads, Labels
  <2>1. /\ \A i \in Index : Slot(i) \in Slots /\ Plus(i, 1) \in Index /\ Plus(i, Capacity) \in Index
        /\ 0 \in Index
    BY SlotInRange, TurnsDiffer, Constants DEF Index
  <2>2. ASSUME NEW p \in Producers, ProducerStep(p)
        PROVE  Typed'
    <3>1. ASSUME NEW v \in Values, TryPush(p, v) PROVE Typed'
      BY <3>1, Zenon DEF TryPush, Goto
    <3>2. CASE PushLoadSequence(p)
      <4>1. \/ Goto(p, "claim") /\ UNCHANGED <<pos, val>>
            \/ Return(p, FALSE)
            \/ Goto(p, "reload") /\ UNCHANGED <<pos, val>>
        BY <3>2, Zenon DEF PushLoadSequence
      <4>2. UNCHANGED <<enqueue_pos_, dequeue_pos_, sequence, storage, alive>>
        BY <3>2, Zenon DEF PushLoadSequence
      <4>3. CASE Return(p, FALSE)
        <5>1. /\ pc' = [pc EXCEPT ![p] = "idle"] /\ pos' = [pos EXCEPT ![p] = 0]
              /\ val' = [val EXCEPT ![p] = NoValue]
          BY <4>3, Zenon DEF Return
        <5> QED
          BY <4>2, <5>1, <2>1, Zenon
      <4>4. CASE Goto(p, "claim") /\ UNCHANGED <<pos, val>>
        BY <4>2, <4>4, Zenon DEF Goto
      <4>5. CASE Goto(p, "reload") /\ UNCHANGED <<pos, val>>
        BY <4>2, <4>5, Zenon DEF Goto
      <4> QED
        BY <4>1, <4>3, <4>4, <4>5, Zenon
    <3>3. CASE PushReload(p)
      BY <3>3, Zenon DEF PushReload, Goto
    <3>4. CASE PushClaim(p)
      BY <3>4, <2>1, ZenonT(60) DEF PushClaim, Goto
    <3>5. CASE PushClaimFails(p)
      BY <3>5, Zenon DEF PushClaimFails, Goto
    <3>6. CASE Construct(p)
      BY <3>6, <2>1, Zenon DEF Construct, Goto
    <3>7. CASE Publish(p)
      BY <3>7, <2>1, ZenonT(60) DEF Publish, Return
    <3> QED
      BY <2>2, <3>1, <3>2, <3>3, <3>4, <3>5, <3>6, <3>7, ZenonT(60) DEF ProducerStep
  <2>3. ASSUME NEW c \in Consumers, ConsumerStep(c)
        PROVE  Typed'
    <3>1. CASE TryPop(c)
      BY <3>1, Zenon DEF TryPop, Goto
    <3>2. CASE PopLoadSequence(c)
      BY <3>2, <2>1 DEF PopLoadSequence, Goto, Return
    <3>3. CASE PopReload(c)
      BY <3>3, Zenon DEF PopReload, Goto
    <3>4. CASE PopClaim(c)
      BY <3>4, <2>1, ZenonT(60) DEF PopClaim, Goto
    <3>5. CASE PopClaimFails(c)
      BY <3>5, Zenon DEF PopClaimFails, Goto
    <3>6. CASE MoveOut(c)
      BY <3>6, <2>1, Zenon DEF MoveOut, Goto
    <3>7. CASE Release(c)
      BY <3>7, <2>1, Zenon DEF Release, Return
    <3> QED
      BY <2>3, <3>1, <3>2, <3>3, <3>4, <3>5, <3>6, <3>7, ZenonT(60) DEF ConsumerStep
  <2>4. CASE Destroy
    BY <2>4, Zenon DEF Destroy
  <2>5. CASE UNCHANGED vars
    BY <2>5, Zenon DEF vars
  <2> QED
    BY <2>2, <2>3, <2>4, <2>5, Zenon DEF Next
\* A step of one thread that changes neither the counters nor a sequence
\* number, and neither claims a cell nor gives one up.
<1>QuietStep. ASSUME RingInv, Typed', NEW t \in Threads,
             UNCHANGED <<enqueue_pos_, dequeue_pos_, sequence>>,
             \A u \in Threads \ {t} : pc'[u] = pc[u] /\ pos'[u] = pos[u],
             Pushing(t)' <=> Pushing(t), Popping(t)' <=> Popping(t),
             Pushing(t) \/ Popping(t) => pos'[t] = pos[t],
             pc'[t] = "claim" =>
               sequence[Slot(pos'[t])] = IF t \in Producers THEN pos'[t] ELSE Plus(pos'[t], 1)
      PROVE  RingInv'
  <2> USE <1>QuietStep
  <2> USE MpmcAssumption DEF RingInv, Threads
  <2>1. /\ \A u \in Threads : Pushing(u)' <=> Pushing(u)
        /\ \A u \in Threads : Popping(u)' <=> Popping(u)
        /\ \A u \in Threads : Pushing(u) \/ Popping(u) => pos'[u] = pos[u]
    BY Zenon DEF Pushing, Popping
  <2> HIDE DEF Pushing, Popping
  <2>2. OwnersInv'
    BY <2>1, SMTT(60) DEF OwnersInv
  <2>3. TurnsInv'
    BY <2>1 DEF TurnsInv
  <2>4. ClaimsInv'
    BY ZenonT(60) DEF ClaimsInv
  <2> QED
    BY <2>2, <2>3, <2>4, ZenonT(60)
\* A producer claims a cell: the window moves on by one ticket.
<1>PushClaimStep. ASSUME RingInv, Typed', MaxStall < Wrap, NEW p \in Producers, PushClaim(p)
      PROVE  RingInv'
  <2> USE <1>PushClaimStep
  <2> DEFINE e == enqueue_pos_
             d == dequeue_pos_
  <2> USE MpmcAssumption DEF Threads
  <2>1. e \in Index /\ d \in Index /\ Minus(e, d) \in Index /\ pos \in [Threads -> Index]
    BY IndexClosed, Zenon DEF RingInv, Typed, TypeOK
  <2>2. /\ Minus(e, d) < Capacity /\ sequence[Slot(e)] = e
        /\ \A c \in Consumers : Popping(c) => pos[c] # Minus(e, Capacity)
    BY PushClaimsFree, Zenon
  <2>3. /\ Minus(Plus(e, 1), d) = Minus(e, d) + 1
        /\ \A i \in Index :
             /\ FilledIn(Plus(e, 1), d, i) <=> FilledIn(e, d, i) \/ i = e
             /\ VacatedIn(Plus(e, 1), d, i) <=> VacatedIn(e, d, i) /\ i # Minus(e, Capacity)
        /\ ~FilledIn(e, d, e)
    <3>1. Minus(e, d) <= Capacity
      BY Zenon DEF RingInv
    <3> QED
      BY <2>1, <2>2, <3>1, PushShift, ZonesDisjoint, ZenonT(60)
  <2>4. /\ enqueue_pos_' = Plus(e, 1) /\ dequeue_pos_' = d /\ pos' = pos /\ sequence' = sequence
        /\ pc[p] = "claim" /\ pc'[p] = "construct" /\ pos[p] = e
        /\ \A u \in Threads \ {p} : pc'[u] = pc[u]
    BY Zenon DEF PushClaim, Goto, RingInv, Typed
  <2>5. Pushing(p)' /\ ~Pushing(p)
    BY <2>4, Zenon DEF Pushing
  <2>6. /\ \A u \in Producers \ {p} : Pushing(u)' <=> Pushing(u)
        /\ \A c \in Consumers : Popping(c)' <=> Popping(c)
    BY <2>4, ZenonT(60) DEF Pushing, Popping
  <2>7. Size' <= Capacity
    BY <2>1, <2>2, <2>3, <2>4, Constants, SMTT(60) DEF Index
  <2>8. OwnersInv'
    BY <2>1, <2>2, <2>3, <2>4, <2>5, <2>6, ZenonT(60) DEF RingInv, OwnersInv
  <2>9. TurnsInv'
    <3>1. ASSUME NEW i \in Index, Filled(i)'
          PROVE  \/ sequence'[Slot(i)] = Plus(i, 1)
                 \/ sequence'[Slot(i)] = i /\ \E q \in Producers : Pushing(q)' /\ pos'[q] = i
      BY <2>2, <2>3, <2>4, <2>5, <2>6, <3>1, ZenonT(60) DEF RingInv, TurnsInv
    <3>2. ASSUME NEW i \in Index, Vacated(i)'
          PROVE  \/ sequence'[Slot(i)] = Plus(i, Capacity)
                 \/ sequence'[Slot(i)] = Plus(i, 1) /\ \E c \in Consumers : Popping(c)' /\ pos'[c] = i
      BY <2>3, <2>4, <2>6, <3>2, ZenonT(60) DEF RingInv, TurnsInv
    <3> QED
      BY <3>1, <3>2, Zenon DEF TurnsInv
  <2>10. ClaimsInv'
    <3>1. ASSUME NEW q \in Producers, pc'[q] = "claim", pos'[q] = enqueue_pos_'
          PROVE  FALSE
      <4>1. pc[q] = "claim" /\ pos[q] = Plus(e, 1)
        BY <2>4, <3>1, Zenon
      <4>2. Minus(e, Plus(e, 1)) < MaxStall
        BY <4>1, Zenon DEF PushClaim, StallBounded
      <4>3. Minus(e, Plus(e, 1)) = Wrap - 1
        <5>1. 1 \in Index /\ Plus(e, 1) \in Index
          BY <2>1, Constants, TurnsDiffer, SMTT(60) DEF Index
        <5>2. /\ Plus(e, 1) = IF e + 1 < Wrap THEN e + 1 ELSE e + 1 - Wrap
              /\ Minus(e, Plus(e, 1)) =
                   IF e >= Plus(e, 1) THEN e - Plus(e, 1) ELSE e - Plus(e, 1) + Wrap
          BY <2>1, <5>1, PlusCases, MinusCases, ZenonT(60)
        <5> QED
          BY <2>1, <5>2, Constants, SMTT(60) DEF Index
      <4> QED
        BY <4>2, <4>3, Constants, SMTT(60)
    <3>2. ASSUME NEW c \in Consumers, pc'[c] = "claim", pos'[c] = dequeue_pos_'
          PROVE  sequence'[Slot(pos'[c])] = Plus(pos'[c], 1)
      BY <2>4, <3>2, ZenonT(60) DEF RingInv, ClaimsInv
    <3> QED
      BY <3>1, <3>2, ZenonT(60) DEF ClaimsInv
  <2> QED
    BY <2>7, <2>8, <2>9, <2>10, Zenon DEF RingInv
\* A consumer claims a cell: a filled ticket becomes a vacated one.
<1>PopClaimStep. ASSUME RingInv, Typed', MaxStall < Wrap, NEW c \in Consumers, PopClaim(c)
      PROVE  RingInv'
  <2> USE <1>PopClaimStep
  <2> DEFINE e == enqueue_pos_
             d == dequeue_pos_
  <2> USE MpmcAssumption DEF Threads
  <2>1. /\ e \in Index /\ d \in Index /\ Minus(e, d) \in Index /\ pos \in [Threads -> Index]
        /\ Minus(e, d) <= Capacity
    BY IndexClosed, Zenon DEF RingInv, Typed, TypeOK
  <2>2. /\ 0 < Minus(e, d) /\ sequence[Slot(d)] = Plus(d, 1)
        /\ \A p \in Producers : Pushing(p) => pos[p] # d
    BY PopClaimsPublished, Zenon
  <2>3. /\ Minus(e, Plus(d, 1)) = Minus(e, d) - 1
        /\ \A i \in Index :
             /\ FilledIn(e, Plus(d, 1), i) <=> FilledIn(e, d, i) /\ i # d
             /\ VacatedIn(e, Plus(d, 1), i) <=> VacatedIn(e, d, i) \/ i = d
        /\ ~VacatedIn(e, d, d)
    BY <2>1, <2>2, PopShift, ZonesDisjoint, ZenonT(60)
  <2>4. /\ dequeue_pos_' = Plus(d, 1) /\ enqueue_pos_' = e /\ pos' = pos /\ sequence' = sequence
        /\ pc[c] = "claim" /\ pc'[c] = "move" /\ pos[c] = d
        /\ \A u \in Threads \ {c} : pc'[u] = pc[u]
    BY Zenon DEF PopClaim, Goto, RingInv, Typed
  <2>5. Popping(c)' /\ ~Popping(c)
    BY <2>4, Zenon DEF Popping
  <2>6. /\ \A p \in Producers : Pushing(p)' <=> Pushing(p)
        /\ \A u \in Consumers \ {c} : Popping(u)' <=> Popping(u)
    BY <2>4, ZenonT(60) DEF Pushing, Popping
  <2>7. Size' <= Capacity
    BY <2>1, <2>2, <2>3, <2>4, Constants, SMTT(60) DEF Index
  <2>8. OwnersInv'
    BY <2>1, <2>2, <2>3, <2>4, <2>5, <2>6, ZenonT(60) DEF RingInv, OwnersInv
  <2>9. TurnsInv'
    <3>1. ASSUME NEW i \in Index, Filled(i)'
          PROVE  \/ sequence'[Slot(i)] = Plus(i, 1)
                 \/ sequence'[Slot(i)] = i /\ \E q \in Producers : Pushing(q)' /\ pos'[q] = i
      BY <2>3, <2>4, <2>6, <3>1, Zenon DEF RingInv, TurnsInv
    <3>2. ASSUME NEW i \in Index, Vacated(i)'
          PROVE  \/ sequence'[Slot(i)] = Plus(i, Capacity)
                 \/ sequence'[Slot(i)] = Plus(i, 1) /\ \E u \in Consumers : Popping(u)' /\ pos'[u] = i
      BY <2>2, <2>3, <2>4, <2>5, <2>6, <3>2, SMTT(60) DEF RingInv, TurnsInv
    <3> QED
      BY <3>1, <3>2, Zenon DEF TurnsInv
  <2>10. ClaimsInv'
    <3>1. ASSUME NEW u \in Consumers, pc'[u] = "claim", pos'[u] = dequeue_pos_'
          PROVE  FALSE
      <4>1. pc[u] = "claim" /\ pos[u] = Plus(d, 1)
        BY <2>4, <3>1, Zenon
      <4>2. Minus(d, Plus(d, 1)) < MaxStall
        BY <4>1, Zenon DEF PopClaim, StallBounded
      <4>3. Minus(d, Plus(d, 1)) = Wrap - 1
        <5>1. 1 \in Index /\ Plus(d, 1) \in Index
          BY <2>1, Constants, TurnsDiffer, SMTT(60) DEF Index
        <5>2. /\ Plus(d, 1) = IF d + 1 < Wrap THEN d + 1 ELSE d + 1 - Wrap
              /\ Minus(d, Plus(d, 1)) =
                   IF d >= Plus(d, 1) THEN d - Plus(d, 1) ELSE d - Plus(d, 1) + Wrap
          BY <2>1, <5>1, PlusCases, MinusCases, ZenonT(60)
        <5> QED
          BY <2>1, <5>2, Constants, SMTT(60) DEF Index
      <4> QED
        BY <4>2, <4>3, Constants, SMTT(60)
    <3>2. ASSUME NEW p \in Producers, pc'[p] = "claim", pos'[p] = enqueue_pos_'
          PROVE  sequence'[Slot(pos'[p])] = pos'[p]
      BY <2>4, <3>2, Zenon DEF RingInv, ClaimsInv
    <3> QED
      BY <3>1, <3>2, Zenon DEF ClaimsInv
  <2> QED
    BY <2>7, <2>8, <2>9, <2>10, ZenonT(60) DEF RingInv
\* The producer stores the sequence number of a published cell.
<1>PublishStep. ASSUME RingInv, Typed', NEW p \in Producers, Publish(p)
      PROVE  RingInv'
  <2> USE <1>PublishStep
  <2> DEFINE e == enqueue_pos_
             d == dequeue_pos_
             i == pos[p]
  <2> USE MpmcAssumption DEF Threads
  <2>1. /\ e \in Index /\ d \in Index /\ Minus(e, d) <= Capacity /\ i \in Index
        /\ pos \in [Threads -> Index] /\ sequence \in [Slots -> Index]
        /\ \A j \in Index : Slot(j) \in Slots
    BY SlotInRange, Zenon DEF RingInv, Typed, TypeOK
  <2>2. /\ enqueue_pos_' = e /\ dequeue_pos_' = d
        /\ pc[p] = "publish" /\ pc'[p] = "idle"
        /\ sequence' = [sequence EXCEPT ![Slot(i)] = Plus(i, 1)]
        /\ \A u \in Threads \ {p} : pc'[u] = pc[u] /\ pos'[u] = pos[u]
    BY Zenon DEF Publish, Return, RingInv, Typed, TypeOK
  <2>3. Pushing(p) /\ ~Pushing(p)' /\ Filled(i) /\ sequence[Slot(i)] = i
    BY <2>2, Zenon DEF Pushing, RingInv, OwnersInv
  <2>4. /\ \A u \in Producers \ {p} : Pushing(u)' <=> Pushing(u)
        /\ \A c \in Consumers : Popping(c)' <=> Popping(c)
    BY <2>2, Zenon DEF Pushing, Popping
  <2>5. \A j \in Index : (Filled(j) \/ Vacated(j)) /\ j # i => sequence'[Slot(j)] = sequence[Slot(j)]
    BY <2>1, <2>2, <2>3, ZonesApart, SMTT(60)
  <2>6. /\ sequence'[Slot(i)] = Plus(i, 1)
        /\ ~Vacated(i) /\ i # e
        /\ \A q \in Producers \ {p} : Pushing(q) => pos[q] # i
    BY <2>1, <2>2, <2>3, ZonesDisjoint, SMTT(60) DEF RingInv, OwnersInv
  <2>7. OwnersInv'
    BY <2>1, <2>2, <2>3, <2>4, <2>5, <2>6, SMTT(60) DEF RingInv, OwnersInv
  <2>8. TurnsInv'
    <3>1. ASSUME NEW j \in Index, Filled(j)'
          PROVE  \/ sequence'[Slot(j)] = Plus(j, 1)
                 \/ sequence'[Slot(j)] = j /\ \E q \in Producers : Pushing(q)' /\ pos'[q] = j
      BY <2>2, <2>3, <2>4, <2>5, <2>6, <3>1, SMTT(60) DEF RingInv, TurnsInv
    <3>2. ASSUME NEW j \in Index, Vacated(j)'
          PROVE  \/ sequence'[Slot(j)] = Plus(j, Capacity)
                 \/ sequence'[Slot(j)] = Plus(j, 1) /\ \E c \in Consumers : Popping(c)' /\ pos'[c] = j
      BY <2>2, <2>4, <2>5, <2>6, <3>2, SMTT(60) DEF RingInv, TurnsInv
    <3> QED
      BY <3>1, <3>2, ZenonT(60) DEF TurnsInv
  <2>9. ClaimsInv'
    <3>1. ASSUME NEW q \in Producers, pc'[q] = "claim", pos'[q] = enqueue_pos_'
          PROVE  sequence'[Slot(pos'[q])] = pos'[q]
      <4>1. sequence[Slot(e)] = e /\ pos'[q] = e
        BY <2>2, <3>1, Zenon DEF RingInv, ClaimsInv
      <4> QED
        BY <2>1, <2>2, <2>3, <2>6, <4>1, ZenonT(60)
    <3>2. ASSUME NEW c \in Consumers, pc'[c] = "claim", pos'[c] = dequeue_pos_'
          PROVE  sequence'[Slot(pos'[c])] = Plus(pos'[c], 1)
      <4>1. sequence[Slot(d)] = Plus(d, 1) /\ pos'[c] = d
        BY <2>2, <3>2, Zenon DEF RingInv, ClaimsInv
      <4>2. Slot(d) # Slot(i)
        BY <2>1, <2>3, <4>1, Successors, ZenonT(60)
      <4> QED
        BY <2>1, <2>2, <4>1, <4>2, ZenonT(60)
    <3> QED
      BY <3>1, <3>2, Zenon DEF ClaimsInv
  <2> QED
    BY <2>1, <2>2, <2>7, <2>8, <2>9, ZenonT(60) DEF RingInv
\* The consumer stores the sequence number of the next round.
<1>ReleaseStep. ASSUME RingInv, Typed', NEW c \in Consumers, Release(c)
      PROVE  RingInv'
  <2> USE <1>ReleaseStep
  <2> DEFINE e == enqueue_pos_
             d == dequeue_pos_
             i == pos[c]
  <2> USE MpmcAssumption DEF Threads
  <2>1. /\ e \in Index /\ d \in Index /\ Minus(e, d) <= Capacity /\ i \in Index
        /\ pos \in [Threads -> Index] /\ sequence \in [Slots -> Index]
        /\ \A j \in Index : Slot(j) \in Slots
    BY SlotInRange, Zenon DEF RingInv, Typed, TypeOK
  <2>2. /\ enqueue_pos_' = e /\ dequeue_pos_' = d
        /\ pc[c] = "release" /\ pc'[c] = "idle"
        /\ sequence' = [sequence EXCEPT ![Slot(i)] = Plus(i, Capacity)]
        /\ \A u \in Threads \ {c} : pc'[u] = pc[u] /\ pos'[u] = pos[u]
    BY Zenon DEF Release, Return, RingInv, Typed, TypeOK
  <2>3. Popping(c) /\ ~Popping(c)' /\ Vacated(i) /\ sequence[Slot(i)] = Plus(i, 1)
    BY <2>2, Zenon DEF Popping, RingInv, OwnersInv
  <2>4. /\ \A p \in Producers : Pushing(p)' <=> Pushing(p)
        /\ \A u \in Consumers \ {c} : Popping(u)' <=> Popping(u)
    BY <2>2, ZenonT(60) DEF Pushing, Popping
  <2>5. \A j \in Index : (Filled(j) \/ Vacated(j)) /\ j # i => sequence'[Slot(j)] = sequence[Slot(j)]
    BY <2>1, <2>2, <2>3, ZonesApart, SMTT(60)
  <2>6. /\ sequence'[Slot(i)] = Plus(i, Capacity)
        /\ ~Filled(i) /\ i # d
        /\ \A u \in Consumers \ {c} : Popping(u) => pos[u] # i
    BY <2>1, <2>2, <2>3, ZonesDisjoint, ZenonT(60) DEF RingInv, OwnersInv
  <2>7. OwnersInv'
    <3>1. ASSUME NEW p \in Producers, Pushing(p)'
          PROVE  Filled(pos[p])' /\ sequence'[Slot(pos'[p])] = pos'[p]
      <4>1. Pushing(p) /\ pos'[p] = pos[p] /\ Filled(pos[p]) /\ sequence[Slot(pos[p])] = pos[p]
        BY <2>2, <2>4, <3>1, Zenon DEF RingInv, OwnersInv
      <4> QED
        BY <2>1, <2>2, <2>5, <2>6, <4>1, ZenonT(60)
    <3>2. ASSUME NEW u \in Consumers, Popping(u)'
          PROVE  Vacated(pos[u])' /\ sequence'[Slot(pos'[u])] = Plus(pos'[u], 1)
      <4>1. /\ u # c /\ Popping(u) /\ pos'[u] = pos[u] /\ Vacated(pos[u])
            /\ sequence[Slot(pos[u])] = Plus(pos[u], 1)
        BY <2>2, <2>3, <2>4, <3>2, ZenonT(60) DEF RingInv, OwnersInv
      <4> QED
        BY <2>1, <2>2, <2>5, <2>6, <4>1, SMTT(60)
    <3> QED
      BY <2>2, <2>3, <2>4, <3>1, <3>2, ZenonT(60) DEF RingInv, OwnersInv
  <2>8. TurnsInv'
    <3>1. ASSUME NEW j \in Index, Filled(j)'
          PROVE  \/ sequence'[Slot(j)] = Plus(j, 1)
                 \/ sequence'[Slot(j)] = j /\ \E q \in Producers : Pushing(q)' /\ pos'[q] = j
      BY <2>2, <2>4, <2>5, <2>6, <3>1, SMTT(60) DEF RingInv, TurnsInv
    <3>2. ASSUME NEW j \in Index, Vacated(j)'
          PROVE  \/ sequence'[Slot(j)] = Plus(j, Capacity)
                 \/ sequence'[Slot(j)] = Plus(j, 1) /\ \E u \in Consumers : Popping(u)' /\ pos'[u] = j
      BY <2>2, <2>3, <2>4, <2>5, <2>6, <3>2, SMTT(60) DEF RingInv, TurnsInv
    <3> QED
      BY <3>1, <3>2, ZenonT(60) DEF TurnsInv
  <2>9. ClaimsInv'
    <3>1. ASSUME NEW q \in Producers, pc'[q] = "claim", pos'[q] = enqueue_pos_'
          PROVE  sequence'[Slot(pos'[q])] = pos'[q]
      <4>1. sequence[Slot(e)] = e /\ pos'[q] = e
        BY <2>2, <3>1, Zenon DEF RingInv, ClaimsInv
      <4>2. Slot(e) # Slot(i)
        BY <2>1, <2>3, <4>1, Successors, ZenonT(60)
      <4> QED
        BY <2>1, <2>2, <4>1, <4>2, Zenon
    <3>2. ASSUME NEW u \in Consumers, pc'[u] = "claim", pos'[u] = dequeue_pos_'
          PROVE  sequence'[Slot(pos'[u])] = Plus(pos'[u], 1)
      <4>1. sequence[Slot(d)] = Plus(d, 1) /\ pos'[u] = d
        BY <2>2, <3>2, SMTT(60) DEF RingInv, ClaimsInv
      <4>2. Slot(d) # Slot(i)
        BY <2>1, <2>3, <2>6, <4>1, Successors, ZenonT(60)
      <4> QED
        BY <2>1, <2>2, <4>1, <4>2, ZenonT(60)
    <3> QED
      BY <3>1, <3>2, Zenon DEF ClaimsInv
  <2> QED
    BY <2>1, <2>2, <2>7, <2>8, <2>9, ZenonT(60) DEF RingInv
<1> SUFFICES ASSUME MaxStall < Wrap, RingInv, [Next]_vars PROVE RingInv'
  BY Zenon
<1> USE MpmcAssumption DEF Threads
<1>1. Typed /\ Typed'
  BY <1>TypedStep, Zenon DEF RingInv
<1>2. \A i \in Index : Slot(i) \in Slots /\ Plus(i, 1) \in Index
  BY SlotInRange, TurnsDiffer, Zenon
<1>3. ASSUME NEW p \in Producers, ProducerStep(p)
      PROVE  RingInv'
  <2>1. ASSUME NEW v \in Values, TryPush(p, v) PROVE RingInv'
    BY <1>1, <2>1, <1>QuietStep, Zenon DEF TryPush, Goto, Pushing, Popping, Typed, TypeOK
  <2>2. CASE PushLoadSequence(p)
    <3>1. CASE compare_tickets(sequence[Slot(pos[p])], pos[p]) = 0
      <4>1. sequence[Slot(pos[p])] = pos[p]
        BY <1>1, <1>2, <3>1, CompareZero, Zenon DEF Typed, TypeOK
      <4> QED
        BY <1>1, <2>2, <3>1, <4>1, <1>QuietStep, SMTT(60)
        DEF PushLoadSequence, Goto, Pushing, Popping, Typed, TypeOK
    <3>2. CASE compare_tickets(sequence[Slot(pos[p])], pos[p]) # 0
      <4>1. /\ pc[p] = "sequence" /\ pc'[p] \in {"idle", "reload"}
            /\ \A u \in Threads \ {p} : pc'[u] = pc[u] /\ pos'[u] = pos[u]
            /\ UNCHANGED <<enqueue_pos_, dequeue_pos_, sequence>>
        BY <1>1, <2>2, <3>2, Zenon DEF PushLoadSequence, Goto, Return, Typed, TypeOK
      <4> QED
        BY <1>1, <4>1, <1>QuietStep, Zenon DEF Pushing, Popping
    <3> QED
      BY <3>1, <3>2, ZenonT(60)
  <2>3. CASE PushReload(p)
    BY <1>1, <2>3, <1>QuietStep, Zenon DEF PushReload, Goto, Pushing, Popping, Typed, TypeOK
  <2>4. CASE PushClaim(p)
    BY <1>1, <2>4, <1>PushClaimStep, Zenon
  <2>5. CASE PushClaimFails(p)
    BY <1>1, <2>5, <1>QuietStep, Zenon DEF PushClaimFails, Goto, Pushing, Popping, Typed, TypeOK
  <2>6. CASE Construct(p)
    BY <1>1, <2>6, <1>QuietStep, Zenon DEF Construct, Goto, Pushing, Popping, Typed, TypeOK
  <2>7. CASE Publish(p)
    BY <1>1, <2>7, <1>PublishStep, Zenon
  <2> QED
    BY <1>3, <2>1, <2>2, <2>3, <2>4, <2>5, <2>6, <2>7, ZenonT(60) DEF ProducerStep
<1>4. ASSUME NEW c \in Consumers, ConsumerStep(c)
      PROVE  RingInv'
  <2>1. CASE TryPop(c)
    BY <1>1, <2>1, <1>QuietStep, ZenonT(60) DEF TryPop, Goto, Pushing, Popping, Typed, TypeOK
  <2>2. CASE PopLoadSequence(c)
    <3>1. CASE compare_tickets(sequence[Slot(pos[c])], Plus(pos[c], 1)) = 0
      <4>1. sequence[Slot(pos[c])] = Plus(pos[c], 1)
        BY <1>1, <1>2, <3>1, CompareZero, SMTT(60) DEF Typed, TypeOK
      <4> QED
        BY <1>1, <2>2, <3>1, <4>1, <1>QuietStep, SMTT(60)
        DEF PopLoadSequence, Goto, Pushing, Popping, Typed, TypeOK
    <3>2. CASE compare_tickets(sequence[Slot(pos[c])], Plus(pos[c], 1)) # 0
      <4>1. /\ pc[c] = "sequence" /\ pc'[c] \in {"idle", "reload"}
            /\ \A u \in Threads \ {c} : pc'[u] = pc[u] /\ pos'[u] = pos[u]
            /\ UNCHANGED <<enqueue_pos_, dequeue_pos_, sequence>>
        BY <1>1, <2>2, <3>2, Zenon DEF PopLoadSequence, Goto, Return, Typed, TypeOK
      <4> QED
        BY <1>1, <4>1, <1>QuietStep, Zenon DEF Pushing, Popping
    <3> QED
      BY <3>1, <3>2, Zenon
  <2>3. CASE PopReload(c)
    BY <1>1, <2>3, <1>QuietStep, Zenon DEF PopReload, Goto, Pushing, Popping, Typed, TypeOK
  <2>4. CASE PopClaim(c)
    BY <1>1, <2>4, <1>PopClaimStep, Zenon
  <2>5. CASE PopClaimFails(c)
    BY <1>1, <2>5, <1>QuietStep, ZenonT(60) DEF PopClaimFails, Goto, Pushing, Popping, Typed, TypeOK
  <2>6. CASE MoveOut(c)
    BY <1>1, <2>6, <1>QuietStep, Zenon DEF MoveOut, Goto, Pushing, Popping, Typed, TypeOK
  <2>7. CASE Release(c)
    BY <1>1, <2>7, <1>ReleaseStep, ZenonT(60)
  <2> QED
    BY <1>4, <2>1, <2>2, <2>3, <2>4, <2>5, <2>6, <2>7, ZenonT(60) DEF ConsumerStep
<1>5. CASE Destroy \/ UNCHANGED vars
  <2>1. UNCHANGED <<enqueue_pos_, dequeue_pos_, sequence, pc, pos>>
    BY <1>5, Zenon DEF Destroy, vars
  <2> QED
    BY <1>1, <2>1, SMTT(60) DEF RingInv, OwnersInv, TurnsInv, ClaimsInv, Pushing, Popping
<1> QED
  BY <1>3, <1>4, <1>5, Zenon DEF Next

(***************************************************************************)
(* A claimed cell has one owner until the owner stores its sequence number *)
(* (try_claim_and_construct, try_pop), for any number of producers and     *)
(* consumers, any capacity and any ticket width, provided that no thread   *)
(* sleeps between loading a ticket and claiming it while the tickets of    *)
(* its side come all the way round.                                        *)
(***************************************************************************)
THEOREM OneOwner ==
  ASSUME MaxStall < Wrap
  PROVE  Spec => []CellHasOneOwner
<1>1. RingInv => CellHasOneOwner
  <2> SUFFICES ASSUME RingInv PROVE CellHasOneOwner
    BY Zenon
  <2> USE MpmcAssumption DEF Threads
  <2>1. /\ enqueue_pos_ \in Index /\ dequeue_pos_ \in Index /\ Size <= Capacity
        /\ \A t \in Threads : pos[t] \in Index
    BY Zenon DEF RingInv, Typed, TypeOK
  <2>2. ASSUME NEW t \in Owners
        PROVE  (t \in Producers /\ Pushing(t)) \/ (t \in Consumers /\ Popping(t))
    BY <2>2, Zenon DEF RingInv, Typed, TypeOK, Owners, Pushing, Popping
  <2>3. ASSUME NEW t \in Owners
        PROVE  /\ sequence[Slot(pos[t])] = IF t \in Producers THEN pos[t] ELSE Plus(pos[t], 1)
               /\ t \in Producers => Filled(pos[t])
               /\ t \in Consumers => Vacated(pos[t])
    BY <2>2, ZenonT(60) DEF RingInv, OwnersInv
  <2>4. ASSUME NEW t \in Owners, NEW u \in Owners \ {t}
        PROVE  Slot(pos[u]) # Slot(pos[t])
    <3>1. pos[u] # pos[t]
      BY <2>1, <2>2, <2>3, ZonesDisjoint, Zenon DEF RingInv, OwnersInv, Owners
    <3> QED
      BY <2>1, <2>2, <2>3, <3>1, ZonesApart, SMTT(60) DEF Owners
  <2> QED
    BY <2>3, <2>4, Zenon DEF CellHasOneOwner
<1> QED
  BY <1>1, RingInit, RingStep, PTL DEF Spec

-----------------------------------------------------------------------------
(***************************************************************************)
(* The elements are where the tickets say they are, since only the thread  *)
(* that has claimed a cell touches its storage.                            *)
(***************************************************************************)
\* What the cells hold.
StorageInv ==
  /\ \A i \in Index : Filled(i) =>
       (storage[Slot(i)] # NoValue
          <=> alive /\ \A p \in Producers : ~(pc[p] = "construct" /\ pos[p] = i))
  /\ \A i \in Index : Vacated(i) =>
       (storage[Slot(i)] # NoValue
          <=> \E c \in Consumers : pc[c] = "move" /\ pos[c] = i)
  /\ \A p \in Producers : pc[p] # "idle" => val[p] \in Values
  /\ \A p \in Producers : pc[p] = "publish" => storage[Slot(pos[p])] = val[p]
  /\ \A c \in Consumers : pc[c] = "release" => val[c] \in Values
  /\ ~alive => \A t \in Threads : pc[t] = "idle"

LEMMA StorageInit == Init => StorageInv
<1> SUFFICES ASSUME Init PROVE StorageInv
  BY Zenon
<1>1. 0 \in Index /\ \A i \in Index : Slot(i) \in Slots /\ Minus(i, 0) \in Index
  BY Constants, SlotInRange, IndexClosed DEF Index
<1>2. Minus(0, 0) = 0
  BY <1>1, MinusZero, Zenon
<1>3. \A i \in Index : ~Filled(i)
  BY <1>1, <1>2, SMT DEF Init, FilledIn, Index
<1>4. \A i \in Index : storage[Slot(i)] = NoValue
  BY <1>1, Zenon DEF Init
<1>5. \A t \in Threads : pc[t] = "idle"
  BY Zenon DEF Init
<1> QED
  BY <1>3, <1>4, <1>5, Zenon DEF Init, StorageInv, Threads

LEMMA StorageStep == RingInv /\ RingInv' /\ StorageInv /\ [Next]_vars => StorageInv'
\* A step of one thread that has no cell before it or after it.
<1>QuietStorage. ASSUME StorageInv, Typed, Typed', NEW t \in Threads,
             UNCHANGED <<enqueue_pos_, dequeue_pos_, storage, alive>>, alive,
             \A u \in Threads \ {t} : pc'[u] = pc[u] /\ pos'[u] = pos[u] /\ val'[u] = val[u],
             pc[t] \notin {"construct", "publish", "move", "release"},
             pc'[t] \notin {"construct", "publish", "move", "release"},
             t \in Producers /\ pc'[t] # "idle" => val'[t] \in Values
      PROVE  StorageInv'
  <2> USE <1>QuietStorage
  <2> USE MpmcAssumption DEF Threads
  <2>1. ASSUME NEW i \in Index
        PROVE  /\ (\E c \in Consumers : pc'[c] = "move" /\ pos'[c] = i)
                    <=> (\E c \in Consumers : pc[c] = "move" /\ pos[c] = i)
               /\ (\A p \in Producers : ~(pc'[p] = "construct" /\ pos'[p] = i))
                    <=> (\A p \in Producers : ~(pc[p] = "construct" /\ pos[p] = i))
    BY Zenon
  <2>2. \A i \in Index : (Filled(i)' <=> Filled(i)) /\ (Vacated(i)' <=> Vacated(i))
    BY Zenon
  <2> QED
    BY <2>1, <2>2 DEF StorageInv
\* Claims move the zones and leave the storage alone.
<1>PushClaimStorage. ASSUME RingInv, StorageInv, NEW p \in Producers, PushClaim(p)
      PROVE  StorageInv'
  <2> USE <1>PushClaimStorage
  <2> DEFINE e == enqueue_pos_
             d == dequeue_pos_
  <2> USE MpmcAssumption DEF Threads
  <2>1. e \in Index /\ d \in Index /\ pos \in [Threads -> Index] /\ Size <= Capacity
    BY Zenon DEF RingInv, Typed, TypeOK
  <2>2. /\ Minus(e, d) < Capacity
        /\ Slot(Minus(e, Capacity)) = Slot(e)
        /\ \A c \in Consumers : pc[c] = "move" => pos[c] # Minus(e, Capacity)
    BY PushClaimsFree, Zenon DEF Popping
  <2>3. /\ VacatedIn(e, d, Minus(e, Capacity)) /\ Minus(e, Capacity) \in Index
        /\ \A i \in Index :
             /\ FilledIn(Plus(e, 1), d, i) <=> FilledIn(e, d, i) \/ i = e
             /\ VacatedIn(Plus(e, 1), d, i) <=> VacatedIn(e, d, i) /\ i # Minus(e, Capacity)
        /\ ~FilledIn(e, d, e)
    BY <2>1, <2>2, PushShift, ZonesDisjoint, TurnsDiffer, Zenon
  <2>4. /\ enqueue_pos_' = Plus(e, 1) /\ dequeue_pos_' = d /\ UNCHANGED <<pos, storage, val, alive>>
        /\ pc[p] = "claim" /\ pc'[p] = "construct" /\ pos[p] = e
        /\ \A u \in Threads \ {p} : pc'[u] = pc[u]
    BY ZenonT(60) DEF PushClaim, Goto, RingInv, Typed
  <2>5. storage[Slot(e)] = NoValue
    BY <2>2, <2>3, SMTT(60) DEF StorageInv
  <2>6. ASSUME NEW i \in Index, Filled(i)'
        PROVE  storage'[Slot(i)] # NoValue
                 <=> alive' /\ \A q \in Producers : ~(pc'[q] = "construct" /\ pos'[q] = i)
    <3>1. CASE i = e
      BY <2>4, <2>5, <3>1, ZenonT(60)
    <3>2. CASE i # e
      <4>1. Filled(i)
        BY <2>3, <2>4, <2>6, <3>2, Zenon
      <4>2. \A q \in Producers : (pc'[q] = "construct" /\ pos'[q] = i)
                                   <=> (pc[q] = "construct" /\ pos[q] = i)
        BY <2>4, <3>2, ZenonT(60)
      <4> QED
        BY <2>4, <4>1, <4>2, SMTT(60) DEF StorageInv
    <3> QED
      BY <3>1, <3>2, Zenon
  <2>7. ASSUME NEW i \in Index, Vacated(i)'
        PROVE  storage'[Slot(i)] # NoValue <=> \E c \in Consumers : pc'[c] = "move" /\ pos'[c] = i
    BY <2>3, <2>4, <2>7, SMTT(60) DEF StorageInv
  <2>8. /\ \A q \in Producers : pc'[q] # "idle" => val'[q] \in Values
        /\ \A q \in Producers : pc'[q] = "publish" => storage'[Slot(pos'[q])] = val'[q]
        /\ \A c \in Consumers : pc'[c] = "release" => val'[c] \in Values
        /\ alive'
    BY <2>4 DEF StorageInv
  <2> QED
    BY <2>6, <2>7, <2>8, Zenon DEF StorageInv
<1>PopClaimStorage. ASSUME RingInv, StorageInv, NEW c \in Consumers, PopClaim(c)
      PROVE  StorageInv'
  <2> USE <1>PopClaimStorage
  <2> DEFINE e == enqueue_pos_
             d == dequeue_pos_
  <2> USE MpmcAssumption DEF Threads
  <2>1. e \in Index /\ d \in Index /\ pos \in [Threads -> Index] /\ Minus(e, d) <= Capacity
    BY Zenon DEF RingInv, Typed, TypeOK
  <2>2. /\ 0 < Minus(e, d)
        /\ \A p \in Producers : pc[p] = "construct" => pos[p] # d
    BY PopClaimsPublished, Zenon DEF Pushing
  <2>3. /\ FilledIn(e, d, d)
        /\ \A i \in Index :
             /\ FilledIn(e, Plus(d, 1), i) <=> FilledIn(e, d, i) /\ i # d
             /\ VacatedIn(e, Plus(d, 1), i) <=> VacatedIn(e, d, i) \/ i = d
        /\ ~VacatedIn(e, d, d)
    BY <2>1, <2>2, PopShift, ZonesDisjoint, Zenon
  <2>4. /\ dequeue_pos_' = Plus(d, 1) /\ enqueue_pos_' = e /\ UNCHANGED <<pos, storage, val, alive>>
        /\ pc[c] = "claim" /\ pc'[c] = "move" /\ pos[c] = d
        /\ \A u \in Threads \ {c} : pc'[u] = pc[u]
    BY ZenonT(60) DEF PopClaim, Goto, RingInv, Typed
  <2>5. alive /\ storage[Slot(d)] # NoValue
    BY <2>1, <2>2, <2>3, <2>4, SMTT(60) DEF StorageInv
  <2>6. ASSUME NEW i \in Index, Filled(i)'
        PROVE  storage'[Slot(i)] # NoValue
                 <=> alive' /\ \A q \in Producers : ~(pc'[q] = "construct" /\ pos'[q] = i)
    BY <2>3, <2>4, <2>6 DEF StorageInv
  <2>7. ASSUME NEW i \in Index, Vacated(i)'
        PROVE  storage'[Slot(i)] # NoValue <=> \E u \in Consumers : pc'[u] = "move" /\ pos'[u] = i
    <3>1. CASE i = d
      BY <2>4, <2>5, <3>1, ZenonT(60)
    <3>2. CASE i # d
      <4>1. Vacated(i)
        BY <2>3, <2>4, <2>7, <3>2, Zenon
      <4>2. \A u \in Consumers : (pc'[u] = "move" /\ pos'[u] = i) <=> (pc[u] = "move" /\ pos[u] = i)
        BY <2>4, <3>2, ZenonT(60)
      <4> QED
        BY <2>4, <4>1, <4>2, SMTT(60) DEF StorageInv
    <3> QED
      BY <3>1, <3>2, Zenon
  <2>8. /\ \A q \in Producers : pc'[q] # "idle" => val'[q] \in Values
        /\ \A q \in Producers : pc'[q] = "publish" => storage'[Slot(pos'[q])] = val'[q]
        /\ \A u \in Consumers : pc'[u] = "release" => val'[u] \in Values
        /\ alive'
    BY <2>4, <2>5, SMTT(60) DEF StorageInv
  <2> QED
    BY <2>6, <2>7, <2>8, Zenon DEF StorageInv
\* The producer builds its element in a raw cell; every other cell keeps its own.
<1>ConstructStorage. ASSUME RingInv, StorageInv, NEW p \in Producers, Construct(p)
      PROVE  StorageInv'
  <2> USE <1>ConstructStorage
  <2> DEFINE i == pos[p]
  <2> USE MpmcAssumption DEF Threads
  <2>1. /\ enqueue_pos_ \in Index /\ dequeue_pos_ \in Index /\ i \in Index
        /\ pos \in [Threads -> Index] /\ storage \in [Slots -> Values \cup {NoValue}]
        /\ Size <= Capacity /\ \A j \in Index : Slot(j) \in Slots
    BY SlotInRange, Zenon DEF RingInv, Typed, TypeOK
  <2>2. /\ UNCHANGED <<enqueue_pos_, dequeue_pos_, pos, val, alive>>
        /\ pc[p] = "construct" /\ pc'[p] = "publish"
        /\ storage' = [storage EXCEPT ![Slot(i)] = val[p]]
        /\ \A u \in Threads \ {p} : pc'[u] = pc[u]
    BY ZenonT(60) DEF Construct, Goto, RingInv, Typed
  <2>3. /\ Filled(i) /\ val[p] \in Values /\ alive
        /\ \A q \in Producers : Pushing(q) => Filled(pos[q])
        /\ \A q \in Producers \ {p} : Pushing(q) => pos[q] # i
    BY <2>2, SMTT(60) DEF RingInv, OwnersInv, Pushing, StorageInv
  <2>4. \A j \in Index : (Filled(j) \/ Vacated(j)) /\ j # i => storage'[Slot(j)] = storage[Slot(j)]
    BY <2>1, <2>2, <2>3, ZonesApart, SMTT(60)
  <2>5. storage'[Slot(i)] = val[p] /\ ~Vacated(i)
    BY <2>1, <2>2, <2>3, ZonesDisjoint, Zenon
  <2>6. ASSUME NEW j \in Index, Filled(j)'
        PROVE  storage'[Slot(j)] # NoValue
                 <=> alive' /\ \A q \in Producers : ~(pc'[q] = "construct" /\ pos'[q] = j)
    <3>1. CASE j = i
      BY <2>2, <2>3, <2>5, <3>1, ZenonT(60) DEF Pushing
    <3>2. CASE j # i
      <4>1. Filled(j) /\ storage'[Slot(j)] = storage[Slot(j)]
        BY <2>2, <2>4, <2>6, <3>2, ZenonT(60)
      <4>2. \A q \in Producers : (pc'[q] = "construct" /\ pos'[q] = j)
                                   <=> (pc[q] = "construct" /\ pos[q] = j)
        BY <2>2, <3>2, ZenonT(60)
      <4> QED
        BY <2>2, <4>1, <4>2, SMTT(60) DEF StorageInv
    <3> QED
      BY <3>1, <3>2, Zenon
  <2>7. ASSUME NEW j \in Index, Vacated(j)'
        PROVE  storage'[Slot(j)] # NoValue <=> \E c \in Consumers : pc'[c] = "move" /\ pos'[c] = j
    <3>1. Vacated(j) /\ storage'[Slot(j)] = storage[Slot(j)]
      BY <2>2, <2>4, <2>5, <2>7, Zenon
    <3> QED
      BY <2>2, <3>1 DEF StorageInv
  <2>8. ASSUME NEW q \in Producers, pc'[q] = "publish"
        PROVE  storage'[Slot(pos'[q])] = val'[q]
    <3>1. CASE q = p
      BY <2>2, <2>5, <3>1, ZenonT(60)
    <3>2. CASE q # p
      <4>1. pc[q] = "publish" /\ Pushing(q)
        BY <2>2, <2>8, <3>2, Zenon DEF Pushing
      <4> QED
        BY <2>1, <2>2, <2>3, <2>4, <3>2, <4>1, SMTT(60) DEF StorageInv
    <3> QED
      BY <3>1, <3>2, Zenon
  <2>9. /\ \A q \in Producers : pc'[q] # "idle" => val'[q] \in Values
        /\ \A c \in Consumers : pc'[c] = "release" => val'[c] \in Values
        /\ alive'
    BY <2>2, <2>3, ZenonT(60) DEF StorageInv
  <2> QED
    BY <2>6, <2>7, <2>8, <2>9, ZenonT(60) DEF StorageInv
\* The consumer moves its element out; every other cell keeps its own.
<1>MoveOutStorage. ASSUME RingInv, StorageInv, NEW c \in Consumers, MoveOut(c)
      PROVE  StorageInv'
  <2> USE <1>MoveOutStorage
  <2> DEFINE i == pos[c]
  <2> USE MpmcAssumption DEF Threads
  <2>1. /\ enqueue_pos_ \in Index /\ dequeue_pos_ \in Index /\ i \in Index
        /\ pos \in [Threads -> Index] /\ storage \in [Slots -> Values \cup {NoValue}]
        /\ val \in [Threads -> Values \cup {NoValue}]
        /\ Size <= Capacity /\ \A j \in Index : Slot(j) \in Slots
    BY SlotInRange, Zenon DEF RingInv, Typed, TypeOK
  <2>2. /\ UNCHANGED <<enqueue_pos_, dequeue_pos_, pos, alive>>
        /\ pc[c] = "move" /\ pc'[c] = "release"
        /\ storage' = [storage EXCEPT ![Slot(i)] = NoValue]
        /\ val' = [val EXCEPT ![c] = storage[Slot(i)]]
        /\ \A u \in Threads \ {c} : pc'[u] = pc[u]
    BY ZenonT(60) DEF MoveOut, Goto, RingInv, Typed
  <2>3. /\ Vacated(i) /\ alive
        /\ \A u \in Consumers \ {c} : Popping(u) => pos[u] # i
        /\ \A q \in Producers : Pushing(q) => Filled(pos[q])
    BY <2>2, SMTT(60) DEF RingInv, OwnersInv, Pushing, Popping, StorageInv
  <2>4. storage[Slot(i)] \in Values
    BY <2>1, <2>2, <2>3, SMTT(60) DEF StorageInv
  <2>5. \A j \in Index : (Filled(j) \/ Vacated(j)) /\ j # i => storage'[Slot(j)] = storage[Slot(j)]
    BY <2>1, <2>2, <2>3, ZonesApart, SMTT(60)
  <2>6. storage'[Slot(i)] = NoValue /\ ~Filled(i)
    BY <2>1, <2>2, <2>3, ZonesDisjoint, ZenonT(60)
  <2>7. ASSUME NEW j \in Index, Filled(j)'
        PROVE  storage'[Slot(j)] # NoValue
                 <=> alive' /\ \A q \in Producers : ~(pc'[q] = "construct" /\ pos'[q] = j)
    <3>1. Filled(j) /\ storage'[Slot(j)] = storage[Slot(j)]
      BY <2>2, <2>5, <2>6, <2>7, Zenon
    <3> QED
      BY <2>2, <3>1 DEF StorageInv
  <2>8. ASSUME NEW j \in Index, Vacated(j)'
        PROVE  storage'[Slot(j)] # NoValue <=> \E u \in Consumers : pc'[u] = "move" /\ pos'[u] = j
    <3>1. CASE j = i
      BY <2>2, <2>3, <2>6, <3>1, ZenonT(60) DEF Popping
    <3>2. CASE j # i
      <4>1. Vacated(j) /\ storage'[Slot(j)] = storage[Slot(j)]
        BY <2>2, <2>5, <2>8, <3>2, Zenon
      <4>2. \A u \in Consumers : (pc'[u] = "move" /\ pos'[u] = j) <=> (pc[u] = "move" /\ pos[u] = j)
        BY <2>2, <3>2, ZenonT(60)
      <4> QED
        BY <2>2, <4>1, <4>2 DEF StorageInv
    <3> QED
      BY <3>1, <3>2, Zenon
  <2>9. ASSUME NEW q \in Producers, pc'[q] = "publish"
        PROVE  storage'[Slot(pos'[q])] = val'[q]
    <3>1. pc[q] = "publish" /\ Filled(pos[q]) /\ val'[q] = val[q]
      BY <2>1, <2>2, <2>3, <2>9, Zenon DEF Pushing
    <3> QED
      BY <2>1, <2>2, <2>5, <2>6, <3>1, SMTT(60) DEF StorageInv
  <2>10. /\ \A q \in Producers : pc'[q] # "idle" => val'[q] \in Values
         /\ \A u \in Consumers : pc'[u] = "release" => val'[u] \in Values
         /\ alive'
    BY <2>1, <2>2, <2>3, <2>4, ZenonT(60) DEF StorageInv
  <2> QED
    BY <2>7, <2>8, <2>9, <2>10, Zenon DEF StorageInv
\* Handing the cell on leaves what it holds alone.
<1>HandOnStorage. ASSUME RingInv, StorageInv, NEW t \in Threads,
             UNCHANGED <<enqueue_pos_, dequeue_pos_, storage, alive>>,
             pc[t] \in {"publish", "release"}, pc'[t] = "idle",
             \A u \in Threads \ {t} : pc'[u] = pc[u] /\ pos'[u] = pos[u] /\ val'[u] = val[u]
      PROVE  StorageInv'
  <2> USE <1>HandOnStorage
  <2> USE MpmcAssumption DEF Threads
  <2>1. ASSUME NEW i \in Index
        PROVE  /\ (\E c \in Consumers : pc'[c] = "move" /\ pos'[c] = i)
                    <=> (\E c \in Consumers : pc[c] = "move" /\ pos[c] = i)
               /\ (\A p \in Producers : ~(pc'[p] = "construct" /\ pos'[p] = i))
                    <=> (\A p \in Producers : ~(pc[p] = "construct" /\ pos[p] = i))
    BY Zenon
  <2>2. \A i \in Index : (Filled(i)' <=> Filled(i)) /\ (Vacated(i)' <=> Vacated(i))
    BY Zenon
  <2> QED
    BY <2>1, <2>2, SMTT(60) DEF StorageInv
\* The destructor leaves no element behind.
<1>DestroyStorage. ASSUME RingInv, StorageInv, Destroy
      PROVE  StorageInv'
  <2> USE <1>DestroyStorage
  <2> DEFINE e == enqueue_pos_
             d == dequeue_pos_
  <2> USE MpmcAssumption DEF Threads
  <2>1. /\ e \in Index /\ d \in Index /\ Minus(e, d) <= Capacity
        /\ \A i \in Index : Slot(i) \in Slots
    BY SlotInRange, Zenon DEF RingInv, Typed, TypeOK
  <2>2. UNCHANGED <<enqueue_pos_, dequeue_pos_, pc, pos, val>> /\ ~alive'
    BY Zenon DEF Destroy
  <2>3. \A t \in Threads : pc[t] = "idle" /\ pc'[t] = "idle"
    BY <2>2, Zenon DEF Destroy
  <2>4. ASSUME NEW i \in Index, Filled(i)
        PROVE  storage'[Slot(i)] = NoValue
    <3>1. \E k \in 0 .. Minus(e, d) - 1 : Slot(i) = Slot(Plus(d, k))
      BY <2>1, <2>4, ZonesCover
    <3> QED
      BY <2>1, <3>1, Zenon DEF Destroy
  <2>5. ASSUME NEW i \in Index, Vacated(i)
        PROVE  storage'[Slot(i)] = NoValue
    <3>1. storage[Slot(i)] = NoValue
      BY <2>3, <2>5, Zenon DEF StorageInv
    <3> QED
      BY <2>1, <3>1, Zenon DEF Destroy
  <2> QED
    BY <2>2, <2>3, <2>4, <2>5, Zenon DEF StorageInv
<1> SUFFICES ASSUME RingInv, RingInv', StorageInv, [Next]_vars PROVE StorageInv'
  BY Zenon
<1> USE MpmcAssumption DEF Threads
<1>1. Typed /\ Typed'
  BY Zenon DEF RingInv
<1>2. \A t \in Threads : pc[t] # "idle" => alive
  BY Zenon DEF StorageInv
<1>3. ASSUME NEW p \in Producers, ProducerStep(p)
      PROVE  StorageInv'
  <2>1. ASSUME NEW v \in Values, TryPush(p, v) PROVE StorageInv'
    <3>1. /\ UNCHANGED <<enqueue_pos_, dequeue_pos_, storage, alive>> /\ alive
          /\ pc[p] = "idle" /\ pc'[p] = "sequence" /\ val'[p] \in Values
          /\ \A u \in Threads \ {p} : pc'[u] = pc[u] /\ pos'[u] = pos[u] /\ val'[u] = val[u]
      BY <1>1, <2>1, Zenon DEF TryPush, Goto, Typed, TypeOK
    <3> QED
      BY <1>1, <3>1, <1>QuietStorage, Zenon
  <2>2. CASE PushLoadSequence(p)
    <3>1. /\ UNCHANGED <<enqueue_pos_, dequeue_pos_, storage, alive>>
          /\ pc[p] = "sequence" /\ pc'[p] \in {"idle", "claim", "reload"}
          /\ pc'[p] # "idle" => val'[p] = val[p]
          /\ \A u \in Threads \ {p} : pc'[u] = pc[u] /\ pos'[u] = pos[u] /\ val'[u] = val[u]
      BY <1>1, <2>2, ZenonT(60) DEF PushLoadSequence, Goto, Return, Typed, TypeOK
    <3>2. alive /\ val[p] \in Values
      BY <1>2, <3>1, Zenon DEF StorageInv
    <3> QED
      BY <1>1, <3>1, <3>2, <1>QuietStorage, Zenon
  <2>3. CASE PushReload(p) \/ PushClaimFails(p)
    <3>1. /\ UNCHANGED <<enqueue_pos_, dequeue_pos_, storage, val, alive>>
          /\ pc[p] \in {"claim", "reload"} /\ pc'[p] = "sequence"
          /\ \A u \in Threads \ {p} : pc'[u] = pc[u] /\ pos'[u] = pos[u]
      BY <1>1, <2>3, ZenonT(60) DEF PushReload, PushClaimFails, Goto, Typed, TypeOK
    <3>2. alive /\ val[p] \in Values
      BY <1>2, <3>1, Zenon DEF StorageInv
    <3> QED
      BY <1>1, <3>1, <3>2, <1>QuietStorage, Zenon
  <2>4. CASE Publish(p)
    <3>1. /\ UNCHANGED <<enqueue_pos_, dequeue_pos_, storage, alive>>
          /\ pc[p] = "publish" /\ pc'[p] = "idle"
          /\ \A u \in Threads \ {p} : pc'[u] = pc[u] /\ pos'[u] = pos[u] /\ val'[u] = val[u]
      BY <1>1, <2>4, Zenon DEF Publish, Return, Typed, TypeOK
    <3> QED
      BY <3>1, <1>HandOnStorage, Zenon
  <2> QED
    BY <1>3, <2>1, <2>2, <2>3, <2>4, <1>PushClaimStorage, <1>ConstructStorage, Zenon DEF ProducerStep
<1>4. ASSUME NEW c \in Consumers, ConsumerStep(c)
      PROVE  StorageInv'
  <2>1. CASE TryPop(c) \/ PopReload(c) \/ PopClaimFails(c)
    <3>1. /\ UNCHANGED <<enqueue_pos_, dequeue_pos_, storage, val, alive>>
          /\ pc[c] \in {"idle", "claim", "reload"} /\ pc'[c] = "sequence"
          /\ pc[c] = "idle" => alive
          /\ \A u \in Threads \ {c} : pc'[u] = pc[u] /\ pos'[u] = pos[u]
      BY <1>1, <2>1, ZenonT(60) DEF TryPop, PopReload, PopClaimFails, Goto, Typed, TypeOK
    <3>2. alive /\ c \notin Producers
      BY <1>2, <3>1, Zenon
    <3> QED
      BY <1>1, <3>1, <3>2, <1>QuietStorage, Zenon
  <2>2. CASE PopLoadSequence(c)
    <3>1. /\ UNCHANGED <<enqueue_pos_, dequeue_pos_, storage, alive>>
          /\ pc[c] = "sequence" /\ pc'[c] \in {"idle", "claim", "reload"}
          /\ \A u \in Threads \ {c} : pc'[u] = pc[u] /\ pos'[u] = pos[u] /\ val'[u] = val[u]
      BY <1>1, <2>2, ZenonT(60) DEF PopLoadSequence, Goto, Return, Typed, TypeOK
    <3>2. alive /\ c \notin Producers
      BY <1>2, <3>1, Zenon
    <3> QED
      BY <1>1, <3>1, <3>2, <1>QuietStorage, Zenon
  <2>3. CASE Release(c)
    <3>1. /\ UNCHANGED <<enqueue_pos_, dequeue_pos_, storage, alive>>
          /\ pc[c] = "release" /\ pc'[c] = "idle"
          /\ \A u \in Threads \ {c} : pc'[u] = pc[u] /\ pos'[u] = pos[u] /\ val'[u] = val[u]
      BY <1>1, <2>3, ZenonT(60) DEF Release, Return, Typed, TypeOK
    <3> QED
      BY <3>1, <1>HandOnStorage, Zenon
  <2> QED
    BY <1>4, <2>1, <2>2, <2>3, <1>PopClaimStorage, <1>MoveOutStorage, Zenon DEF ConsumerStep
<1>5. CASE UNCHANGED vars
  BY <1>5 DEF vars, StorageInv
<1> QED
  BY <1>3, <1>4, <1>5, <1>DestroyStorage, ZenonT(60) DEF Next

(***************************************************************************)
(* No element is constructed over a live one, none is taken twice, the     *)
(* destructor's range is exactly the live elements, and a cell's sequence  *)
(* number never leaves its residues (mpmc_queue.hpp:156-158, 264-275), for *)
(* every ticket width, capacity and number of threads.                     *)
(***************************************************************************)
THEOREM CellsSafe ==
  ASSUME MaxStall < Wrap
  PROVE  Spec => []CellsExact
\* The state is well typed, a cell holds an element exactly from its
\* construction to its move out (LiveCells), and its sequence number is its own
\* or the next modulo Capacity (SequenceResidue).
<1>CellsFromInvariant. RingInv /\ StorageInv => CellsExact
  <2> SUFFICES ASSUME RingInv, StorageInv PROVE CellsExact
    BY Zenon
  <2> DEFINE e == enqueue_pos_
             d == dequeue_pos_
  <2> USE MpmcAssumption DEF Threads
  <2>1. /\ e \in Index /\ d \in Index /\ Minus(e, d) <= Capacity /\ TypeOK
        /\ pos \in [Threads -> Index]
    BY Zenon DEF RingInv, Typed, TypeOK
  <2>2. ASSUME NEW s \in Slots
        PROVE  \E i \in Index : Slot(i) = s /\ (Filled(i) \/ Vacated(i))
    BY <2>1, SlotsCovered, ZonesCover, Zenon
  <2>3. LiveCells
    <3> DEFINE live == {Plus(d, k) : k \in 0 .. Minus(e, d) - 1}
               raw  == {pos[p] : p \in {q \in Producers : pc[q] = "construct"}}
               kept == {pos[c] : c \in {u \in Consumers : pc[u] = "move"}}
    <3>1. \A i \in Index : i \in live <=> Filled(i)
      BY <2>1, ZonesCover
    <3>2. live \subseteq Index
      <4>1. ASSUME NEW k \in 0 .. Minus(e, d) - 1 PROVE Plus(d, k) \in Index
        <5>1. k \in Index
          BY <2>1, Constants, IndexClosed, SMTT(60) DEF Index
        <5> QED
          BY <2>1, <5>1, IndexClosed, Zenon
      <4> QED
        BY <4>1, Zenon
    <3>3. kept \subseteq Index /\ \A i \in kept : Vacated(i)
      BY <2>1 DEF RingInv, OwnersInv, Popping
    <3>4. kept # {} => alive
      BY ZenonT(60) DEF StorageInv
    <3>5. ASSUME NEW s \in Slots
          PROVE  storage[s] # NoValue <=> (alive /\ \E i \in (live \ raw) \cup kept : Slot(i) = s)
      <4>1. PICK i \in Index : Slot(i) = s /\ (Filled(i) \/ Vacated(i))
        BY <2>2, Zenon
      <4>2. \A j \in (live \ raw) \cup kept : Slot(j) = s => j = i
        BY <2>1, <3>1, <3>2, <3>3, <4>1, ZonesApart, Zenon
      <4>3. CASE Filled(i)
        <5>1. i \in live /\ i \notin kept
          BY <2>1, <3>1, <3>3, <4>3, ZonesDisjoint, ZenonT(60)
        <5>2. storage[s] # NoValue <=> alive /\ i \notin raw
          BY <4>1, <4>3 DEF StorageInv
        <5> HIDE DEF live, raw, kept
        <5> QED
          BY <4>1, <4>2, <5>1, <5>2, Zenon
      <4>4. CASE Vacated(i)
        <5>1. i \notin live
          BY <2>1, <3>1, <4>4, ZonesDisjoint, ZenonT(60)
        <5>2. storage[s] # NoValue <=> i \in kept
          BY <4>1, <4>4 DEF StorageInv
        <5> HIDE DEF live, raw, kept
        <5> QED
          BY <3>4, <4>1, <4>2, <5>1, <5>2, Zenon
      <4> QED
        BY <4>1, <4>3, <4>4, Zenon
    <3> QED
      BY <3>5, Zenon DEF LiveCells
  <2>4. ASSUME NEW s \in Slots
        PROVE  Slot(sequence[s]) \in {s, Slot(s + 1)}
    <3>1. PICK i \in Index : Slot(i) = s /\ (Filled(i) \/ Vacated(i))
      BY <2>2, Zenon
    <3>2. sequence[s] \in {i, Plus(i, 1), Plus(i, Capacity)}
      BY <3>1, Zenon DEF RingInv, TurnsInv
    <3> QED
      BY <3>1, <3>2, SlotAdvance, Zenon
  <2>5. ASSUME Capacity > 2, sequence[1] = 0
        PROVE  FALSE
    <3>1. 1 \in Slots
      BY Constants DEF Slots
    <3>2. Slot(0) \in {1, Slot(2)}
      BY <2>4, <2>5, <3>1, SMTT(60)
    <3>3. Slot(0) = 0 /\ Slot(2) = 2
      BY <2>5, Constants, SMT DEF Slot
    <3> QED
      BY <3>2, <3>3
  <2> QED
    BY <2>1, <2>3, <2>4, <2>5, Zenon DEF CellsExact, SequenceResidue
<1>1. RingInv /\ StorageInv /\ [Next]_vars => (RingInv /\ StorageInv)'
  BY RingStep, StorageStep, Zenon
<1> QED
  BY <1>1, RingInit, StorageInit, <1>CellsFromInvariant, PTL DEF Spec

-----------------------------------------------------------------------------
(***************************************************************************)
(* Old tickets: what the comparison of a sequence number with a ticket that*)
(* is less than half the range behind can tell.                            *)
(***************************************************************************)
\* Distances add up while they are less than the range.
LEMMA DistanceSum ==
  ASSUME NEW e \in Index, NEW x \in Index, NEW i \in Index, NEW a \in Index,
         Minus(e, i) <= Minus(e, x), Minus(e, x) - Minus(e, i) + a < Wrap
  PROVE  Minus(Plus(i, a), x) = Minus(e, x) - Minus(e, i) + a
<1>1. Plus(i, a) \in Index
  BY IndexClosed, Zenon
<1>2. /\ Minus(e, i) = IF e >= i THEN e - i ELSE e - i + Wrap
      /\ Minus(e, x) = IF e >= x THEN e - x ELSE e - x + Wrap
      /\ Plus(i, a) = IF i + a < Wrap THEN i + a ELSE i + a - Wrap
  BY MinusCases, PlusCases, ZenonT(60)
<1>3. Minus(Plus(i, a), x) = IF Plus(i, a) >= x THEN Plus(i, a) - x ELSE Plus(i, a) - x + Wrap
  BY <1>1, MinusCases, Zenon
<1> QED
  BY <1>2, <1>3, Constants, SMTT(60) DEF Index

\* A sequence number that compares as behind is more than half the range ahead.
LEMMA BehindIsFar ==
  ASSUME NEW a \in Index, NEW b \in Index, compare_tickets(a, b) < 0
  PROVE  Minus(a, b) > HalfRange
BY IndexClosed, SMT DEF compare_tickets

LEMMA HalfRangeFacts ==
  HalfRange \in Nat /\ 2 * HalfRange <= Wrap - 1 /\ HalfRange < Wrap /\ HalfRange > 0
BY Constants, SMT DEF HalfRange

\* Equal tickets do not compare as behind.
LEMMA CompareEqual ==
  ASSUME NEW a \in Index, NEW b \in Index, compare_tickets(a, b) < 0
  PROVE  a # b
BY MinusZero, SMT DEF compare_tickets

\* A ticket of the slot of x that is older than x is a whole round older.
LEMMA RoundOlder ==
  ASSUME NEW e \in Index, NEW x \in Index, NEW i \in Index,
         Slot(i) = Slot(x), Minus(e, i) \in 1 .. Capacity, Minus(e, x) < Minus(e, i)
  PROVE  x = e
<1>1. /\ Minus(e, i) = IF e >= i THEN e - i ELSE e - i + Wrap
      /\ Minus(e, x) = IF e >= x THEN e - x ELSE e - x + Wrap
      /\ Minus(x, i) = IF x >= i THEN x - i ELSE x - i + Wrap
  BY MinusCases, Zenon
<1>2. Minus(x, i) = Minus(e, i) - Minus(e, x) /\ Minus(x, i) > 0
  BY <1>1, Constants, SMT DEF Index
<1>3. ~(Minus(x, i) < Capacity)
  BY <1>2, SlotsDistinctInWindow, Zenon
<1>4. Minus(e, x) = 0
  BY <1>1, <1>2, <1>3, Constants, SMTT(60) DEF Index
<1> QED
  BY <1>4, MinusZero, Zenon

(***************************************************************************)
(* try_push: the sequence number y of the slot of an old ticket x, whose   *)
(* last issued ticket is i, does not compare as behind x.                  *)
(***************************************************************************)
LEMMA PushNotBehind ==
  ASSUME NEW e \in Index, NEW x \in Index, NEW i \in Index, NEW y \in Index,
         Minus(e, x) + Capacity - 1 <= HalfRange, Capacity <= HalfRange,
         Slot(i) = Slot(x), Minus(e, i) \in 1 .. Capacity,
         y \in {i, Plus(i, 1), Plus(i, Capacity)},
         compare_tickets(y, x) < 0
  PROVE  x = e
<1>1. Minus(e, x) \in Index /\ Minus(e, i) \in Index /\ Minus(y, x) > HalfRange
  BY IndexClosed, BehindIsFar, Zenon
<1>2. ASSUME Minus(e, i) <= Minus(e, x), NEW a \in {0, 1, Capacity}, y = Plus(i, a)
      PROVE  FALSE
  <2>1. a \in Index /\ a <= Capacity
    BY Constants, SMTT(60) DEF Index
  <2>2. Minus(e, x) - Minus(e, i) + a <= HalfRange
    BY <1>1, <2>1, HalfRangeFacts, Constants, SMTT(60) DEF Index
  <2>3. Minus(e, x) - Minus(e, i) + a < Wrap
    BY <1>1, <2>1, <2>2, HalfRangeFacts, Constants, SMTT(60) DEF Index
  <2>4. Minus(y, x) = Minus(e, x) - Minus(e, i) + a
    BY <1>2, <2>1, <2>3, DistanceSum, SMTT(60)
  <2> QED
    BY <1>1, <2>1, <2>2, <2>4, HalfRangeFacts, SMTT(60) DEF Index
<1>3. ~(Minus(e, i) <= Minus(e, x))
  BY <1>2, PlusZero, Zenon
<1> QED
  BY <1>1, <1>3, RoundOlder, SMTT(60) DEF Index

(***************************************************************************)
(* try_pop: the same for the number a consumer's ticket x waits for, x + 1.*)
(***************************************************************************)
LEMMA PopNotBehind ==
  ASSUME NEW e \in Index, NEW d \in Index, NEW x \in Index, NEW i \in Index, NEW y \in Index,
         Minus(e, d) <= Capacity,
         Minus(d, x) + Capacity - 1 <= HalfRange, Capacity <= HalfRange,
         Slot(i) = Slot(x), Minus(e, i) \in 1 .. Capacity,
         \/ y = Plus(i, 1)
         \/ FilledIn(e, d, i) /\ y = i
         \/ VacatedIn(e, d, i) /\ y = Plus(i, Capacity),
         compare_tickets(y, Plus(x, 1)) < 0
  PROVE  x = d
<1> SUFFICES ASSUME x # d PROVE FALSE
  BY ZenonT(60)
<1> DEFINE x1 == Plus(x, 1)
<1>1. /\ Minus(e, x) \in Index /\ Minus(e, i) \in Index /\ Minus(e, d) \in Index
      /\ Minus(d, x) \in Index /\ x1 \in Index
      /\ 1 \in Index /\ Capacity \in Index
  BY IndexClosed, TurnsDiffer, Constants, SMTT(60) DEF Index
<1>2. Minus(y, x1) > HalfRange
  BY <1>1, BehindIsFar, Zenon
<1>3. /\ Minus(e, d) = IF e >= d THEN e - d ELSE e - d + Wrap
      /\ Minus(d, x) = IF d >= x THEN d - x ELSE d - x + Wrap
      /\ Minus(e, x) = IF e >= x THEN e - x ELSE e - x + Wrap
      /\ Minus(e, i) = IF e >= i THEN e - i ELSE e - i + Wrap
      /\ Minus(d, i) = IF d >= i THEN d - i ELSE d - i + Wrap
  BY MinusCases, ZenonT(60)
<1>4. Minus(d, x) > 0
  BY <1>1, MinusZero, SMTT(60) DEF Index
<1>5. Minus(e, x) = Minus(e, d) + Minus(d, x)
  <2>1. Minus(e, d) + Minus(d, x) < Wrap
    BY <1>1, HalfRangeFacts, Constants, SMTT(60) DEF Index
  <2> QED
    BY <1>1, <1>3, <2>1, Constants, SMTT(60) DEF Index
<1>6. Minus(e, x1) = Minus(e, x) - 1
  BY <1>1, <1>4, <1>5, MinusAdvance, SMTT(60) DEF Index
<1>7. VacatedIn(e, d, i) => Minus(e, d) < Minus(e, i)
  BY <1>1, <1>3, Constants, SMTT(60) DEF Index, VacatedIn
<1>8. Minus(e, i) <= Minus(e, x)
  <2>1. CASE Minus(e, x) < Minus(e, i)
    <3>1. x = e
      BY <2>1, RoundOlder, ZenonT(60)
    <3> QED
      BY <1>1, <1>4, <1>5, <3>1, MinusZero, SMTT(60) DEF Index
  <2> QED
    BY <1>1, <2>1, SMTT(60) DEF Index
<1>9. CASE i = x
  <2>1. VacatedIn(e, d, x)
    BY <1>1, <1>4, <1>5, <1>9, Constants, SMTT(60) DEF Index, VacatedIn
  <2>2. ~FilledIn(e, d, x)
    BY <2>1, ZonesDisjoint, Zenon
  <2>3. y = x1 \/ y = Plus(x, Capacity)
    BY <1>9, <2>2, Zenon
  <2>4. Minus(x1, x1) = 0
    BY <1>1, PlusZero, ZenonT(60)
  <2>5. Minus(Plus(x, Capacity), x1) = Capacity - 1
    <3>1. /\ x1 = IF x + 1 < Wrap THEN x + 1 ELSE x + 1 - Wrap
          /\ Plus(x, Capacity) = IF x + Capacity < Wrap THEN x + Capacity ELSE x + Capacity - Wrap
      BY <1>1, PlusCases, Zenon
    <3>2. Plus(x, Capacity) \in Index
      BY <1>1, IndexClosed, Zenon
    <3>3. Minus(Plus(x, Capacity), x1) =
            IF Plus(x, Capacity) >= x1 THEN Plus(x, Capacity) - x1
            ELSE Plus(x, Capacity) - x1 + Wrap
      BY <1>1, <3>2, MinusCases, ZenonT(60)
    <3> QED
      BY <1>1, <3>1, <3>2, <3>3, Constants, SMTT(60) DEF Index
  <2> QED
    BY <1>2, <2>3, <2>4, <2>5, HalfRangeFacts, Constants, SMTT(60)
<1>10. CASE i # x
  <2>1. Minus(e, i) <= Minus(e, x1)
    BY <1>1, <1>3, <1>6, <1>8, <1>10, Constants, SMTT(60) DEF Index
  <2>2. ASSUME NEW a \in {0, 1, Capacity}, y = Plus(i, a), a = Capacity => VacatedIn(e, d, i)
        PROVE  FALSE
    <3>1. a \in Index
      BY <1>1, Constants, SMTT(60) DEF Index
    <3>2. Minus(e, x1) - Minus(e, i) + a <= HalfRange
      <4>1. CASE a = Capacity
        BY <1>1, <1>5, <1>6, <1>7, <2>2, <4>1, HalfRangeFacts, Constants, SMTT(60) DEF Index
      <4>2. CASE a \in {0, 1}
        BY <1>1, <1>5, <1>6, <4>2, HalfRangeFacts, Constants, SMTT(60) DEF Index
      <4> QED
        BY <4>1, <4>2, ZenonT(60)
    <3>3. Minus(e, x1) \in Index
      BY <1>1, IndexClosed, ZenonT(60)
    <3>5. Minus(e, x1) - Minus(e, i) + a < Wrap
      BY <1>1, <3>1, <3>2, <3>3, HalfRangeFacts, Constants, SMTT(60) DEF Index
    <3>4. Minus(y, x1) = Minus(e, x1) - Minus(e, i) + a
      <4> HIDE DEF x1
      <4>1. Minus(Plus(i, a), x1) = Minus(e, x1) - Minus(e, i) + a
        BY <1>1, <2>1, <3>1, <3>5, DistanceSum, SMTT(60)
      <4> QED
        BY <2>2, <4>1, ZenonT(60)
    <3> QED
      BY <1>1, <1>2, <3>1, <3>2, <3>3, <3>4, HalfRangeFacts, SMTT(60) DEF Index
  <2> QED
    BY <2>2, PlusZero, Constants, SMTT(60)
<1> QED
  BY <1>9, <1>10, Zenon

-----------------------------------------------------------------------------
USE DEF Size, Filled, Vacated

(***************************************************************************)
(* Old tickets: while no thread sits on a ticket for half the range, the   *)
(* comparison of a sequence number with a ticket is never misread.         *)
(***************************************************************************)
\* How old the ticket of a thread that has not claimed it may be.
StallInv ==
  /\ \A p \in Producers : pc[p] \in {"sequence", "claim"} => Minus(enqueue_pos_, pos[p]) <= MaxStall
  /\ \A c \in Consumers : pc[c] \in {"sequence", "claim"} => Minus(dequeue_pos_, pos[c]) <= MaxStall

StallShort == MaxStall + Capacity - 1 <= HalfRange

LEMMA StallInNat == MaxStall \in Nat /\ MaxStall > 0
BY Constants, MpmcAssumption

LEMMA StallStep == MaxStall < Wrap /\ Typed /\ StallInv /\ [Next]_vars => StallInv'
\* The counter of a side moves on by one, and no thread of the side is left
\* further behind than MaxStall.
<1>StallAdvance. ASSUME NEW side, NEW counter \in Index, StallBounded(side, counter), MaxStall < Wrap,
             NEW t \in side, pc[t] \in {"sequence", "claim"}, pos[t] \in Index
      PROVE  Minus(Plus(counter, 1), pos[t]) <= MaxStall
  <2> USE <1>StallAdvance
  <2>1. Minus(counter, pos[t]) < MaxStall /\ Minus(counter, pos[t]) \in Index
    BY IndexClosed, ZenonT(60) DEF StallBounded
  <2>2. Minus(counter, pos[t]) < Wrap - 1
    BY <2>1, StallInNat, HalfRangeFacts, Constants, SMTT(60) DEF Index
  <2>3. Minus(Plus(counter, 1), pos[t]) = Minus(counter, pos[t]) + 1
    BY <2>2, MinusAdvance, Zenon
  <2> QED
    BY <2>1, <2>3, StallInNat, HalfRangeFacts, SMTT(60) DEF Index
<1> SUFFICES ASSUME MaxStall < Wrap, Typed, StallInv, [Next]_vars PROVE StallInv'
  BY Zenon
<1> USE MpmcAssumption DEF Threads
<1>1. /\ enqueue_pos_ \in Index /\ dequeue_pos_ \in Index /\ pos \in [Threads -> Index]
      /\ pc \in [Threads -> Labels]
  BY Zenon DEF Typed, TypeOK
<1>2. Minus(enqueue_pos_, enqueue_pos_) <= MaxStall /\ Minus(dequeue_pos_, dequeue_pos_) <= MaxStall
  BY <1>1, MinusZero, StallInNat, HalfRangeFacts, SMTT(60)
<1>3. ASSUME NEW p \in Producers, ProducerStep(p)
      PROVE  StallInv'
  <2>1. CASE PushClaim(p)
    <3>1. /\ enqueue_pos_' = Plus(enqueue_pos_, 1) /\ dequeue_pos_' = dequeue_pos_ /\ pos' = pos
          /\ pc'[p] = "construct" /\ \A u \in Threads \ {p} : pc'[u] = pc[u]
          /\ StallBounded(Producers, enqueue_pos_)
      BY <1>1, <2>1, Zenon DEF PushClaim, Goto
    <3>2. \A q \in Producers : pc[q] \in {"sequence", "claim"} =>
            Minus(Plus(enqueue_pos_, 1), pos[q]) <= MaxStall
      BY <1>1, <3>1, <1>StallAdvance, ZenonT(60)
    <3> QED
      BY <3>1, <3>2, Zenon DEF StallInv
  <2>2. CASE ~PushClaim(p)
    <3>1. /\ UNCHANGED <<enqueue_pos_, dequeue_pos_>>
          /\ \A u \in Threads \ {p} : pc'[u] = pc[u] /\ pos'[u] = pos[u]
      BY <1>1, <1>3, <2>2, ZenonT(60) DEF ProducerStep, TryPush, PushLoadSequence, PushReload, PushClaimFails,
         Construct, Publish, Goto, Return
    <3>2. pc'[p] \in {"sequence", "claim"} =>
            pos'[p] = enqueue_pos_ \/ (pos'[p] = pos[p] /\ pc[p] \in {"sequence", "claim"})
      BY <1>1, <1>3, <2>2, ZenonT(60) DEF ProducerStep, TryPush, PushLoadSequence, PushReload, PushClaimFails,
         Construct, Publish, Goto, Return
    <3> QED
      BY <1>2, <3>1, <3>2, ZenonT(60) DEF StallInv
  <2> QED
    BY <2>1, <2>2, Zenon
<1>4. ASSUME NEW c \in Consumers, ConsumerStep(c)
      PROVE  StallInv'
  <2>1. CASE PopClaim(c)
    <3>1. /\ dequeue_pos_' = Plus(dequeue_pos_, 1) /\ enqueue_pos_' = enqueue_pos_ /\ pos' = pos
          /\ pc'[c] = "move" /\ \A u \in Threads \ {c} : pc'[u] = pc[u]
          /\ StallBounded(Consumers, dequeue_pos_)
      BY <1>1, <2>1, Zenon DEF PopClaim, Goto
    <3>2. \A u \in Consumers : pc[u] \in {"sequence", "claim"} =>
            Minus(Plus(dequeue_pos_, 1), pos[u]) <= MaxStall
      BY <1>1, <3>1, <1>StallAdvance, Zenon
    <3> QED
      BY <3>1, <3>2, Zenon DEF StallInv
  <2>2. CASE ~PopClaim(c)
    <3>1. /\ UNCHANGED <<enqueue_pos_, dequeue_pos_>>
          /\ \A u \in Threads \ {c} : pc'[u] = pc[u] /\ pos'[u] = pos[u]
      BY <1>1, <1>4, <2>2, ZenonT(60) DEF ConsumerStep, TryPop, PopLoadSequence, PopReload, PopClaimFails,
         MoveOut, Release, Goto, Return
    <3>2. pc'[c] \in {"sequence", "claim"} =>
            pos'[c] = dequeue_pos_ \/ (pos'[c] = pos[c] /\ pc[c] \in {"sequence", "claim"})
      BY <1>1, <1>4, <2>2, Zenon DEF ConsumerStep, TryPop, PopLoadSequence, PopReload, PopClaimFails,
         MoveOut, Release, Goto, Return
    <3> QED
      BY <1>2, <3>1, <3>2, ZenonT(60) DEF StallInv
  <2> QED
    BY <2>1, <2>2, ZenonT(60)
<1>5. CASE Destroy \/ UNCHANGED vars
  BY <1>5, Zenon DEF Destroy, vars, StallInv
<1> QED
  BY <1>3, <1>4, <1>5, Zenon DEF Next

-----------------------------------------------------------------------------
(***************************************************************************)
(* The refinement mapping, ticket by ticket.                               *)
(***************************************************************************)
Pending(i) == {p \in Producers : pc[p] \in {"construct", "publish"} /\ pos[p] = i}

EntryValue(i) ==
  IF Pending(i) = {} THEN storage[Slot(i)] ELSE val[CHOOSE p \in Pending(i) : TRUE]

EntryBy(i) == IF Pending(i) = {} THEN NoValue ELSE CHOOSE p \in Pending(i) : TRUE

EntryReady(i) == Pending(i) = {}

Entry(i) == [value |-> EntryValue(i), by |-> EntryBy(i), ready |-> EntryReady(i)]

Entries ==
  [value : Values \cup {NoValue}, by : Producers \cup {NoValue}, ready : BOOLEAN]

\* The entry of a ticket whose producer is still at work, and of any other.
ProducerEntries ==
  \A p \in Producers, i \in Index : Pushing(p) /\ pos[p] = i =>
    Entry(i) = [value |-> val[p], by |-> p, ready |-> FALSE]

ElementEntries ==
  \A i \in Index : (\A p \in Producers : Pushing(p) => pos[p] # i) =>
    Entry(i) = [value |-> storage[Slot(i)], by |-> NoValue, ready |-> TRUE]

LEMMA EntryOfProducer == OwnersInv => ProducerEntries
<1> SUFFICES ASSUME OwnersInv, NEW p \in Producers, NEW i \in Index, Pushing(p), pos[p] = i
             PROVE  Entry(i) = [value |-> val[p], by |-> p, ready |-> FALSE]
  BY Zenon DEF ProducerEntries
<1>1. Pending(i) = {p}
  BY Zenon DEF Pending, OwnersInv, Pushing
<1>2. (CHOOSE q \in {p} : TRUE) = p
  BY Zenon
<1>3. EntryValue(i) = val[p] /\ EntryBy(i) = p
  BY <1>1, <1>2, Zenon DEF EntryValue, EntryBy
<1>4. EntryReady(i) = FALSE
  BY <1>1, Zenon DEF EntryReady
<1> QED
  BY <1>3, <1>4, Zenon DEF Entry

LEMMA EntryOfElement == ElementEntries
<1> SUFFICES ASSUME NEW i \in Index, \A p \in Producers : Pushing(p) => pos[p] # i
             PROVE  Entry(i) = [value |-> storage[Slot(i)], by |-> NoValue, ready |-> TRUE]
  BY Zenon DEF ElementEntries
<1>1. Pending(i) = {}
  BY Zenon DEF Pending, Pushing
<1>2. EntryValue(i) = storage[Slot(i)] /\ EntryBy(i) = NoValue
  BY <1>1, Zenon DEF EntryValue, EntryBy
<1>3. EntryReady(i) = TRUE
  BY <1>1, Zenon DEF EntryReady
<1> QED
  BY <1>2, <1>3, Zenon DEF Entry

LEMMA EntrySame ==
  ASSUME NEW i,
         \A p \in Producers : (Pushing(p)' /\ pos'[p] = i) <=> (Pushing(p) /\ pos[p] = i),
         \A p \in Producers : Pushing(p) /\ pos[p] = i => val'[p] = val[p],
         (\A p \in Producers : Pushing(p) => pos[p] # i) => storage'[Slot(i)] = storage[Slot(i)]
  PROVE  Entry(i)' = Entry(i)
<1>1. Pending(i)' = Pending(i)
  BY Zenon DEF Pending, Pushing
<1>2. EntryBy(i)' = EntryBy(i)
  BY <1>1 DEF EntryBy
<1>3. EntryReady(i)' = EntryReady(i)
  BY <1>1, Zenon DEF EntryReady
<1>4. EntryValue(i)' = EntryValue(i)
  <2>1. CASE Pending(i) = {}
    <3>1. storage'[Slot(i)] = storage[Slot(i)]
      BY <2>1, Zenon DEF Pending, Pushing
    <3> QED
      BY <1>1, <2>1, <3>1, Zenon DEF EntryValue
  <2>2. CASE Pending(i) # {}
    <3> DEFINE q == CHOOSE p \in Pending(i) : TRUE
    <3>1. q \in Pending(i)
      BY <2>2, Zenon
    <3>2. val'[q] = val[q]
      BY <3>1, Zenon DEF Pending, Pushing
    <3>3. EntryValue(i) = val[q] /\ EntryValue(i)' = val'[q]
      BY <1>1, <2>2, Zenon DEF EntryValue
    <3> QED
      BY <3>2, <3>3, Zenon
  <2> QED
    BY <2>1, <2>2, Zenon
<1> QED
  BY <1>2, <1>3, <1>4, Zenon DEF Entry

\* The contents are a sequence of entries, one for each filled ticket.
LEMMA ContentsEntries ==
  RingInv => /\ Contents \in Seq(Entries) /\ Len(Contents) = Size
             /\ Contents = [k \in 1 .. Size |-> Entry(Plus(dequeue_pos_, k - 1))]
<1> SUFFICES ASSUME RingInv
             PROVE  /\ Contents \in Seq(Entries) /\ Len(Contents) = Size
                    /\ Contents = [k \in 1 .. Size |-> Entry(Plus(dequeue_pos_, k - 1))]
  BY Zenon
<1>1. Contents = [k \in 1 .. Size |-> Entry(Plus(dequeue_pos_, k - 1))]
  BY Zenon DEF Contents, Entry, EntryValue, EntryBy, EntryReady, Pending
<1>2. enqueue_pos_ \in Index /\ dequeue_pos_ \in Index /\ Size \in Nat
  BY IndexClosed DEF RingInv, Typed, TypeOK, Index
<1>3. ASSUME NEW i \in Index
      PROVE  Entry(i) \in Entries
  <2>1. Slot(i) \in Slots
    BY SlotInRange, Zenon
  <2>2. EntryReady(i) \in BOOLEAN
    BY Zenon DEF EntryReady
  <2>3. EntryValue(i) \in Values \cup {NoValue} /\ EntryBy(i) \in Producers \cup {NoValue}
    <3>1. CASE Pending(i) = {}
      BY <2>1, <3>1, Zenon DEF EntryValue, EntryBy, RingInv, Typed, TypeOK
    <3>2. CASE Pending(i) # {}
      <4>1. (CHOOSE p \in Pending(i) : TRUE) \in Producers
        BY <3>2, Zenon DEF Pending
      <4>2. val[CHOOSE p \in Pending(i) : TRUE] \in Values \cup {NoValue}
        BY <4>1, Zenon DEF RingInv, Typed, TypeOK, Threads
      <4> QED
        BY <3>2, <4>1, <4>2, Zenon DEF EntryValue, EntryBy
    <3> QED
      BY <3>1, <3>2, Zenon
  <2> QED
    BY <2>2, <2>3, Zenon DEF Entry, Entries
<1>4. Contents \in [1 .. Size -> Entries]
  BY <1>1, <1>2, <1>3, Positions, ZenonT(60)
<1> QED
  BY <1>1, <1>2, <1>4, FunctionIsSeq, Z3T(30)

LEMMA ContentsSame ==
  ASSUME RingInv, RingInv', UNCHANGED <<enqueue_pos_, dequeue_pos_>>,
         \A i \in Index : Filled(i) => Entry(i)' = Entry(i)
  PROVE  Contents' = Contents
<1>1. Contents = [k \in 1 .. Size |-> Entry(Plus(dequeue_pos_, k - 1))]
  BY ContentsEntries, Zenon
<1>2. (Contents = [k \in 1 .. Size |-> Entry(Plus(dequeue_pos_, k - 1))])'
  BY ContentsEntries, PTL
<1>3. \A k \in 1 .. Size : Entry(Plus(dequeue_pos_, k - 1))' = Entry(Plus(dequeue_pos_, k - 1))
  <2>1. enqueue_pos_ \in Index /\ dequeue_pos_ \in Index
    BY Zenon DEF RingInv, Typed, TypeOK
  <2> QED
    BY <2>1, Positions, Zenon
<1> QED
  BY <1>1, <1>2, <1>3, ZenonT(60)

-----------------------------------------------------------------------------
(***************************************************************************)
(* What each step does to the contents and to the elements being taken.    *)
(***************************************************************************)

\* A step of one thread that has no cell before it or after it.
LEMMA QuietContents ==
  ASSUME RingInv, RingInv', NEW t \in Threads,
         UNCHANGED <<enqueue_pos_, dequeue_pos_, storage>>,
         \A u \in Threads \ {t} : pc'[u] = pc[u] /\ pos'[u] = pos[u] /\ val'[u] = val[u],
         pc[t] \notin {"construct", "publish", "move", "release"},
         pc'[t] \notin {"construct", "publish", "move", "release"}
  PROVE  Contents' = Contents /\ Taking' = Taking
<1> USE MpmcAssumption DEF Threads
<1>1. \A p \in Producers : /\ Pushing(p)' <=> Pushing(p)
                           /\ Pushing(p) => pos'[p] = pos[p] /\ val'[p] = val[p]
  BY Zenon DEF Pushing
<1>2. \A i \in Index : Entry(i)' = Entry(i)
  BY <1>1, EntrySame, Zenon
<1>3. Contents' = Contents
  BY <1>2, ContentsSame, Zenon
<1>4. Taking' = Taking
  BY ZenonT(60) DEF Taking
<1> QED
  BY <1>3, <1>4, Zenon

-----------------------------------------------------------------------------
(***************************************************************************)
(* Every step of the queue is a step of TicketFifo or changes nothing a    *)
(* caller can see.                                                         *)
(***************************************************************************)

\* Only a living queue has a thread inside.
LEMMA ThreadsInside ==
  ASSUME StorageInv, NEW t \in Threads, pc[t] # "idle"
  PROVE  alive
BY Zenon DEF StorageInv

LEMMA ProducerRefines ==
  ASSUME StallShort, RingInv, RingInv', StorageInv, StallInv,
         NEW p \in Producers, ProducerStep(p)
  PROVE  Fifo!Next
\* try_push answers false only when the ring is full or a consumer has a
\* cell: the comparison of the cell's sequence number with a ticket is never
\* negative because the ticket is old.
<1>PushFullJustified. ASSUME pc[p] = "sequence",
             compare_tickets(sequence[Slot(pos[p])], pos[p]) < 0
      PROVE  Size = Capacity \/ \E c \in Consumers : Popping(c)
  <2> USE <1>PushFullJustified
  <2> DEFINE e == enqueue_pos_
             d == dequeue_pos_
             x == pos[p]
             y == sequence[Slot(x)]
  <2>1. /\ e \in Index /\ d \in Index /\ x \in Index /\ y \in Index
        /\ Minus(e, d) \in Index /\ Minus(e, d) <= Capacity
    BY IndexClosed, SlotInRange, ZenonT(60) DEF RingInv, Typed, TypeOK, Threads
  <2>2. Minus(e, x) + Capacity - 1 <= HalfRange /\ Capacity <= HalfRange
    <3>1. Minus(e, x) <= MaxStall /\ Minus(e, x) \in Index
      BY <2>1, IndexClosed, Zenon DEF StallInv
    <3> QED
      BY <3>1, StallInNat, HalfRangeFacts, Constants, Z3T(30) DEF StallShort, Index
  <2>3. PICK i \in Index : Slot(i) = Slot(x) /\ Minus(e, i) \in 1 .. Capacity
    BY <2>1, SlotInRange, SlotsCovered, Zenon
  <2>4. Filled(i) \/ Vacated(i)
    BY <2>1, <2>3, ZonesCover, Zenon
  <2>5. y \in {i, Plus(i, 1), Plus(i, Capacity)}
    BY <2>3, <2>4, Zenon DEF RingInv, TurnsInv
  <2>6. x = e
    BY <2>1, <2>2, <2>3, <2>5, PushNotBehind, ZenonT(60)
  <2>7. CASE Minus(e, d) < Capacity
    <3> DEFINE j == Minus(e, Capacity)
    <3>1. Vacated(j) /\ j \in Index /\ Slot(j) = Slot(x) /\ Plus(j, Capacity) = x
      BY <2>1, <2>6, <2>7, PushShift, TurnsDiffer, SlotAdvance, ZenonT(60)
    <3>2. y # x
      BY <2>1, CompareEqual, Zenon
    <3> QED
      BY <3>1, <3>2, Zenon DEF RingInv, TurnsInv
  <2> QED
    BY <2>1, <2>7, Constants, SMTT(60) DEF Index
\* Construction: the entry already has the value.
<1>ConstructContents. ASSUME Construct(p)
      PROVE  Contents' = Contents /\ Taking' = Taking
  <2> USE <1>ConstructContents
  <2> USE MpmcAssumption DEF Threads
  <2>1. /\ enqueue_pos_ \in Index /\ dequeue_pos_ \in Index /\ Size <= Capacity
        /\ pos \in [Threads -> Index]
        /\ storage \in [Slots -> Values \cup {NoValue}] /\ \A j \in Index : Slot(j) \in Slots
    BY SlotInRange, Zenon DEF RingInv, Typed, TypeOK
  <2>2. /\ UNCHANGED <<enqueue_pos_, dequeue_pos_, pos, val>>
        /\ pc[p] = "construct" /\ pc'[p] = "publish"
        /\ storage' = [storage EXCEPT ![Slot(pos[p])] = val[p]]
        /\ \A u \in Threads \ {p} : pc'[u] = pc[u]
    BY Zenon DEF Construct, Goto, RingInv, Typed
  <2>3. /\ Pushing(p) /\ Filled(pos[p])
        /\ \A q \in Producers : Pushing(q)' <=> Pushing(q)
        /\ \A c \in Consumers : pc'[c] = pc[c] /\ (pc[c] = "move" => Vacated(pos[c]))
    BY <2>2, ZenonT(60) DEF Pushing, Popping, RingInv, OwnersInv
  <2>4. ASSUME NEW i \in Index, Filled(i) \/ Vacated(i), i # pos[p]
        PROVE  storage'[Slot(i)] = storage[Slot(i)]
    <3>1. Slot(i) # Slot(pos[p])
      BY <2>1, <2>3, <2>4, ZonesApart, Zenon
    <3> QED
      BY <2>1, <2>2, <3>1, Zenon
  <2>5. ASSUME NEW i \in Index, Filled(i)
        PROVE  Entry(i)' = Entry(i)
    BY <2>2, <2>3, <2>4, <2>5, EntrySame, ZenonT(60)
  <2>6. Contents' = Contents
    BY <2>2, <2>5, ContentsSame, Zenon
  <2>7. \A c \in Consumers : pc[c] = "move" => storage'[Slot(pos[c])] = storage[Slot(pos[c])]
    <3>1. ~Vacated(pos[p])
      BY <2>1, <2>3, ZonesDisjoint, ZenonT(60)
    <3> QED
      BY <2>1, <2>3, <2>4, <3>1, ZenonT(60)
  <2>8. Taking' = Taking
    BY <2>2, <2>3, <2>7, SMTT(60) DEF Taking
  <2> QED
    BY <2>6, <2>8, Zenon
\* Winning the compare-exchange: the claimed element is the newest.
<1>PushClaimContents. ASSUME PushClaim(p)
      PROVE  /\ Len(Contents) < Capacity
             /\ Contents' = Append(Contents, [value |-> val[p], by |-> p, ready |-> FALSE])
             /\ Taking' = Taking
  <2> USE <1>PushClaimContents
  <2> USE MpmcAssumption DEF Threads
  <2>1. PICK e \in Index, d \in Index : e = enqueue_pos_ /\ d = dequeue_pos_
    BY ZenonT(60) DEF RingInv, Typed, TypeOK
  <2> DEFINE n == Minus(e, d)
             claimed == [value |-> val[p], by |-> p, ready |-> FALSE]
  <2>2. n \in Nat /\ n <= Capacity /\ n < Capacity
    <3>1. n < Capacity /\ n <= Capacity
      BY <2>1, PushClaimsFree, Zenon DEF RingInv
    <3> QED
      BY <3>1, IndexClosed, SMTT(60) DEF Index
  <2>3. /\ enqueue_pos_' = Plus(e, 1) /\ dequeue_pos_' = d /\ UNCHANGED <<pos, storage, val>>
        /\ pc[p] = "claim" /\ pc'[p] = "construct" /\ pos[p] = e
        /\ \A u \in Threads \ {p} : pc'[u] = pc[u]
    BY <2>1, Zenon DEF PushClaim, Goto, RingInv, Typed
  <2>4. Minus(Plus(e, 1), d) = n + 1 /\ ~FilledIn(e, d, e)
    BY <2>2, PushShift, ZonesDisjoint, Zenon
  <2>5. /\ Pushing(p)' /\ ~Pushing(p)
        /\ \A q \in Producers \ {p} : Pushing(q)' <=> Pushing(q)
    BY <2>3, Zenon DEF Pushing
  <2>6. ASSUME NEW i \in Index, FilledIn(e, d, i)
        PROVE  Entry(i)' = Entry(i)
    <3>1. i # e
      BY <2>4, <2>6, Zenon
    <3> QED
      BY <2>3, <2>5, <3>1, EntrySame, ZenonT(60)
  <2>7. Entry(e)' = claimed
    <3>1. OwnersInv'
      BY Zenon DEF RingInv
    <3>2. ProducerEntries'
      BY <3>1, EntryOfProducer, PTL
    <3> QED
      BY <2>3, <2>5, <3>2, ZenonT(60) DEF ProducerEntries
  <2>8. /\ Contents \in Seq(Entries) /\ Len(Contents) = n
        /\ Contents = [k \in 1 .. n |-> Entry(Plus(d, k - 1))]
    BY <2>1, ContentsEntries, Zenon
  <2>9. /\ Contents' \in Seq(Entries) /\ Len(Contents') = n + 1
        /\ Contents' = [k \in 1 .. n + 1 |-> Entry(Plus(d, k - 1))']
    <3>1. (/\ Contents \in Seq(Entries) /\ Len(Contents) = Size
           /\ Contents = [k \in 1 .. Size |-> Entry(Plus(dequeue_pos_, k - 1))])'
      BY ContentsEntries, PTL
    <3> QED
      BY <2>3, <2>4, <3>1, Zenon DEF Entries
  <2>10. Contents' = Append(Contents, claimed)
    <3>1. ASSUME NEW k \in 1 .. n
          PROVE  Contents'[k] = Contents[k]
      <4>1. Entry(Plus(d, k - 1))' = Entry(Plus(d, k - 1))
        BY <2>6, Positions, ZenonT(60)
      <4>2. k \in 1 .. n + 1
        BY <2>2
      <4> QED
        BY <2>8, <2>9, <4>1, <4>2, ZenonT(60)
    <3>2. Contents'[n + 1] = claimed
      <4>1. PICK k \in 1 .. n + 1 : k = n + 1
        BY <2>2, SMTT(60)
      <4>2. Plus(d, k - 1) = e
        BY <2>2, <4>1, Positions, SMTT(60)
      <4>3. Contents'[k] = Entry(e)'
        BY <2>9, <4>2, Zenon
      <4> QED
        BY <2>7, <4>1, <4>3, ZenonT(60)
    <3>3. claimed \in Entries
      <4>1. val[p] \in Values \cup {NoValue}
        BY Zenon DEF RingInv, Typed, TypeOK
      <4> QED
        BY <4>1, Zenon DEF Entries
    <3> HIDE DEF claimed, n
    <3> QED
      BY <2>8, <2>9, <3>1, <3>2, <3>3, AppendIs, ZenonT(60)
  <2>11. Taking' = Taking
    BY <2>3, Zenon DEF Taking
  <2> QED
    BY <2>2, <2>8, <2>10, <2>11, ZenonT(60)
\* The stored sequence number makes the element ready.
<1>PublishContents. ASSUME Publish(p)
      PROVE  /\ \E k \in DOMAIN Contents :
                  /\ Contents[k].by = p /\ ~Contents[k].ready
                  /\ Contents' = [Contents EXCEPT ![k].ready = TRUE, ![k].by = NoValue]
             /\ Taking' = Taking
  <2> USE <1>PublishContents
  <2> USE MpmcAssumption DEF Threads
  <2>1. PICK e \in Index, d \in Index, i \in Index :
          e = enqueue_pos_ /\ d = dequeue_pos_ /\ i = pos[p]
    BY Zenon DEF RingInv, Typed, TypeOK
  <2> DEFINE n == Minus(e, d)
  <2>2. /\ enqueue_pos_' = e /\ dequeue_pos_' = d /\ storage' = storage
        /\ pc[p] = "publish" /\ pc'[p] = "idle"
        /\ \A u \in Threads \ {p} : pc'[u] = pc[u] /\ pos'[u] = pos[u] /\ val'[u] = val[u]
    BY <2>1, Zenon DEF Publish, Return, RingInv, Typed, TypeOK
  <2>3. /\ Pushing(p) /\ ~Pushing(p)'
        /\ \A q \in Producers \ {p} : (Pushing(q)' <=> Pushing(q)) /\ pos'[q] = pos[q] /\ val'[q] = val[q]
        /\ FilledIn(e, d, i)
        /\ \A q \in Producers \ {p} : Pushing(q) => pos[q] # i
        /\ storage[Slot(i)] = val[p]
    <3>1. Pushing(p) /\ ~Pushing(p)'
      BY <2>2, Zenon DEF Pushing
    <3>2. \A q \in Producers \ {p} :
            (Pushing(q)' <=> Pushing(q)) /\ pos'[q] = pos[q] /\ val'[q] = val[q]
      BY <2>2, Zenon DEF Pushing
    <3>3. FilledIn(e, d, i) /\ \A q \in Producers \ {p} : Pushing(q) => pos[q] # i
      BY <2>1, <3>1, Zenon DEF RingInv, OwnersInv
    <3>4. storage[Slot(i)] = val[p]
      BY <2>1, <2>2, Zenon DEF StorageInv
    <3> QED
      BY <3>1, <3>2, <3>3, <3>4, ZenonT(60)
  <2>4. ASSUME NEW j \in Index, j # i
        PROVE  Entry(j)' = Entry(j)
    BY <2>1, <2>2, <2>3, <2>4, EntrySame, ZenonT(60)
  <2>5. Entry(i) = [value |-> val[p], by |-> p, ready |-> FALSE]
    BY <2>1, <2>3, EntryOfProducer, ZenonT(60) DEF ProducerEntries, RingInv
  <2>6. Entry(i)' = [value |-> val[p], by |-> NoValue, ready |-> TRUE]
    <3>1. ElementEntries'
      BY EntryOfElement, PTL
    <3>2. \A q \in Producers : Pushing(q)' => pos'[q] # i
      BY <2>3, Zenon
    <3> QED
      BY <2>2, <2>3, <3>1, <3>2, ZenonT(60) DEF ElementEntries
  <2>7. /\ Contents \in Seq(Entries) /\ Len(Contents) = n
        /\ Contents = [k \in 1 .. n |-> Entry(Plus(d, k - 1))]
    BY <2>1, ContentsEntries, Zenon
  <2>8. Contents' = [k \in 1 .. n |-> Entry(Plus(d, k - 1))']
    <3>1. (Contents = [k \in 1 .. Size |-> Entry(Plus(dequeue_pos_, k - 1))])'
      BY ContentsEntries, PTL
    <3> QED
      BY <2>2, <3>1, Zenon
  <2>9. PICK k \in 1 .. n : k = Minus(i, d) + 1 /\ Plus(d, k - 1) = i
    <3>1. Minus(i, d) + 1 \in 1 .. n /\ Plus(d, Minus(i, d)) = i /\ Minus(i, d) \in Nat
      BY <2>3, Positions, IndexClosed, SMTT(60) DEF Index
    <3> QED
      BY <3>1, SMTT(60)
  <2>10. Contents[k] = Entry(i) /\ Contents'[k] = Entry(i)'
    BY <2>7, <2>8, <2>9, Zenon
  <2>11. ASSUME NEW m \in 1 .. n, m # k
         PROVE  Contents'[m] = Contents[m]
    <3>1. PICK j \in Index : j = Plus(d, m - 1) /\ Minus(j, d) = m - 1
      BY Positions, SMTT(60)
    <3>2. j # i
      BY <2>9, <2>11, <3>1, IndexClosed, SMTT(60) DEF Index
    <3> QED
      BY <2>4, <2>7, <2>8, <3>1, <3>2, ZenonT(60)
  <2>12. Contents' = [Contents EXCEPT ![k].ready = TRUE, ![k].by = NoValue]
    <3>1. n \in Nat
      BY IndexClosed, SMTT(60) DEF Index
    <3> HIDE DEF n
    <3>2. /\ Contents = [m \in 1 .. n |-> Contents[m]]
          /\ Contents' = [m \in 1 .. n |-> Contents'[m]]
      BY <2>7, <2>8, ZenonT(60)
    <3>3. Contents[k] = [value |-> val[p], by |-> p, ready |-> FALSE]
      BY <2>5, <2>10, ZenonT(60)
    <3>4. PICK yes, no : yes = TRUE /\ no = FALSE
      BY Zenon
    <3>5. Contents'[k] = [[Contents[k] EXCEPT !.ready = yes] EXCEPT !.by = NoValue]
      <4> DEFINE q == [Contents[k] EXCEPT !.ready = yes]
      <4>1. Contents[k] = [value |-> val[p], by |-> p, ready |-> no]
        BY <3>3, <3>4, ZenonT(60)
      <4>2. q = [value |-> val[p], by |-> p, ready |-> yes]
        BY <4>1, SMTT(60)
      <4> HIDE DEF q
      <4>3. [q EXCEPT !.by = NoValue] = [value |-> val[p], by |-> NoValue, ready |-> yes]
        BY <4>2
      <4>4. Contents'[k] = [value |-> val[p], by |-> NoValue, ready |-> yes]
        BY <2>6, <2>10, <3>4, ZenonT(60)
      <4> QED
        BY <4>3, <4>4, ZenonT(60) DEF q
    <3>6. \A m \in 1 .. n : m # k => Contents'[m] = Contents[m]
      BY <2>11, Zenon
    <3>7. Contents' = [Contents EXCEPT ![k].ready = yes, ![k].by = NoValue]
      BY <3>2, <3>5, <3>6, ZenonT(60)
    <3> QED
      BY <3>4, <3>7, ZenonT(60)
  <2>13. Contents[k].by = p /\ ~Contents[k].ready
    BY <2>5, <2>10, SMTT(60)
  <2>14. Taking' = Taking
    BY <2>2, ZenonT(60) DEF Taking
  <2> QED
    BY <2>7, <2>12, <2>13, <2>14, ZenonT(60)
<1> USE MpmcAssumption DEF Threads
<1>1. ASSUME alive, alive', Contents' = Contents, Taking' = Taking, returned' = <<>>
      PROVE  Fifo!Next
  BY <1>1, Zenon DEF Fifo!Next, Fifo!Internal
<1>2. ASSUME pc[p] \notin {"construct", "publish"}, pc'[p] \notin {"construct", "publish"},
             UNCHANGED <<enqueue_pos_, dequeue_pos_, storage>>,
             \A u \in Threads \ {p} : pc'[u] = pc[u] /\ pos'[u] = pos[u] /\ val'[u] = val[u]
      PROVE  Contents' = Contents /\ Taking' = Taking
  <2>1. pc[p] \notin {"move", "release"} /\ pc'[p] \notin {"move", "release"}
    BY Zenon DEF RingInv, Typed, TypeOK
  <2> QED
    BY <1>2, <2>1, QuietContents, Zenon
<1>3. pc[p] # "idle" => alive
  BY ThreadsInside, Zenon
<1>4. ASSUME NEW v \in Values, TryPush(p, v) PROVE Fifo!Next
  <2>1. Contents' = Contents /\ Taking' = Taking
    BY <1>2, <1>4, Zenon DEF TryPush, Goto, RingInv, Typed, TypeOK
  <2> QED
    BY <1>1, <1>4, <2>1, Zenon DEF TryPush, Goto
<1>5. CASE PushLoadSequence(p)
  <2>1. Contents' = Contents /\ Taking' = Taking
    BY <1>2, <1>5, ZenonT(60) DEF PushLoadSequence, Goto, Return, RingInv, Typed, TypeOK
  <2>2. alive /\ alive' = alive
    BY <1>3, <1>5, Zenon DEF PushLoadSequence
  <2>3. CASE compare_tickets(sequence[Slot(pos[p])], pos[p]) < 0 /\ Return(p, FALSE)
    <3>1. Size = Capacity \/ \E c \in Consumers : Popping(c)
      BY <1>5, <2>3, <1>PushFullJustified, ZenonT(60) DEF PushLoadSequence
    <3>2. ASSUME NEW c \in Consumers, Popping(c)
          PROVE  Taking[c] # NoValue
      <4>1. pos[c] \in Index /\ Vacated(pos[c]) /\ pc[c] \in {"move", "release"}
        BY <3>2, ZenonT(60) DEF Popping, RingInv, OwnersInv, Typed, TypeOK
      <4>2. CASE pc[c] = "move"
        <5>1. storage[Slot(pos[c])] # NoValue
          BY <4>1, <4>2, ZenonT(60) DEF StorageInv
        <5> QED
          BY <4>2, <5>1, ZenonT(60) DEF Taking
      <4>3. CASE pc[c] = "release"
        BY <4>3, SMTT(60) DEF Taking, StorageInv
      <4> QED
        BY <4>1, <4>2, <4>3, Zenon
    <3>3. Len(Contents) = Size
      BY ContentsEntries, Zenon
    <3>4. returned' = <<p, FALSE>>
      BY <2>3, Zenon DEF Return
    <3> QED
      BY <2>1, <2>2, <3>1, <3>2, <3>3, <3>4, ZenonT(60) DEF Fifo!Next, Fifo!PushFull
  <2>4. CASE returned' = <<>>
    BY <1>1, <2>1, <2>2, <2>4, ZenonT(60)
  <2> QED
    BY <1>5, <2>3, <2>4, ZenonT(60) DEF PushLoadSequence, Goto
<1>6. CASE PushReload(p)
  <2>1. Contents' = Contents /\ Taking' = Taking
    BY <1>2, <1>6, Zenon DEF PushReload, Goto, RingInv, Typed, TypeOK
  <2> QED
    BY <1>1, <1>3, <1>6, <2>1, ZenonT(60) DEF PushReload, Goto
<1>7. CASE PushClaim(p)
  <2>1. alive /\ alive' = alive /\ returned' = <<>> /\ val[p] \in Values
    BY <1>3, <1>7, ZenonT(60) DEF PushClaim, Goto, StorageInv
  <2> QED
    BY <1>7, <2>1, <1>PushClaimContents, ZenonT(60) DEF Fifo!Next, Fifo!Claim
<1>8. CASE PushClaimFails(p)
  <2>1. Contents' = Contents /\ Taking' = Taking
    BY <1>2, <1>8, ZenonT(60) DEF PushClaimFails, Goto, RingInv, Typed, TypeOK
  <2> QED
    BY <1>1, <1>3, <1>8, <2>1, ZenonT(60) DEF PushClaimFails, Goto
<1>9. CASE Construct(p)
  BY <1>1, <1>3, <1>9, <1>ConstructContents, ZenonT(60) DEF Construct, Goto
<1>10. CASE Publish(p)
  <2>1. alive /\ alive' = alive /\ returned' = <<p, TRUE>>
    BY <1>3, <1>10, ZenonT(60) DEF Publish, Return
  <2> QED
    BY <1>10, <2>1, <1>PublishContents, ZenonT(60) DEF Fifo!Next, Fifo!Publish
<1> QED
  BY <1>4, <1>5, <1>6, <1>7, <1>8, <1>9, <1>10, Zenon DEF ProducerStep

LEMMA ConsumerRefines ==
  ASSUME StallShort, RingInv, RingInv', StorageInv, StallInv,
         NEW c \in Consumers, ConsumerStep(c)
  PROVE  Fifo!Next
\* try_pop answers false only when the queue is empty or its oldest element
\* is claimed and not yet published.
<1>PopEmptyJustified. ASSUME pc[c] = "sequence",
             compare_tickets(sequence[Slot(pos[c])], Plus(pos[c], 1)) < 0
      PROVE  Size = 0 \/ \E p \in Producers : Pushing(p) /\ pos[p] = dequeue_pos_
  <2> USE <1>PopEmptyJustified
  <2> DEFINE e == enqueue_pos_
             d == dequeue_pos_
             x == pos[c]
             y == sequence[Slot(x)]
  <2>1. /\ e \in Index /\ d \in Index /\ x \in Index /\ y \in Index /\ Plus(x, 1) \in Index
        /\ Minus(e, d) \in Index /\ Minus(e, d) <= Capacity
    BY IndexClosed, SlotInRange, TurnsDiffer, ZenonT(60) DEF RingInv, Typed, TypeOK, Threads
  <2>2. Minus(d, x) + Capacity - 1 <= HalfRange /\ Capacity <= HalfRange
    <3>1. Minus(d, x) <= MaxStall /\ Minus(d, x) \in Index
      BY <2>1, IndexClosed, Zenon DEF StallInv
    <3> QED
      BY <3>1, StallInNat, HalfRangeFacts, Constants, SMTT(60) DEF StallShort, Index
  <2>3. PICK i \in Index : Slot(i) = Slot(x) /\ Minus(e, i) \in 1 .. Capacity
    BY <2>1, SlotInRange, SlotsCovered, ZenonT(60)
  <2>4. Filled(i) \/ Vacated(i)
    BY <2>1, <2>3, ZonesCover, ZenonT(60)
  <2>5. \/ y = Plus(i, 1)
        \/ Filled(i) /\ y = i
        \/ Vacated(i) /\ y = Plus(i, Capacity)
    BY <2>3, <2>4, ZenonT(60) DEF RingInv, TurnsInv
  <2>6. x = d
    BY <2>1, <2>2, <2>3, <2>5, PopNotBehind, ZenonT(60)
  <2>7. CASE 0 < Minus(e, d)
    <3>1. Filled(d)
      BY <2>1, <2>7, PopShift, Zenon
    <3>2. y # Plus(x, 1)
      BY <2>1, CompareEqual, Zenon
    <3> QED
      BY <2>1, <2>6, <3>1, <3>2, ZenonT(60) DEF RingInv, TurnsInv
  <2> QED
    BY <2>1, <2>7, Z3T(30) DEF Index
\* The move out: the consumer carries the element the cell held.
<1>MoveOutContents. ASSUME MoveOut(c)
      PROVE  Contents' = Contents /\ Taking' = Taking
  <2> USE <1>MoveOutContents
  <2> USE MpmcAssumption DEF Threads
  <2>1. /\ enqueue_pos_ \in Index /\ dequeue_pos_ \in Index /\ Size <= Capacity
        /\ pos \in [Threads -> Index] /\ val \in [Threads -> Values \cup {NoValue}]
        /\ storage \in [Slots -> Values \cup {NoValue}] /\ \A j \in Index : Slot(j) \in Slots
    BY SlotInRange, Zenon DEF RingInv, Typed, TypeOK
  <2>2. /\ UNCHANGED <<enqueue_pos_, dequeue_pos_, pos>>
        /\ pc[c] = "move" /\ pc'[c] = "release"
        /\ storage' = [storage EXCEPT ![Slot(pos[c])] = NoValue]
        /\ val' = [val EXCEPT ![c] = storage[Slot(pos[c])]]
        /\ \A u \in Threads \ {c} : pc'[u] = pc[u]
    BY Zenon DEF MoveOut, Goto, RingInv, Typed
  <2>3. /\ Vacated(pos[c])
        /\ \A q \in Producers : (Pushing(q)' <=> Pushing(q)) /\ val'[q] = val[q]
        /\ \A u \in Consumers \ {c} :
             pc'[u] = pc[u] /\ (pc[u] = "move" => Vacated(pos[u]) /\ pos[u] # pos[c])
    <3>1. ASSUME NEW q \in Producers
          PROVE  (Pushing(q)' <=> Pushing(q)) /\ val'[q] = val[q]
      <4>1. q \in Threads /\ q # c
        BY Zenon
      <4> QED
        BY <2>1, <2>2, <4>1, ZenonT(60) DEF Pushing
    <3>2. \A u \in Consumers : pc[u] = "move" => Popping(u)
      BY Zenon DEF Popping
    <3>3. /\ Vacated(pos[c])
          /\ \A u \in Consumers \ {c} :
               pc[u] = "move" => Vacated(pos[u]) /\ pos[u] # pos[c]
      BY <2>2, <3>2, Zenon DEF RingInv, OwnersInv
    <3> QED
      BY <2>2, <3>1, <3>3, ZenonT(60)
  <2>4. ASSUME NEW i \in Index, Filled(i) \/ Vacated(i), i # pos[c]
        PROVE  storage'[Slot(i)] = storage[Slot(i)]
    <3>1. Slot(i) # Slot(pos[c])
      BY <2>1, <2>3, <2>4, ZonesApart, ZenonT(60)
    <3> QED
      BY <2>1, <2>2, <3>1, ZenonT(60)
  <2>5. ASSUME NEW i \in Index, Filled(i)
        PROVE  Entry(i)' = Entry(i)
    <3>1. i # pos[c]
      BY <2>1, <2>3, <2>5, ZonesDisjoint, Zenon
    <3>2. storage'[Slot(i)] = storage[Slot(i)]
      BY <2>4, <2>5, <3>1, Zenon
    <3>3. \A p \in Producers : (Pushing(p)' <=> Pushing(p)) /\ pos'[p] = pos[p] /\ val'[p] = val[p]
      BY <2>2, <2>3, Zenon
    <3> QED
      BY <3>2, <3>3, EntrySame, Zenon
  <2>6. Contents' = Contents
    BY <2>2, <2>5, ContentsSame, ZenonT(60)
  <2>7. \A u \in Consumers \ {c} :
          pc[u] = "move" => storage'[Slot(pos[u])] = storage[Slot(pos[u])]
    BY <2>1, <2>3, <2>4, ZenonT(60)
  <2>8. val'[c] = storage[Slot(pos[c])] /\ \A u \in Consumers \ {c} : val'[u] = val[u]
    BY <2>1, <2>2, Zenon
  <2>9. Taking' = Taking
    BY <2>2, <2>3, <2>7, <2>8, SMTT(60) DEF Taking
  <2> QED
    BY <2>6, <2>9, ZenonT(60)
\* A consumer takes the oldest element, which is published.
<1>PopClaimContents. ASSUME PopClaim(c)
      PROVE  /\ Contents # <<>> /\ Head(Contents).ready
             /\ Contents' = Tail(Contents)
             /\ Taking' = [Taking EXCEPT ![c] = Head(Contents).value]
  <2> USE <1>PopClaimContents
  <2> USE MpmcAssumption DEF Threads
  <2>1. PICK e \in Index, d \in Index : e = enqueue_pos_ /\ d = dequeue_pos_
    BY Zenon DEF RingInv, Typed, TypeOK
  <2> DEFINE n == Minus(e, d)
  <2>2. /\ n \in Nat /\ n <= Capacity /\ 0 < n /\ n < Wrap
        /\ \A p \in Producers : Pushing(p) => pos[p] # d
    <3>1. /\ 0 < n /\ n <= Capacity
          /\ \A p \in Producers : Pushing(p) => pos[p] # d
      BY <2>1, PopClaimsPublished, Zenon DEF RingInv
    <3> QED
      BY <3>1, IndexClosed, Constants, SMTT(60) DEF Index
  <2>3. /\ dequeue_pos_' = Plus(d, 1) /\ enqueue_pos_' = e /\ UNCHANGED <<pos, storage, val>>
        /\ pc[c] = "claim" /\ pc'[c] = "move" /\ pos[c] = d
        /\ \A u \in Threads \ {c} : pc'[u] = pc[u]
    BY <2>1, Zenon DEF PopClaim, Goto, RingInv, Typed
  <2>4. Minus(e, Plus(d, 1)) = n - 1 /\ Plus(d, 1) \in Index
    BY <2>2, PopShift, TurnsDiffer, Zenon
  <2>5. ASSUME NEW i \in Index
        PROVE  Entry(i)' = Entry(i)
    <3>1. \A p \in Producers : Pushing(p)' <=> Pushing(p)
      BY <2>3, Zenon DEF Pushing
    <3> QED
      BY <2>3, <3>1, EntrySame, Zenon
  <2>6. Entry(d) = [value |-> storage[Slot(d)], by |-> NoValue, ready |-> TRUE]
    BY <2>2, EntryOfElement, Zenon DEF ElementEntries
  <2>7. /\ Contents \in Seq(Entries) /\ Len(Contents) = n
        /\ Contents = [k \in 1 .. n |-> Entry(Plus(d, k - 1))]
    BY <2>1, ContentsEntries, Zenon
  <2>8. /\ Contents' \in Seq(Entries) /\ Len(Contents') = n - 1
        /\ Contents' = [k \in 1 .. n - 1 |-> Entry(Plus(Plus(d, 1), k - 1))']
    <3>1. (/\ Contents \in Seq(Entries) /\ Len(Contents) = Size
           /\ Contents = [k \in 1 .. Size |-> Entry(Plus(dequeue_pos_, k - 1))])'
      BY ContentsEntries, PTL
    <3> QED
      BY <2>3, <2>4, <3>1, Zenon DEF Entries
  <2>9. Contents[1] = Entry(d)
    <3>1. PICK k \in 1 .. n : k = 1
      BY <2>2, SMTT(60)
    <3>2. Plus(d, k - 1) = d
      BY <3>1, PlusZero, SMTT(60)
    <3>3. Contents[k] = Entry(d)
      BY <2>7, <3>2, ZenonT(60)
    <3> QED
      BY <3>1, <3>3, ZenonT(60)
  <2>10. ASSUME NEW k \in 1 .. n - 1
         PROVE  Contents'[k] = Contents[k + 1]
    <3>1. k \in Nat /\ 0 < k /\ k < Wrap /\ k + 1 \in 1 .. n
      BY <2>2, Constants, SMTT(60)
    <3>2. PICK i \in Index : i = Plus(d, k) /\ i = Plus(Plus(d, 1), k - 1)
      <4>1. k \in Index
        BY <3>1, Constants, SMTT(60) DEF Index
      <4>2. Plus(d, k) \in Index
        BY <4>1, IndexClosed, ZenonT(60)
      <4> QED
        BY <3>1, <4>2, NextPosition, ZenonT(60)
    <3>3. Contents'[k] = Entry(i)'
      BY <2>8, <3>2, Zenon
    <3>4. Contents[k + 1] = Entry(i)
      <4>1. PICK m \in 1 .. n : m = k + 1 /\ m - 1 = k
        BY <3>1
      <4>2. Plus(d, m - 1) = i
        BY <3>2, <4>1, Zenon
      <4> QED
        BY <2>7, <4>1, <4>2, ZenonT(60)
    <3> QED
      BY <2>5, <3>3, <3>4, ZenonT(60)
  <2>11. Contents # <<>> /\ Head(Contents) = Contents[1] /\ Contents' = Tail(Contents)
    <3>1. Len(Contents) > 0 /\ Len(Contents') = Len(Contents) - 1
      BY <2>2, <2>7, <2>8, Zenon
    <3>2. \A k \in 1 .. Len(Contents') : Contents'[k] = Contents[k + 1]
      BY <2>8, <2>10, Zenon
    <3> QED
      BY <2>7, <2>8, <3>1, <3>2, TailIs, ZenonT(60)
  <2>12. Taking' = [Taking EXCEPT ![c] = storage[Slot(d)]]
    <3>1. \A u \in Consumers \ {c} : pc'[u] = pc[u]
      BY <2>3, Zenon
    <3> QED
      BY <2>3, <3>1, Zenon DEF Taking
  <2>13. Head(Contents) = [value |-> storage[Slot(d)], by |-> NoValue, ready |-> TRUE]
    BY <2>6, <2>9, <2>11, Zenon
  <2>14. Head(Contents).ready /\ Head(Contents).value = storage[Slot(d)]
    <3>1. ASSUME NEW t, t = [value |-> storage[Slot(d)], by |-> NoValue, ready |-> TRUE]
          PROVE  t.ready /\ t.value = storage[Slot(d)]
      BY <3>1, Zenon
    <3> QED
      BY <2>13, <3>1, Zenon
  <2> QED
    BY <2>11, <2>12, <2>14, ZenonT(60)
\* The cell goes back to the producers, and the consumer has its element.
<1>ReleaseContents. ASSUME Release(c)
      PROVE  /\ Contents' = Contents
             /\ Taking[c] = val[c] /\ Taking[c] # NoValue
             /\ Taking' = [Taking EXCEPT ![c] = NoValue]
  <2> USE <1>ReleaseContents
  <2> USE MpmcAssumption DEF Threads
  <2>1. /\ UNCHANGED <<enqueue_pos_, dequeue_pos_, storage>>
        /\ pc[c] = "release" /\ pc'[c] = "idle"
        /\ \A u \in Threads \ {c} : pc'[u] = pc[u] /\ pos'[u] = pos[u] /\ val'[u] = val[u]
    BY Zenon DEF Release, Return, RingInv, Typed, TypeOK
  <2>2. \A p \in Producers : (Pushing(p)' <=> Pushing(p)) /\ pos'[p] = pos[p] /\ val'[p] = val[p]
    BY <2>1, Zenon DEF Pushing
  <2>3. \A i \in Index : Entry(i)' = Entry(i)
    BY <2>1, <2>2, EntrySame, Zenon
  <2>4. Contents' = Contents
    BY <2>1, <2>3, ContentsSame, ZenonT(60)
  <2>5. Taking[c] = val[c] /\ Taking[c] # NoValue
    BY <2>1 DEF Taking, StorageInv
  <2>6. Taking' = [Taking EXCEPT ![c] = NoValue]
    BY <2>1, Zenon DEF Taking
  <2> QED
    BY <2>4, <2>5, <2>6, Zenon
<1> USE MpmcAssumption DEF Threads
<1>1. ASSUME alive, alive', Contents' = Contents, Taking' = Taking, returned' = <<>>
      PROVE  Fifo!Next
  BY <1>1, Zenon DEF Fifo!Next, Fifo!Internal
<1>2. ASSUME pc[c] \notin {"move", "release"}, pc'[c] \notin {"move", "release"},
             UNCHANGED <<enqueue_pos_, dequeue_pos_, storage>>,
             \A u \in Threads \ {c} : pc'[u] = pc[u] /\ pos'[u] = pos[u] /\ val'[u] = val[u]
      PROVE  Contents' = Contents /\ Taking' = Taking
  <2>1. pc[c] \notin {"construct", "publish"} /\ pc'[c] \notin {"construct", "publish"}
    BY Zenon DEF RingInv, Typed, TypeOK
  <2> QED
    BY <1>2, <2>1, QuietContents, ZenonT(60)
<1>3. pc[c] # "idle" => alive
  BY ThreadsInside, Zenon
<1>4. CASE TryPop(c)
  <2>1. Contents' = Contents /\ Taking' = Taking
    BY <1>2, <1>4, ZenonT(60) DEF TryPop, Goto, RingInv, Typed, TypeOK
  <2> QED
    BY <1>1, <1>4, <2>1, Zenon DEF TryPop, Goto
<1>5. CASE PopLoadSequence(c)
  <2>1. Contents' = Contents /\ Taking' = Taking
    BY <1>2, <1>5, Z3T(30) DEF PopLoadSequence, Goto, Return, RingInv, Typed, TypeOK
  <2>2. alive /\ alive' = alive
    BY <1>3, <1>5, Zenon DEF PopLoadSequence
  <2>3. CASE compare_tickets(sequence[Slot(pos[c])], Plus(pos[c], 1)) < 0 /\ Return(c, NoValue)
    <3>1. Size = 0 \/ \E p \in Producers : Pushing(p) /\ pos[p] = dequeue_pos_
      BY <1>5, <2>3, <1>PopEmptyJustified, ZenonT(60) DEF PopLoadSequence
    <3>2. /\ Contents \in Seq(Entries) /\ Len(Contents) = Size
          /\ Contents = [k \in 1 .. Size |-> Entry(Plus(dequeue_pos_, k - 1))]
      BY ContentsEntries, Zenon
    <3>3. Contents = <<>> \/ ~Head(Contents).ready
      <4>1. CASE Size = 0
        BY <3>2, <4>1, SMTT(60)
      <4>2. ASSUME NEW p \in Producers, Pushing(p), pos[p] = dequeue_pos_
            PROVE  ~Head(Contents).ready
        <5>1. dequeue_pos_ \in Index /\ enqueue_pos_ \in Index /\ Filled(dequeue_pos_)
          BY <4>2, ZenonT(60) DEF RingInv, OwnersInv, Typed, TypeOK
        <5>2. 0 < Size /\ Size \in Nat
          BY <5>1, Positions, IndexClosed, Z3T(30) DEF Index
        <5>3. Entry(dequeue_pos_) = [value |-> val[p], by |-> p, ready |-> FALSE]
          BY <4>2, <5>1, EntryOfProducer, ZenonT(60) DEF ProducerEntries, RingInv
        <5>4. Contents[1] = Entry(dequeue_pos_)
          <6>1. PICK k \in 1 .. Size : k = 1
            BY <5>2, SMTT(60)
          <6>2. Plus(dequeue_pos_, k - 1) = dequeue_pos_
            BY <5>1, <6>1, PlusZero, SMTT(60)
          <6> QED
            BY <3>2, <6>1, <6>2, ZenonT(60)
        <5>5. Head(Contents) = Contents[1]
          BY <3>2, <5>2, Z3T(30)
        <5>6. ~Contents[1].ready
          BY <5>3, <5>4, SMTT(60)
        <5> QED
          BY <5>5, <5>6, Zenon
      <4> QED
        BY <3>1, <4>1, <4>2, ZenonT(60)
    <3>4. returned' = <<c, NoValue>>
      BY <2>3, Zenon DEF Return
    <3> QED
      BY <2>1, <2>2, <3>3, <3>4, ZenonT(60) DEF Fifo!Next, Fifo!PopEmpty
  <2>4. CASE returned' = <<>>
    BY <1>1, <2>1, <2>2, <2>4, ZenonT(60)
  <2> QED
    BY <1>5, <2>3, <2>4, ZenonT(60) DEF PopLoadSequence, Goto
<1>6. CASE PopReload(c)
  <2>1. Contents' = Contents /\ Taking' = Taking
    BY <1>2, <1>6, ZenonT(60) DEF PopReload, Goto, RingInv, Typed, TypeOK
  <2> QED
    BY <1>1, <1>3, <1>6, <2>1, ZenonT(60) DEF PopReload, Goto
<1>7. CASE PopClaim(c)
  <2>1. alive /\ alive' = alive /\ returned' = <<>>
    BY <1>3, <1>7, Zenon DEF PopClaim, Goto
  <2> QED
    BY <1>7, <2>1, <1>PopClaimContents, ZenonT(60) DEF Fifo!Next, Fifo!Take
<1>8. CASE PopClaimFails(c)
  <2>1. Contents' = Contents /\ Taking' = Taking
    BY <1>2, <1>8, Zenon DEF PopClaimFails, Goto, RingInv, Typed, TypeOK
  <2> QED
    BY <1>1, <1>3, <1>8, <2>1, ZenonT(60) DEF PopClaimFails, Goto
<1>9. CASE MoveOut(c)
  BY <1>1, <1>3, <1>9, <1>MoveOutContents, Zenon DEF MoveOut, Goto
<1>10. CASE Release(c)
  <2>1. alive /\ alive' = alive /\ returned' = <<c, val[c]>>
    BY <1>3, <1>10, Zenon DEF Release, Return
  <2> QED
    BY <1>10, <2>1, <1>ReleaseContents, Zenon DEF Fifo!Next, Fifo!HandBack
<1> QED
  BY <1>4, <1>5, <1>6, <1>7, <1>8, <1>9, <1>10, ZenonT(60) DEF ConsumerStep

LEMMA RefinesStep ==
  StallShort /\ RingInv /\ RingInv' /\ StorageInv /\ StallInv /\ [Next]_vars
    => [Fifo!Next]_Fifo!vars
<1> SUFFICES ASSUME StallShort, RingInv, RingInv', StorageInv, StallInv, [Next]_vars
             PROVE  [Fifo!Next]_Fifo!vars
  BY Zenon
<1>1. CASE \E p \in Producers : ProducerStep(p)
  BY <1>1, ProducerRefines, Zenon
<1>2. CASE \E c \in Consumers : ConsumerStep(c)
  BY <1>2, ConsumerRefines, Zenon
<1>3. CASE Destroy
  <2>1. ~alive' /\ returned' = <<>> /\ pc' = pc
    BY <1>3, Zenon DEF Destroy
  <2>2. \A c \in Consumers : pc[c] = "idle"
    BY <1>3, Zenon DEF Destroy, Threads
  <2>3. Taking' = Taking
    BY <2>1, <2>2, Zenon DEF Taking
  <2> QED
    BY <2>1, <2>3, ZenonT(60) DEF Fifo!Next, Fifo!Drain
<1>4. CASE UNCHANGED vars
  BY <1>4, SMTT(60) DEF vars, Fifo!vars, Contents, Taking
<1> QED
  BY <1>1, <1>2, <1>3, <1>4, Zenon DEF Next

(***************************************************************************)
(* mpmc_queue implements TicketFifo for every width of std::size_t, every  *)
(* capacity and any number of threads: first in, first out in the order of *)
(* the claims, no element lost, duplicated or taken before it is           *)
(* published, and every false answer of try_push and try_pop justified     *)
(* when the cell's sequence number was loaded (mpmc_queue.hpp:51-82).      *)
(* The hypothesis is what the comparison of tickets by half the range      *)
(* needs: no thread sits on a ticket for half the range of std::size_t.    *)
(***************************************************************************)
THEOREM QueueRefines == ASSUME StallShort PROVE Spec => ImplementsTicketFifo
<1>StallInit. Init => StallInv
  BY Zenon DEF Init, StallInv, Threads
<1>RefinesInit. Init => Fifo!Init
  <2> SUFFICES ASSUME Init PROVE Fifo!Init
    BY Zenon
  <2>1. 0 \in Index
    BY Constants DEF Index
  <2>2. Minus(0, 0) = 0
    BY <2>1, MinusZero, ZenonT(60)
  <2>3. Contents = <<>>
    BY <2>2 DEF Init, Contents
  <2>4. Taking = [c \in Consumers |-> NoValue]
    BY Zenon DEF Init, Taking, Threads
  <2> QED
    BY <2>3, <2>4, Zenon DEF Init, Fifo!Init
<1>1. MaxStall < Wrap
  BY StallInNat, HalfRangeFacts, Constants, SMTT(60) DEF StallShort
<1>2. Init => RingInv /\ StorageInv /\ StallInv
  BY RingInit, StorageInit, <1>StallInit, Zenon
<1>3. RingInv /\ StorageInv /\ StallInv /\ [Next]_vars
        => RingInv' /\ StorageInv' /\ StallInv'
  BY <1>1, RingStep, StorageStep, StallStep, Zenon DEF RingInv
<1>4. Init => Fifo!Init
  BY <1>RefinesInit, Zenon
<1>5. RingInv /\ RingInv' /\ StorageInv /\ StallInv /\ [Next]_vars => [Fifo!Next]_Fifo!vars
  BY RefinesStep, Zenon
<1> QED
  BY <1>2, <1>3, <1>4, <1>5, PTL DEF Spec, ImplementsTicketFifo, Fifo!Spec

=============================================================================
