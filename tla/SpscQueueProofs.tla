--------------------------- MODULE SpscQueueProofs ---------------------------
(***************************************************************************)
(* Proofs about SpscQueue for every capacity, every index width, every set *)
(* of values and both memory models: it is memory safe, its slots hold     *)
(* what its indices say, and it implements BoundedFifo.                    *)
(*                                                                         *)
(* The argument: a cached index is behind the true one (the cached indices *)
(* are conservative), so a side that goes ahead has the slot to itself;    *)
(* then only the owner of a slot changes it (SlotsInv), and the elements   *)
(* at the indices from head_ to tail_ are the queue.                       *)
(***************************************************************************)
EXTENDS SpscQueue, TLAPS

USE SpscAssumption DEF producer, consumer, vars

\* The values a load may return are indices between the last one seen and the
\* newest one.
LEMMA VisibleBetween ==
  ASSUME NEW seen \in Index, NEW newest \in Index, NEW i \in Visible(seen, newest)
  PROVE  /\ i \in Index
         /\ Minus(i, seen) <= Minus(newest, seen)
         /\ Minus(newest, i) <= Minus(newest, seen)
<1>1. CASE ~stale
  BY <1>1, Constants, MinusCases, SMTT(60) DEF Visible, Index
<1>2. CASE stale
  <2>1. PICK k \in 0 .. Minus(newest, seen) : i = Plus(seen, k)
    BY <1>2, Zenon DEF Visible
  <2>2. k \in Index /\ k <= Minus(newest, seen)
    BY <2>1, IndexClosed, Constants, SMT DEF Index
  <2>3. i \in Index
    BY <2>1, <2>2, IndexClosed, Zenon
  <2>4. i = IF seen + k < Wrap THEN seen + k ELSE seen + k - Wrap
    BY <2>1, <2>2, PlusCases, Zenon
  <2>5. /\ Minus(newest, seen) = IF newest >= seen THEN newest - seen ELSE newest - seen + Wrap
        /\ Minus(i, seen) = IF i >= seen THEN i - seen ELSE i - seen + Wrap
        /\ Minus(newest, i) = IF newest >= i THEN newest - i ELSE newest - i + Wrap
    BY <2>3, MinusCases, Zenon
  <2> QED
    BY <2>2, <2>3, <2>4, <2>5, Constants, SMT DEF Index
<1> QED
  BY <1>1, <1>2, Zenon

(***************************************************************************)
(* Type correctness.                                                       *)
(***************************************************************************)
THEOREM TypeCorrect == Spec => []TypeOK
<1>1. Init => TypeOK
  BY Constants DEF Init, TypeOK, Index, Slots
<1>2. TypeOK /\ [Next]_vars => TypeOK'
  <2> SUFFICES ASSUME TypeOK, [Next]_vars PROVE TypeOK'
    BY Zenon
  <2> USE DEF TypeOK
  <2>0. 1 \in Index /\ stale' = stale
    BY Constants DEF Index, Next
  <2>1. ASSUME NEW v \in Values, TryEmplace(v) PROVE TypeOK'
    BY <2>1, <2>0, ZenonT(60) DEF TryEmplace
  <2>2. CASE LoadHead
    BY <2>2, <2>0, VisibleBetween, ZenonT(60) DEF LoadHead
  <2>3. CASE Construct
    BY <2>3, <2>0, SlotInRange, ZenonT(60) DEF Construct
  <2>4. CASE ConstructThrows
    BY <2>4, <2>0, Zenon DEF ConstructThrows
  <2>5. CASE PublishTail
    BY <2>5, <2>0, IndexClosed, Zenon DEF PublishTail
  <2>6. CASE TryPop
    BY <2>6, <2>0, Zenon DEF TryPop
  <2>7. CASE LoadTail
    BY <2>7, <2>0, VisibleBetween, ZenonT(60) DEF LoadTail
  <2>8. CASE MoveOut
    BY <2>8, <2>0, SlotInRange, ZenonT(60) DEF MoveOut
  <2>9. CASE ReleaseHead
    BY <2>9, <2>0, IndexClosed, Zenon DEF ReleaseHead
  <2>10. CASE Destroy
    BY <2>10, <2>0, ZenonT(60) DEF Destroy
  <2>11. CASE UNCHANGED vars
    BY <2>11
  <2> QED
    BY <2>1, <2>2, <2>3, <2>4, <2>5, <2>6, <2>7, <2>8, <2>9, <2>10, <2>11, Zenon
       DEF Next, ProducerStep, ConsumerStep
<1> QED
  BY <1>1, <1>2, PTL DEF Spec

(***************************************************************************)
(* The cached indices are conservative (spsc_queue.hpp:130-134, 154-158),  *)
(* and the ring never holds more than Capacity elements: inductive as it   *)
(* stands, given the types.                                                *)
(***************************************************************************)
THEOREM CachedIndicesSafe == Spec => []CachedIndicesConservative
<1>1. Init => CachedIndicesConservative
  BY Constants, MinusCases, SMT DEF Init, CachedIndicesConservative, Size, Index
<1>2. TypeOK /\ TypeOK' /\ CachedIndicesConservative /\ [Next]_vars
        => CachedIndicesConservative'
  <2> SUFFICES ASSUME TypeOK, TypeOK', CachedIndicesConservative, [Next]_vars
               PROVE  CachedIndicesConservative'
    BY Zenon
  <2>0. /\ head_ \in Index /\ tail_ \in Index
        /\ cached_head_ \in Index /\ cached_tail_ \in Index
        /\ 1 \in Index
    BY Constants, SMTT(60) DEF TypeOK, Index
  <2> DEFINE room == Minus(tail_, cached_head_)
             held == Minus(tail_, head_)
             seen == Minus(cached_tail_, head_)
  <2>a. /\ room \in Index /\ held \in Index /\ seen \in Index
        /\ held <= room /\ room <= Capacity /\ seen <= held
        /\ ppc \in {"construct", "publish"} => room < Capacity
        /\ cpc \in {"move", "release"} => seen # 0
    BY <2>0, IndexClosed, MinusZero, Zenon DEF CachedIndicesConservative, Size
  <2> USE DEF CachedIndicesConservative, Size
  <2>1. ASSUME NEW v \in Values, TryEmplace(v) PROVE CachedIndicesConservative'
    <3>1. Minus(Plus(tail_, 1), cached_head_) = room + 1
      BY <2>a, <2>0, MinusAdvance, Constants, SMTT(60) DEF Index
    <3>2. Full(tail_, cached_head_) \/ room < Capacity
      BY <3>1, <2>a, Constants, SMTT(60) DEF Full, Index
    <3> HIDE DEF room
    <3> QED
      BY <2>1, <3>2, ZenonT(60) DEF TryEmplace, room
  <2>2. CASE LoadHead
    <3>1. PICK h \in Visible(cached_head_, head_) :
            /\ cached_head_' = h
            /\ IF Full(tail_, h) THEN ppc' = "idle" ELSE ppc' = "construct"
      BY <2>2, Zenon DEF LoadHead
    <3>2. h \in Index /\ Minus(h, cached_head_) <= Minus(head_, cached_head_)
      BY <3>1, <2>0, VisibleBetween, ZenonT(60)
    <3>3. held <= Minus(tail_, h) /\ Minus(tail_, h) <= room /\ Minus(tail_, h) \in Index
      BY <3>2, <2>a, <2>0, Between, IndexClosed, SMTT(60)
    <3>4. Full(tail_, h) \/ Minus(tail_, h) < Capacity
      <4>1. Minus(Plus(tail_, 1), h) = Minus(tail_, h) + 1
        BY <3>2, <3>3, <2>a, <2>0, MinusAdvance, Constants, SMTT(60) DEF Index
      <4> QED
        BY <4>1, <3>3, Constants, SMTT(60) DEF Full, Index
    <3>5. UNCHANGED <<tail_, head_, cached_tail_, cpc>>
      BY <2>2, Zenon DEF LoadHead
    <3> QED
      BY <3>1, <3>3, <3>4, <3>5, <2>a, Constants, SMTT(60) DEF Index
  <2>3. CASE Construct
    BY <2>3, Zenon DEF Construct
  <2>4. CASE ConstructThrows
    BY <2>4, Zenon DEF ConstructThrows
  <2>5. CASE PublishTail
    <3>1. /\ Minus(Plus(tail_, 1), cached_head_) = room + 1
          /\ Minus(Plus(tail_, 1), head_) = held + 1
      BY <2>5, <2>a, <2>0, MinusAdvance, Constants, SMTT(60) DEF PublishTail, Index
    <3>2. /\ tail_' = Plus(tail_, 1) /\ ppc' = "idle" /\ room < Capacity
          /\ UNCHANGED <<head_, cached_head_, cached_tail_, cpc>>
      BY <2>5, <2>a, Zenon DEF PublishTail
    <3> QED
      BY <3>1, <3>2, <2>a, Constants, SMTT(60) DEF Index
  <2>6. CASE TryPop
    BY <2>6, Zenon DEF TryPop
  <2>7. CASE LoadTail
    <3>1. PICK t \in Visible(cached_tail_, tail_) :
            /\ cached_tail_' = t
            /\ IF head_ = t THEN cpc' = "idle" ELSE cpc' = "move"
      BY <2>7, Zenon DEF LoadTail
    <3>2. t \in Index /\ Minus(t, cached_tail_) <= Minus(tail_, cached_tail_)
      BY <3>1, <2>0, VisibleBetween, Zenon
    <3>3. Minus(t, head_) <= held
      BY <3>2, <2>a, <2>0, BetweenFrom
    <3>4. UNCHANGED <<tail_, head_, cached_head_, ppc>>
      BY <2>7, Zenon DEF LoadTail
    <3> QED
      BY <3>1, <3>3, <3>4, ZenonT(60)
  <2>8. CASE MoveOut
    BY <2>8, Zenon DEF MoveOut
  <2>9. CASE ReleaseHead
    <3>1. /\ Minus(tail_, Plus(head_, 1)) = held - 1
          /\ Minus(cached_tail_, Plus(head_, 1)) = seen - 1
      BY <2>9, <2>a, <2>0, MinusAdvance, Constants, SMT DEF ReleaseHead, Index
    <3>2. /\ head_' = Plus(head_, 1) /\ cpc' = "idle"
          /\ UNCHANGED <<tail_, cached_head_, cached_tail_, ppc>>
      BY <2>9, Zenon DEF ReleaseHead
    <3> QED
      BY <3>1, <3>2, <2>a, Constants, SMTT(60) DEF Index
  <2>10. CASE Destroy
    BY <2>10, Zenon DEF Destroy
  <2>11. CASE UNCHANGED vars
    BY <2>11, Zenon
  <2> QED
    BY <2>1, <2>2, <2>3, <2>4, <2>5, <2>6, <2>7, <2>8, <2>9, <2>10, <2>11, ZenonT(60)
       DEF Next, ProducerStep, ConsumerStep
<1> QED
  BY <1>1, <1>2, TypeCorrect, PTL DEF Spec

(***************************************************************************)
(* The two sides never access the same slot at the same time.              *)
(***************************************************************************)
THEOREM NoRace == Spec => []NoSlotRace
<1>1. TypeOK /\ CachedIndicesConservative => NoSlotRace
  <2> SUFFICES ASSUME TypeOK, CachedIndicesConservative,
                      ppc = "construct", cpc \in {"move", "release"}
               PROVE  Slot(tail_) # Slot(head_)
    BY Zenon DEF NoSlotRace
  <2>0. /\ Minus(tail_, head_) \in Index /\ Minus(tail_, cached_head_) \in Index
        /\ Minus(cached_tail_, head_) \in Index /\ Minus(cached_tail_, head_) # 0
    BY IndexClosed, MinusZero, Zenon DEF TypeOK, CachedIndicesConservative
  <2>1. Minus(tail_, head_) < Capacity
    BY <2>0, Constants, SMT DEF CachedIndicesConservative, Size, Index
  <2>2. 0 < Minus(tail_, head_)
    BY <2>0, Constants, SMT DEF CachedIndicesConservative, Size, Index
  <2> QED
    BY <2>1, <2>2, SlotsDistinctInWindow, Zenon DEF TypeOK
<1> QED
  BY <1>1, TypeCorrect, CachedIndicesSafe, PTL

-----------------------------------------------------------------------------
(***************************************************************************)
(* What the slots hold, index by index: the published ones an element      *)
(* until it is moved out, the others none but the one about to be          *)
(* published.                                                              *)
(***************************************************************************)
SlotsInv ==
  /\ \A i \in Index : FilledIn(tail_, head_, i) =>
       (slots_[Slot(i)] # NoValue <=> alive /\ ~(cpc = "release" /\ i = head_))
  /\ \A i \in Index : VacatedIn(tail_, head_, i) =>
       (slots_[Slot(i)] # NoValue <=> ppc = "publish" /\ i = Minus(tail_, Capacity))
  /\ ppc = "publish" => slots_[Slot(tail_)] = arg
  /\ cpc = "release" => out \in Values
  /\ ~alive => ppc = "idle" /\ cpc = "idle"

\* Where the indices are: the producer has room, the consumer an element.
Ring ==
  /\ head_ \in Index /\ tail_ \in Index
  /\ Minus(tail_, head_) \in 0 .. Capacity
  /\ ppc \in {"construct", "publish"} =>
       /\ Minus(tail_, head_) < Capacity
       /\ Minus(tail_, Capacity) \in Index
       /\ VacatedIn(tail_, head_, Minus(tail_, Capacity))
       /\ Slot(Minus(tail_, Capacity)) = Slot(tail_)
  /\ cpc \in {"move", "release"} =>
       0 < Minus(tail_, head_) /\ FilledIn(tail_, head_, head_) /\ head_ # tail_

LEMMA RingFacts == TypeOK /\ CachedIndicesConservative => Ring
<1> SUFFICES ASSUME TypeOK, CachedIndicesConservative PROVE Ring
  BY Zenon
<1>1. /\ head_ \in Index /\ tail_ \in Index /\ cached_head_ \in Index /\ cached_tail_ \in Index
  BY Zenon DEF TypeOK
<1>2. /\ Minus(tail_, head_) \in Index /\ Minus(tail_, cached_head_) \in Index
      /\ Minus(cached_tail_, head_) \in Index
  BY <1>1, IndexClosed, Zenon
<1>3. Minus(tail_, head_) \in 0 .. Capacity
  BY <1>2, Constants DEF CachedIndicesConservative, Size, Index
<1>4. ASSUME ppc \in {"construct", "publish"}
      PROVE  /\ Minus(tail_, head_) < Capacity
             /\ Minus(tail_, Capacity) \in Index
             /\ VacatedIn(tail_, head_, Minus(tail_, Capacity))
             /\ Slot(Minus(tail_, Capacity)) = Slot(tail_)
  <2>1. Minus(tail_, head_) < Capacity
    BY <1>2, <1>4, Constants DEF CachedIndicesConservative, Size, Index
  <2> QED
    BY <1>1, <2>1, PushShift, TurnsDiffer, SlotAdvance, Zenon
<1>5. ASSUME cpc \in {"move", "release"}
      PROVE  0 < Minus(tail_, head_) /\ FilledIn(tail_, head_, head_) /\ head_ # tail_
  <2>1. Minus(cached_tail_, head_) # 0
    BY <1>1, <1>5, MinusZero, Zenon DEF CachedIndicesConservative
  <2>2. 0 < Minus(tail_, head_)
    BY <1>2, <2>1, Constants DEF CachedIndicesConservative, Size, Index
  <2>3. head_ # tail_
    BY <1>1, <2>2, MinusZero
  <2> QED
    BY <1>1, <1>3, <2>2, <2>3, PopShift
<1> QED
  BY <1>1, <1>3, <1>4, <1>5, Zenon DEF Ring

LEMMA SlotsInit == Init => SlotsInv
<1> SUFFICES ASSUME Init PROVE SlotsInv
  BY Zenon
<1>1. 0 \in Index /\ \A i \in Index : Slot(i) \in Slots /\ Minus(i, 0) \in Index
  BY Constants, SlotInRange, IndexClosed DEF Index
<1>2. Minus(0, 0) = 0
  BY <1>1, MinusZero, Zenon
<1>3. \A i \in Index : ~FilledIn(0, 0, i)
  BY <1>1, <1>2, SMT DEF FilledIn, Index
<1>4. \A i \in Index : slots_[Slot(i)] = NoValue
  BY <1>1, Zenon DEF Init
<1> QED
  BY <1>3, <1>4, Zenon DEF Init, SlotsInv

LEMMA SlotsConstruct ==
  ASSUME TypeOK, Ring, SlotsInv, Construct
  PROVE  SlotsInv'
<1>1. PICK e \in Index, d \in Index, m \in Index :
        e = tail_ /\ d = head_ /\ m = Minus(tail_, Capacity)
  BY Zenon DEF Ring, Construct
<1>2. /\ Minus(e, d) <= Capacity /\ VacatedIn(e, d, m) /\ Slot(m) = Slot(e)
      /\ ppc = "construct" /\ ppc' = "publish" /\ arg \in Values /\ arg' = arg
      /\ e = tail_' /\ d = head_' /\ m = Minus(tail_, Capacity)'
      /\ UNCHANGED <<cpc, out, alive>>
  BY <1>1 DEF Construct, Ring, TypeOK
<1>3. /\ slots_'[Slot(e)] = arg
      /\ \A i \in Index : Slot(i) # Slot(e) => slots_'[Slot(i)] = slots_[Slot(i)]
  BY <1>1, SlotInRange, Zenon DEF Construct, TypeOK
<1>4. \A i \in Index : i # m /\ (FilledIn(e, d, i) \/ VacatedIn(e, d, i)) => Slot(i) # Slot(e)
  BY <1>1, <1>2, ZonesApart, Zenon
<1>5. ~FilledIn(e, d, m)
  BY <1>1, <1>2, ZonesDisjoint, Zenon
<1>6. \A i \in Index : FilledIn(e, d, i) =>
        (slots_'[Slot(i)] # NoValue <=> alive' /\ ~(cpc' = "release" /\ i = d))
  BY <1>1, <1>2, <1>3, <1>4, <1>5, ZenonT(60) DEF SlotsInv
<1>7. \A i \in Index : VacatedIn(e, d, i) => (slots_'[Slot(i)] # NoValue <=> i = m)
  BY <1>1, <1>2, <1>3, <1>4 DEF SlotsInv
<1> QED
  BY <1>1, <1>2, <1>3, <1>6, <1>7, ZenonT(60) DEF SlotsInv

LEMMA SlotsPublish ==
  ASSUME TypeOK, Ring, SlotsInv, PublishTail
  PROVE  SlotsInv'
<1>1. PICK e \in Index, d \in Index, m \in Index :
        e = tail_ /\ d = head_ /\ m = Minus(tail_, Capacity)
  BY Zenon DEF Ring, PublishTail
<1>2. /\ Minus(e, d) < Capacity /\ ppc = "publish" /\ ppc' = "idle" /\ arg \in Values
      /\ tail_' = Plus(e, 1) /\ head_' = d
      /\ UNCHANGED <<cpc, out, alive, slots_>> /\ (cpc = "release" => d # e)
  BY <1>1, Zenon DEF PublishTail, Ring, TypeOK
<1>3. \A i \in Index :
        /\ FilledIn(Plus(e, 1), d, i) <=> FilledIn(e, d, i) \/ i = e
        /\ VacatedIn(Plus(e, 1), d, i) <=> VacatedIn(e, d, i) /\ i # m
  BY <1>1, <1>2, PushShift, Zenon
<1>4. slots_[Slot(e)] # NoValue /\ alive
  BY <1>1, <1>2, Zenon DEF SlotsInv
<1>5. \A i \in Index : FilledIn(Plus(e, 1), d, i) =>
        (slots_[Slot(i)] # NoValue <=> alive /\ ~(cpc = "release" /\ i = d))
  BY <1>1, <1>2, <1>3, <1>4, Zenon DEF SlotsInv
<1>6. \A i \in Index : VacatedIn(Plus(e, 1), d, i) => slots_[Slot(i)] = NoValue
  BY <1>1, <1>2, <1>3, Zenon DEF SlotsInv
<1> QED
  BY <1>2, <1>4, <1>5, <1>6, Zenon DEF SlotsInv

LEMMA SlotsMoveOut ==
  ASSUME TypeOK, Ring, SlotsInv, MoveOut
  PROVE  SlotsInv'
<1>1. PICK e \in Index, d \in Index : e = tail_ /\ d = head_
  BY Zenon DEF Ring
<1>2. /\ Minus(e, d) <= Capacity /\ FilledIn(e, d, d) /\ cpc = "move" /\ cpc' = "release"
      /\ out' = slots_[Slot(d)] /\ e = tail_' /\ d = head_'
      /\ UNCHANGED <<ppc, arg, alive>>
  BY <1>1 DEF MoveOut, Ring
<1>3. /\ slots_'[Slot(d)] = NoValue
      /\ \A i \in Index : Slot(i) # Slot(d) => slots_'[Slot(i)] = slots_[Slot(i)]
  BY <1>1, SlotInRange, Zenon DEF MoveOut, TypeOK
<1>4. \A i \in Index : i # d /\ (FilledIn(e, d, i) \/ VacatedIn(e, d, i)) => Slot(i) # Slot(d)
  BY <1>1, <1>2, ZonesApart, Zenon
<1>5. ~VacatedIn(e, d, d)
  BY <1>1, <1>2, ZonesDisjoint, Zenon
<1>6. slots_[Slot(d)] \in Values /\ alive
  <2>1. slots_[Slot(d)] # NoValue /\ alive
    BY <1>1, <1>2, Zenon DEF SlotsInv
  <2> QED
    BY <1>1, <2>1, SlotInRange, Zenon DEF TypeOK
<1>7. ppc = "publish" => slots_'[Slot(e)] = arg
  <2> SUFFICES ASSUME ppc = "publish" PROVE slots_'[Slot(e)] = arg
    BY Zenon
  <2>1. PICK m \in Index : VacatedIn(e, d, m) /\ Slot(m) = Slot(e)
    BY <1>1, Zenon DEF Ring
  <2>2. Slot(m) # Slot(d)
    BY <1>4, <1>5, <2>1, Zenon
  <2> QED
    BY <1>1, <1>3, <2>1, <2>2, Zenon DEF SlotsInv
<1>8. \A i \in Index : FilledIn(e, d, i) =>
        (slots_'[Slot(i)] # NoValue <=> alive' /\ ~(cpc' = "release" /\ i = d))
  BY <1>1, <1>2, <1>3, <1>4, <1>6, Zenon DEF SlotsInv
<1>9. \A i \in Index : VacatedIn(e, d, i) =>
        (slots_'[Slot(i)] # NoValue <=> ppc' = "publish" /\ i = Minus(e, Capacity))
  BY <1>1, <1>2, <1>3, <1>4, <1>5, Zenon DEF SlotsInv
<1> QED
  BY <1>1, <1>2, <1>6, <1>7, <1>8, <1>9, Zenon DEF SlotsInv

LEMMA SlotsRelease ==
  ASSUME TypeOK, Ring, SlotsInv, ReleaseHead
  PROVE  SlotsInv'
<1>1. PICK e \in Index, d \in Index : e = tail_ /\ d = head_
  BY Zenon DEF Ring
<1>2. /\ Minus(e, d) <= Capacity /\ 0 < Minus(e, d) /\ FilledIn(e, d, d)
      /\ cpc = "release" /\ cpc' = "idle" /\ tail_' = e /\ head_' = Plus(d, 1)
      /\ UNCHANGED <<ppc, arg, alive, slots_>>
  BY <1>1 DEF ReleaseHead, Ring
<1>3. \A i \in Index :
        /\ FilledIn(e, Plus(d, 1), i) <=> FilledIn(e, d, i) /\ i # d
        /\ VacatedIn(e, Plus(d, 1), i) <=> VacatedIn(e, d, i) \/ i = d
  BY <1>1, <1>2, PopShift
<1>4. slots_[Slot(d)] = NoValue /\ alive
  BY <1>1, <1>2, Zenon DEF SlotsInv
<1>5. ppc = "publish" => d # Minus(e, Capacity)
  BY <1>1, <1>2, ZonesDisjoint, Zenon DEF Ring
<1>6. \A i \in Index : FilledIn(e, Plus(d, 1), i) => slots_[Slot(i)] # NoValue
  BY <1>1, <1>3, <1>4, Zenon DEF SlotsInv
<1>7. \A i \in Index : VacatedIn(e, Plus(d, 1), i) =>
        (slots_[Slot(i)] # NoValue <=> ppc = "publish" /\ i = Minus(e, Capacity))
  BY <1>1, <1>3, <1>4, <1>5, Zenon DEF SlotsInv
<1> QED
  BY <1>1, <1>2, <1>4, <1>6, <1>7, Zenon DEF SlotsInv

LEMMA SlotsDestroy ==
  ASSUME TypeOK, Ring, SlotsInv, Destroy
  PROVE  SlotsInv'
<1>1. PICK e \in Index, d \in Index : e = tail_ /\ d = head_
  BY Zenon DEF Ring
<1>2. /\ Minus(e, d) <= Capacity /\ ~alive' /\ ppc = "idle" /\ cpc = "idle"
      /\ UNCHANGED <<head_, tail_, ppc, cpc, arg, out>>
  BY <1>1 DEF Destroy, Ring
<1>3. \A s \in Slots : slots_'[s] =
        IF \E k \in 0 .. Minus(e, d) - 1 : s = Slot(Plus(d, k)) THEN NoValue ELSE slots_[s]
  BY <1>1, Zenon DEF Destroy
<1>4. \A i \in Index : FilledIn(e, d, i) => slots_'[Slot(i)] = NoValue
  BY <1>1, <1>2, <1>3, ZonesCover, SlotInRange
<1>5. \A i \in Index : VacatedIn(e, d, i) => slots_'[Slot(i)] = NoValue
  BY <1>1, <1>2, <1>3, SlotInRange, Zenon DEF SlotsInv
<1> QED
  BY <1>1, <1>2, <1>4, <1>5, Zenon DEF SlotsInv

LEMMA SlotsStep ==
  TypeOK /\ CachedIndicesConservative /\ SlotsInv /\ [Next]_vars => SlotsInv'
<1> SUFFICES ASSUME TypeOK, CachedIndicesConservative, SlotsInv, [Next]_vars PROVE SlotsInv'
  BY Zenon
<1>0. Ring
  BY RingFacts, Zenon
<1>1. ASSUME NEW v \in Values, TryEmplace(v) PROVE SlotsInv'
  BY <1>1, Zenon DEF TryEmplace, SlotsInv
<1>2. CASE LoadHead
  BY <1>2, Zenon DEF LoadHead, SlotsInv
<1>3. CASE ConstructThrows
  BY <1>3, Zenon DEF ConstructThrows, SlotsInv
<1>4. CASE TryPop
  BY <1>4, Zenon DEF TryPop, SlotsInv
<1>5. CASE LoadTail
  BY <1>5, Zenon DEF LoadTail, SlotsInv
<1>6. CASE Construct \/ PublishTail \/ MoveOut \/ ReleaseHead \/ Destroy
  BY <1>0, <1>6, SlotsConstruct, SlotsPublish, SlotsMoveOut, SlotsRelease, SlotsDestroy, Zenon
<1>7. CASE UNCHANGED vars
  BY <1>7, Zenon DEF SlotsInv
<1> QED
  BY <1>1, <1>2, <1>3, <1>4, <1>5, <1>6, <1>7, Zenon DEF Next, ProducerStep, ConsumerStep

LEMMA SlotsInvMatch == TypeOK /\ CachedIndicesConservative /\ SlotsInv => SlotsMatchIndices
<1> SUFFICES ASSUME TypeOK, CachedIndicesConservative, SlotsInv, NEW s \in Slots
             PROVE  slots_[s] # NoValue <=> alive /\ \E i \in LiveIndices : Slot(i) = s
  BY Zenon DEF SlotsMatchIndices
<1>0. Ring
  BY RingFacts, Zenon
<1>1. PICK e \in Index, d \in Index : e = tail_ /\ d = head_ /\ Minus(e, d) \in 0 .. Capacity
  BY <1>0, Zenon DEF Ring
<1>2. PICK i \in Index : Slot(i) = s /\ (FilledIn(e, d, i) \/ VacatedIn(e, d, i))
  <2>1. PICK i \in Index : Minus(e, i) \in 1 .. Capacity /\ Slot(i) = s
    BY SlotsCovered, Zenon
  <2> QED
    BY <2>1, <1>1, ZonesCover
<1>3. \A j \in Index : (FilledIn(e, d, j) \/ VacatedIn(e, d, j)) /\ Slot(j) = s => j = i
  BY <1>1, <1>2, ZonesApart
<1>4. ~(FilledIn(e, d, i) /\ VacatedIn(e, d, i))
  BY <1>1, ZonesDisjoint
<1>5. \A j : j \in LiveIndices <=>
        \/ j \in Index /\ FilledIn(e, d, j) /\ ~(cpc = "release" /\ j = d)
        \/ ppc = "publish" /\ j = e
  <2>1. \A j \in Index : FilledIn(e, d, j) <=> \E k \in 0 .. Minus(e, d) - 1 : j = Plus(d, k)
    BY <1>1, ZonesCover
  <2>2. \A k \in 0 .. Minus(e, d) - 1 : Plus(d, k) \in Index /\ (Plus(d, k) = d <=> k = 0)
    <3> SUFFICES ASSUME NEW k \in 0 .. Minus(e, d) - 1
                 PROVE  Plus(d, k) \in Index /\ (Plus(d, k) = d <=> k = 0)
      BY Zenon
    <3>1. k \in Index
      BY <1>1, Constants DEF Index
    <3>2. Plus(d, k) \in Index
      BY <3>1, IndexClosed, Zenon
    <3>3. Plus(d, k) = IF d + k < Wrap THEN d + k ELSE d + k - Wrap
      BY <3>1, PlusCases, Zenon
    <3> QED
      BY <3>1, <3>2, <3>3, Constants, SMT DEF Index
  <2>3. {Plus(d, k) : k \in (IF cpc = "release" THEN 1 ELSE 0) .. Minus(e, d) - 1} =
          {j \in Index : FilledIn(e, d, j) /\ ~(cpc = "release" /\ j = d)}
    <3>1. CASE cpc = "release"
      <4>1. \A k : k \in 1 .. Minus(e, d) - 1 <=> k \in 0 .. Minus(e, d) - 1 /\ k # 0
        BY <1>1
      <4> QED
        BY <3>1, <4>1, <2>1, <2>2
    <3>2. CASE cpc # "release"
      BY <3>2, <2>1, <2>2, Zenon
    <3> QED
      BY <3>1, <3>2, Zenon
  <2> QED
    BY <1>1, <2>3 DEF LiveIndices, Size
<1>6. ppc = "publish" => /\ VacatedIn(e, d, Minus(e, Capacity)) /\ Minus(e, Capacity) \in Index
                         /\ Slot(Minus(e, Capacity)) = Slot(e)
  BY <1>0, <1>1, Zenon DEF Ring
<1>7. ~alive => ppc = "idle" /\ cpc = "idle"
  BY Zenon DEF SlotsInv
<1>8. CASE FilledIn(e, d, i)
  <2>1. slots_[s] # NoValue <=> alive /\ ~(cpc = "release" /\ i = d)
    BY <1>1, <1>2, <1>8, Zenon DEF SlotsInv
  <2>2. ~(ppc = "publish" /\ Slot(e) = s)
    BY <1>3, <1>4, <1>6, <1>8, Zenon
  <2> QED
    BY <1>2, <1>3, <1>5, <1>8, <2>1, <2>2, Zenon
<1>9. CASE VacatedIn(e, d, i)
  <2>1. slots_[s] # NoValue <=> ppc = "publish" /\ i = Minus(e, Capacity)
    BY <1>1, <1>2, <1>9, Zenon DEF SlotsInv
  <2>2. \A j \in Index : FilledIn(e, d, j) => Slot(j) # s
    BY <1>3, <1>4, <1>9, Zenon
  <2> QED
    BY <1>2, <1>3, <1>5, <1>6, <1>7, <2>1, <2>2, Zenon
<1> QED
  BY <1>2, <1>8, <1>9, Zenon

(***************************************************************************)
(* A slot of spsc_queue holds an element exactly from its construction to  *)
(* its move out: nothing is built over a live element, destroyed twice or  *)
(* leaked, and the two sides never touch one slot, whatever either has     *)
(* seen of the other's index (spsc_queue.hpp:130-165).                     *)
(***************************************************************************)
THEOREM ElementsSafe == Spec => []ElementsIntact
<1>1. Init => SlotsInv
  BY SlotsInit, Zenon
<1>2. TypeOK /\ CachedIndicesConservative /\ SlotsInv /\ [Next]_vars => SlotsInv'
  BY SlotsStep, Zenon
<1>3. TypeOK /\ CachedIndicesConservative /\ SlotsInv => SlotsMatchIndices
  BY SlotsInvMatch, Zenon
<1>4. TypeOK /\ SlotsMatchIndices /\ NoSlotRace => ElementsIntact
  BY Zenon DEF ElementsIntact
<1> QED
  BY <1>1, <1>2, <1>3, <1>4, TypeCorrect, CachedIndicesSafe, NoRace, PTL DEF Spec

-----------------------------------------------------------------------------
(***************************************************************************)
(* spsc_queue implements BoundedFifo.  The element an index stands for is  *)
(* in its slot, or in the consumer's hands between move out and release.   *)
(***************************************************************************)
Element(i) == IF i = head_ /\ cpc = "release" THEN out ELSE slots_[Slot(i)]

QueueInv == TypeOK /\ CachedIndicesConservative /\ SlotsInv

Elements == Values \cup {NoValue}

ContentsAre ==
  /\ Contents \in Seq(Elements) /\ Len(Contents) = Minus(tail_, head_)
  /\ \A k \in 1 .. Minus(tail_, head_) : Contents[k] = Element(Plus(head_, k - 1))

LEMMA ContentsFacts == QueueInv => ContentsAre
<1> SUFFICES ASSUME QueueInv PROVE ContentsAre
  BY Zenon
<1>1. PICK e \in Index, d \in Index : e = tail_ /\ d = head_ /\ Minus(e, d) \in 0 .. Capacity
  BY RingFacts, Zenon DEF QueueInv, Ring
<1> DEFINE n == Minus(e, d)
<1>2. n \in Nat /\ n < Wrap
  BY <1>1, Constants, SMT
<1>3. Contents = [k \in 1 .. n |-> IF k = 1 /\ cpc = "release" THEN out
                                   ELSE slots_[Slot(Plus(d, k - 1))]]
  BY <1>1, Zenon DEF Contents, Size
<1>4. ASSUME NEW k \in 1 .. n
      PROVE  /\ Contents[k] = Element(Plus(d, k - 1)) /\ Contents[k] \in Elements
  <2>1. PICK j \in Index : j = k - 1
    BY <1>2, Constants, SMT DEF Index
  <2>2. Plus(d, j) \in Index
    BY <2>1, IndexClosed, Zenon
  <2>3. Plus(d, j) = d <=> k = 1
    <3>1. Plus(d, j) = IF d + j < Wrap THEN d + j ELSE d + j - Wrap
      BY PlusCases, Zenon
    <3> QED
      BY <2>1, <3>1, Constants, SMT DEF Index
  <2>4. Contents[k] = IF k = 1 /\ cpc = "release" THEN out ELSE slots_[Slot(Plus(d, j))]
    BY <1>3, <2>1, Zenon
  <2>5. slots_[Slot(Plus(d, j))] \in Elements /\ out \in Elements
    BY <2>2, SlotInRange, Zenon DEF QueueInv, TypeOK, Elements
  <2>6. Contents[k] = Element(Plus(d, j))
    BY <1>1, <2>3, <2>4, Zenon DEF Element
  <2> QED
    BY <2>1, <2>4, <2>5, <2>6, Zenon
<1>5. Contents \in [1 .. n -> Elements]
  BY <1>3, <1>4, Zenon
<1>6. Contents \in Seq(Elements) /\ Len(Contents) = n
  BY <1>2, <1>5, FunctionIsSeq, Zenon
<1> QED
  BY <1>1, <1>4, <1>6, Zenon DEF ContentsAre

\* A step that moves neither index nor any element of the queue.
LEMMA ContentsSame ==
  ASSUME QueueInv, QueueInv', UNCHANGED <<head_, tail_>>,
         \A i \in Index : FilledIn(tail_, head_, i) => Element(i)' = Element(i)
  PROVE  Contents' = Contents
<1>1. ContentsAre /\ ContentsAre'
  BY ContentsFacts, PTL
<1>2. PICK e \in Index, d \in Index : e = tail_ /\ d = head_ /\ e = tail_' /\ d = head_'
  BY Zenon DEF QueueInv, TypeOK
<1>3. ASSUME NEW k \in 1 .. Minus(e, d)
      PROVE  Contents'[k] = Contents[k]
  <2>1. PICK i \in Index : i = Plus(d, k - 1) /\ FilledIn(e, d, i)
    BY <1>2, Positions
  <2>2. Contents[k] = Element(i) /\ Contents'[k] = Element(i)'
    BY <1>1, <1>2, <2>1, Zenon DEF ContentsAre
  <2> QED
    BY <1>2, <2>1, <2>2, Zenon
<1>4. /\ Contents \in Seq(Elements) /\ Contents' \in Seq(Elements)
      /\ Len(Contents) = Minus(e, d) /\ Len(Contents') = Minus(e, d)
  BY <1>1, <1>2, Zenon DEF ContentsAre, Elements
<1> QED
  BY <1>3, <1>4, SameSeq, Zenon

\* try_emplace takes effect at the store of tail_.
LEMMA PublishContents ==
  ASSUME QueueInv, QueueInv', PublishTail
  PROVE  Len(Contents) < Capacity /\ Contents' = Append(Contents, arg)
<1>0. Ring /\ ContentsAre /\ ContentsAre'
  BY RingFacts, ContentsFacts, PTL DEF QueueInv
<1>1. PICK e \in Index, d \in Index : e = tail_ /\ d = head_
  BY Zenon DEF QueueInv, TypeOK
<1> DEFINE n == Minus(e, d)
<1>2. /\ n \in Nat /\ n < Capacity /\ ppc = "publish" /\ arg \in Elements
      /\ tail_' = Plus(e, 1) /\ head_' = d /\ UNCHANGED <<cpc, out, slots_>>
      /\ slots_[Slot(e)] = arg /\ (cpc = "release" => d # e)
  BY <1>0, <1>1 DEF PublishTail, Ring, QueueInv, TypeOK, SlotsInv, Elements
<1>3. Minus(Plus(e, 1), d) = n + 1
  BY <1>2, PushShift, Zenon
<1>4. \A i : Element(i)' = Element(i)
  BY <1>1, <1>2, Zenon DEF Element
<1>5. /\ Contents \in Seq(Elements) /\ Len(Contents) = n
      /\ \A k \in 1 .. n : Contents[k] = Element(Plus(d, k - 1))
  BY <1>0, <1>1, Zenon DEF ContentsAre
<1>6. /\ Contents' \in Seq(Elements) /\ Len(Contents') = n + 1
      /\ \A k \in 1 .. n + 1 : Contents'[k] = Element(Plus(d, k - 1))
  BY <1>0, <1>2, <1>3, <1>4, Zenon DEF ContentsAre, Elements
<1>7. \A k \in 1 .. n : Contents'[k] = Contents[k]
  BY <1>2, <1>5, <1>6, SMTT(60)
<1>8. Contents'[n + 1] = arg
  <2>1. Plus(d, n) = e
    BY Positions, Zenon
  <2>2. Element(e) = arg
    BY <1>1, <1>2, Zenon DEF Element
  <2>3. PICK k \in 1 .. n + 1 : k = n + 1 /\ k - 1 = n
    BY <1>2
  <2>4. Contents'[k] = Element(Plus(d, n))
    BY <1>6, <2>3, Zenon
  <2> QED
    BY <2>1, <2>2, <2>3, <2>4, Zenon
<1> QED
  BY <1>2, <1>5, <1>6, <1>7, <1>8, AppendIs, Zenon

\* try_pop takes effect at the store of head_.
LEMMA ReleaseContents ==
  ASSUME QueueInv, QueueInv', ReleaseHead
  PROVE  Contents # <<>> /\ Head(Contents) = out /\ Contents' = Tail(Contents)
<1>0. Ring /\ ContentsAre /\ ContentsAre'
  BY RingFacts, ContentsFacts, PTL DEF QueueInv
<1>1. PICK e \in Index, d \in Index : e = tail_ /\ d = head_
  BY Zenon DEF QueueInv, TypeOK
<1> DEFINE n == Minus(e, d)
<1>2. /\ n \in Nat /\ 0 < n /\ n <= Capacity /\ n < Wrap /\ cpc = "release" /\ cpc' = "idle"
      /\ tail_' = e /\ head_' = Plus(d, 1) /\ slots_' = slots_
  BY <1>0, <1>1, Constants DEF ReleaseHead, Ring
<1>3. Minus(e, Plus(d, 1)) = n - 1
  BY <1>2, PopShift, Zenon
<1>4. /\ Contents \in Seq(Elements) /\ Len(Contents) = n
      /\ \A k \in 1 .. n : Contents[k] = Element(Plus(d, k - 1))
  BY <1>0, <1>1, Zenon DEF ContentsAre
<1>5. /\ Contents' \in Seq(Elements) /\ Len(Contents') = n - 1
      /\ \A k \in 1 .. n - 1 : Contents'[k] = slots_[Slot(Plus(Plus(d, 1), k - 1))]
  BY <1>0, <1>2, <1>3, Zenon DEF ContentsAre, Elements, Element
<1>6. Contents[1] = out
  <2>1. PICK k \in 1 .. n : k = 1 /\ k - 1 = 0
    BY <1>2
  <2>2. Plus(d, k - 1) = d
    BY <2>1, PlusZero, Zenon
  <2> QED
    BY <1>1, <1>2, <1>4, <2>1, <2>2, Zenon DEF Element
<1>7. ASSUME NEW k \in 1 .. n - 1
      PROVE  Contents'[k] = Contents[k + 1]
  <2>1. PICK m \in 1 .. n : m = k + 1 /\ m - 1 = k /\ m # 1
    BY <1>2
  <2>2. k \in Nat /\ 0 < k /\ k < Wrap
    BY <1>2, Constants, SMTT(60)
  <2>3. PICK i \in Index : i = Plus(d, k) /\ i = Plus(Plus(d, 1), k - 1) /\ i # d
    <3>1. k \in Index
      BY <2>2, Constants, SMT DEF Index
    <3>2. Plus(d, k) \in Index /\ Plus(d, k) = IF d + k < Wrap THEN d + k ELSE d + k - Wrap
      BY <3>1, IndexClosed, PlusCases, Zenon
    <3>3. Plus(d, k) # d
      BY <2>2, <3>2, Constants, SMTT(60) DEF Index
    <3> QED
      BY <2>2, <3>2, <3>3, NextPosition, Zenon
  <2>4. Contents[m] = slots_[Slot(i)]
    BY <1>1, <1>4, <2>1, <2>3, ZenonT(60) DEF Element
  <2>5. Contents'[k] = slots_[Slot(i)]
    BY <1>5, <2>3, Zenon
  <2> QED
    BY <2>1, <2>4, <2>5, Zenon
<1>8. Len(Contents) > 0 /\ Len(Contents') = Len(Contents) - 1
  BY <1>2, <1>4, <1>5, Zenon
<1>9. \A k \in 1 .. Len(Contents') : Contents'[k] = Contents[k + 1]
  BY <1>5, <1>7, Zenon
<1>10. Contents # <<>> /\ Head(Contents) = Contents[1] /\ Contents' = Tail(Contents)
  BY <1>4, <1>5, <1>8, <1>9, TailIs, Zenon
<1> QED
  BY <1>6, <1>10, Zenon

LEMMA ProducerRefines ==
  ASSUME QueueInv, QueueInv', ProducerStep, UNCHANGED stale
  PROVE  [Fifo!Next]_Fifo!vars
<1>0. Ring /\ alive
  <2>1. Ring
    BY RingFacts, Zenon DEF QueueInv
  <2>2. ppc = "idle" => alive
    BY Zenon DEF ProducerStep, TryEmplace, LoadHead, Construct, ConstructThrows, PublishTail
  <2> QED
    BY <2>1, <2>2, Zenon DEF QueueInv, SlotsInv
<1>1. ASSUME NEW v \in Values, TryEmplace(v) PROVE UNCHANGED Fifo!vars
  BY <1>1, Zenon DEF TryEmplace, Fifo!vars, Contents, Size
<1>2. CASE LoadHead
  <2>1. Contents' = Contents /\ UNCHANGED <<alive, popped>>
    BY <1>2, Zenon DEF LoadHead, Contents, Size
  <2>2. PICK h \in Visible(cached_head_, head_) :
          IF Full(tail_, h) THEN pushed' = FALSE ELSE UNCHANGED pushed
    BY <1>2, Zenon DEF LoadHead
  <2>3. CASE ~Full(tail_, h)
    BY <2>1, <2>2, <2>3, Zenon DEF Fifo!vars
  <2>4. CASE Full(tail_, h)
    <3>1. Len(Contents) = Capacity \/ stale
      <4> SUFFICES ASSUME ~stale PROVE Len(Contents) = Capacity
        BY Zenon
      <4>1. h = head_
        BY Zenon DEF Visible
      <4>2. head_ \in Index /\ tail_ \in Index /\ Minus(tail_, head_) \in 0 .. Capacity
        BY <1>0, Zenon DEF Ring
      <4>3. Minus(Plus(tail_, 1), head_) = Minus(tail_, head_) + 1
        BY <4>2, MinusAdvance, Constants, SMT
      <4>4. Minus(tail_, head_) = Capacity
        BY <2>4, <4>1, <4>2, <4>3, Constants, SMT DEF Full
      <4> QED
        BY <4>4, ContentsFacts, Zenon DEF ContentsAre
    <3> QED
      BY <1>0, <2>1, <2>2, <2>4, <3>1, Zenon DEF Fifo!Next, Fifo!PushFull
  <2> QED
    BY <2>3, <2>4, Zenon
<1>3. CASE Construct
  <2>1. PICK e \in Index, d \in Index, m \in Index :
          /\ e = tail_ /\ d = head_ /\ m = Minus(tail_, Capacity)
          /\ Minus(e, d) <= Capacity /\ VacatedIn(e, d, m) /\ Slot(m) = Slot(e)
    BY <1>0, <1>3 DEF Ring, Construct
  <2>2. \A i \in Index : FilledIn(e, d, i) => Slot(i) # Slot(e)
    BY <2>1, ZonesApart, ZonesDisjoint, Zenon
  <2>3. \A i \in Index : FilledIn(e, d, i) => Element(i)' = Element(i)
    <3>1. \A i \in Index : FilledIn(e, d, i) => slots_'[Slot(i)] = slots_[Slot(i)]
      BY <1>3, <2>1, <2>2, SlotInRange, Zenon DEF Construct, QueueInv, TypeOK
    <3> QED
      BY <1>3, <3>1, Zenon DEF Construct, Element
  <2>4. Contents' = Contents
    BY <1>3, <2>1, <2>3, ContentsSame, Zenon DEF Construct
  <2> QED
    BY <1>3, <2>4, Zenon DEF Construct, Fifo!vars
<1>4. CASE ConstructThrows
  BY <1>4, Zenon DEF ConstructThrows, Fifo!vars, Contents, Size
<1>5. CASE PublishTail
  <2>1. Len(Contents) < Capacity /\ Contents' = Append(Contents, arg)
    BY <1>5, PublishContents, Zenon
  <2>2. arg \in Values /\ pushed' = TRUE /\ UNCHANGED <<alive, popped>>
    BY <1>5, Zenon DEF PublishTail, QueueInv, TypeOK
  <2> QED
    BY <1>0, <2>1, <2>2, Zenon DEF Fifo!Next, Fifo!Push
<1> QED
  BY <1>1, <1>2, <1>3, <1>4, <1>5, Zenon DEF ProducerStep

LEMMA ConsumerRefines ==
  ASSUME QueueInv, QueueInv', ConsumerStep, UNCHANGED stale
  PROVE  [Fifo!Next]_Fifo!vars
<1>0. Ring /\ alive
  <2>1. Ring
    BY RingFacts, Zenon DEF QueueInv
  <2>2. cpc = "idle" => alive
    BY Zenon DEF ConsumerStep, TryPop, LoadTail, MoveOut, ReleaseHead
  <2> QED
    BY <2>1, <2>2, Zenon DEF QueueInv, SlotsInv
<1>1. CASE TryPop
  BY <1>1, Zenon DEF TryPop, Fifo!vars, Contents, Size
<1>2. CASE LoadTail
  <2>1. Contents' = Contents /\ UNCHANGED <<alive, pushed>>
    BY <1>2, Zenon DEF LoadTail, Contents, Size
  <2>2. PICK t \in Visible(cached_tail_, tail_) :
          IF head_ = t THEN popped' = NoValue ELSE UNCHANGED popped
    BY <1>2, Zenon DEF LoadTail
  <2>3. CASE head_ # t
    BY <2>1, <2>2, <2>3, Zenon DEF Fifo!vars
  <2>4. CASE head_ = t
    <3>1. Contents = <<>> \/ stale
      <4> SUFFICES ASSUME ~stale PROVE Contents = <<>>
        BY Zenon
      <4>1. head_ = tail_
        BY <2>4, Zenon DEF Visible
      <4>2. Minus(tail_, head_) = 0
        BY <4>1, PlusZero, Zenon DEF QueueInv, TypeOK
      <4>3. Contents \in Seq(Elements) /\ Len(Contents) = 0
        BY <4>2, ContentsFacts, Zenon DEF ContentsAre
      <4> QED
        BY <4>3
    <3> QED
      BY <1>0, <2>1, <2>2, <2>4, <3>1, Zenon DEF Fifo!Next, Fifo!PopEmpty
  <2> QED
    BY <2>3, <2>4, Zenon
<1>3. CASE MoveOut
  <2>1. PICK e \in Index, d \in Index :
          e = tail_ /\ d = head_ /\ Minus(e, d) <= Capacity /\ FilledIn(e, d, d)
    BY <1>0, <1>3 DEF Ring, MoveOut
  <2>2. \A i \in Index : i # d /\ FilledIn(e, d, i) => Slot(i) # Slot(d)
    BY <2>1, ZonesApart, Zenon
  <2>3. \A i \in Index : i # d /\ FilledIn(e, d, i) => slots_'[Slot(i)] = slots_[Slot(i)]
    BY <1>3, <2>1, <2>2, SlotInRange, Zenon DEF MoveOut, QueueInv, TypeOK
  <2>4. \A i \in Index : FilledIn(e, d, i) => Element(i)' = Element(i)
    BY <1>3, <2>1, <2>3, Zenon DEF MoveOut, Element
  <2>5. Contents' = Contents
    BY <1>3, <2>1, <2>4, ContentsSame, Zenon DEF MoveOut
  <2> QED
    BY <1>3, <2>5, ZenonT(60) DEF MoveOut, Fifo!vars
<1>4. CASE ReleaseHead
  <2>1. Contents # <<>> /\ Head(Contents) = out /\ Contents' = Tail(Contents)
    BY <1>4, ReleaseContents, Zenon
  <2>2. popped' = out /\ UNCHANGED <<alive, pushed>>
    BY <1>4, Zenon DEF ReleaseHead
  <2> QED
    BY <1>0, <2>1, <2>2, Zenon DEF Fifo!Next, Fifo!Pop
<1> QED
  BY <1>1, <1>2, <1>3, <1>4, Zenon DEF ConsumerStep

LEMMA RefinesStep == QueueInv /\ QueueInv' /\ [Next]_vars => [Fifo!Next]_Fifo!vars
<1> SUFFICES ASSUME QueueInv, QueueInv', [Next]_vars PROVE [Fifo!Next]_Fifo!vars
  BY Zenon
<1>1. CASE ProducerStep /\ UNCHANGED stale
  BY <1>1, ProducerRefines, Zenon
<1>2. CASE ConsumerStep /\ UNCHANGED stale
  BY <1>2, ConsumerRefines, Zenon
<1>3. CASE Destroy /\ UNCHANGED stale
  BY <1>3, Zenon DEF Destroy, Fifo!Next, Fifo!Drain
<1>4. CASE UNCHANGED vars
  BY <1>4, Zenon DEF Fifo!vars, Contents, Size
<1> QED
  BY <1>1, <1>2, <1>3, <1>4, Zenon DEF Next

LEMMA RefinesInit == Init => Fifo!Init
<1> SUFFICES ASSUME Init PROVE Fifo!Init
  BY Zenon
<1>1. Minus(0, 0) = 0
  BY Constants, PlusZero DEF Index
<1>2. Contents = <<>>
  BY <1>1 DEF Init, Contents, Size
<1> QED
  BY <1>2, Zenon DEF Init, Fifo!Init

(***************************************************************************)
(* spsc_queue implements BoundedFifo for every capacity, width of the      *)
(* indices and set of values: first in, first out, no element lost or      *)
(* duplicated; push answers false only when the queue is full and pop only *)
(* when it is empty, at the load that decides, or on a stale value of the  *)
(* other side's index (spsc_queue.hpp:124-176).                            *)
(***************************************************************************)
THEOREM QueueIsFifo == Spec => ImplementsFifo
<1>1. Init => SlotsInv /\ Fifo!Init
  BY SlotsInit, RefinesInit, Zenon
<1>2. TypeOK /\ CachedIndicesConservative /\ SlotsInv /\ [Next]_vars => SlotsInv'
  BY SlotsStep, Zenon
<1>3. QueueInv /\ QueueInv' /\ [Next]_vars => [Fifo!Next]_Fifo!vars
  BY RefinesStep, Zenon
<1>4. QueueInv <=> TypeOK /\ CachedIndicesConservative /\ SlotsInv
  BY Zenon DEF QueueInv
<1> QED
  BY <1>1, <1>2, <1>3, <1>4, TypeCorrect, CachedIndicesSafe, PTL DEF Spec, ImplementsFifo, Fifo!Spec

-----------------------------------------------------------------------------
(***************************************************************************)
(* size_approx, whatever the two indices it has loaded.                    *)
(***************************************************************************)
\* Whatever two indices a thread that owns neither has loaded, in whatever
\* order: size_approx is in [0, Capacity] (spsc_queue.hpp:174-175).
LEMMA SizeApproxInRange ==
  ASSUME NEW head \in Index, NEW tail \in Index
  PROVE  clamped_index_distance(head, tail) \in 0 .. Capacity
<1>1. Minus(tail, head) \in Index
  BY IndexClosed, Zenon
<1> QED
  BY <1>1, Constants, SMT DEF clamped_index_distance, Index

\* What it answers from a head_ that is a past some index and a tail_ that is t
\* past it: the distance, at most Capacity, or 0 when the tail reads behind.
LEMMA SizeApproxOfReadings ==
  ASSUME NEW head \in Index, NEW a \in 0 .. HalfRange, NEW t \in 0 .. HalfRange
  PROVE  clamped_index_distance(Plus(head, a), Plus(head, t)) =
           IF t < a THEN 0 ELSE IF t - a < Capacity THEN t - a ELSE Capacity
<1>1. /\ HalfRange \in Nat /\ 2 * HalfRange < Wrap /\ HalfRange \in Index
      /\ a \in Index /\ t \in Index
  BY Constants, SMT DEF HalfRange, Index
<1>2. Plus(head, a) \in Index /\ Plus(head, t) \in Index
  BY <1>1, IndexClosed, Zenon
<1>3. Minus(Plus(head, t), Plus(head, a)) = IF t < a THEN t - a + Wrap ELSE t - a
  <2>1. Plus(head, a) = IF head + a < Wrap THEN head + a ELSE head + a - Wrap
    BY <1>1, PlusCases, Zenon
  <2>2. Plus(head, t) = IF head + t < Wrap THEN head + t ELSE head + t - Wrap
    BY <1>1, PlusCases, Zenon
  <2>3. Minus(Plus(head, t), Plus(head, a)) =
          IF Plus(head, t) >= Plus(head, a) THEN Plus(head, t) - Plus(head, a)
          ELSE Plus(head, t) - Plus(head, a) + Wrap
    BY <1>2, MinusCases, Zenon
  <2> QED
    BY <1>1, <2>1, <2>2, <2>3, Constants, SMTT(60) DEF Index
<1> QED
  BY <1>1, <1>3, Constants, SMTT(60) DEF clamped_index_distance

(***************************************************************************)
(* size_approx from a third thread (spsc_queue.hpp:176-180, and the same   *)
(* of spsc_byte_ring).  Its loads are relaxed: they may be performed in    *)
(* either order, and each may be stale.  Take any stretch of the queue's   *)
(* history that both values come from: it begins with `size` elements      *)
(* queued behind `head`, and `pops` are taken and `pushes` added in it.    *)
(* The loads see any number of those pops and any of those pushes.  Then   *)
(* the answer is in [0, Capacity], counts every element that was queued    *)
(* throughout the stretch, and counts no more than were queued at some     *)
(* time in it; a tail that reads behind the head answers 0, and no reading *)
(* underflows (index_distance.hpp:15-26).  In the stretch at most half the *)
(* range of the index type may be popped, and at most that many elements   *)
(* be queued at one time or another.                                       *)
(***************************************************************************)
THEOREM SizeApproxWithinWindow ==
  ASSUME NEW head \in Index, NEW size \in 0 .. Capacity,
         NEW pops \in 0 .. HalfRange, NEW pushes \in Nat, size + pushes <= HalfRange,
         NEW pops_seen \in 0 .. pops, NEW pushes_seen \in 0 .. pushes
  PROVE  LET answer == clamped_index_distance(Plus(head, pops_seen), Plus(head, size + pushes_seen))
         IN  /\ answer \in 0 .. Capacity
             /\ size - pops <= answer /\ answer <= size + pushes
             /\ size + pushes_seen < pops_seen => answer = 0
<1> DEFINE t == size + pushes_seen
           answer == clamped_index_distance(Plus(head, pops_seen), Plus(head, t))
<1>1. HalfRange \in Nat /\ pops_seen \in 0 .. HalfRange /\ t \in 0 .. HalfRange
  BY Constants, SMT DEF HalfRange
<1>2. answer = IF t < pops_seen THEN 0 ELSE IF t - pops_seen < Capacity THEN t - pops_seen ELSE Capacity
  BY <1>1, SizeApproxOfReadings, Zenon
<1> HIDE DEF answer
<1>3. /\ answer \in 0 .. Capacity
      /\ size - pops <= answer /\ answer <= size + pushes
      /\ t < pops_seen => answer = 0
  BY <1>1, <1>2, Constants, SMTT(60)
<1> QED
  BY <1>3, Zenon DEF answer

=============================================================================
