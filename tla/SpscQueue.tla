----------------------------- MODULE SpscQueue -----------------------------
(***************************************************************************)
(* metl::spsc_queue (spsc_queue.hpp): a bounded ring shared by exactly one *)
(* producer and one consumer, without a lock or a compare-exchange.  Each  *)
(* side owns one free-running index and keeps a cached copy of the other's.*)
(* There is one action per access to shared memory: the loads and stores   *)
(* of head_ and tail_, the construction of an element in a slot, its move  *)
(* out and destruction.                                                    *)
(*                                                                         *)
(* `stale` is the memory model, fixed for a behaviour.  FALSE: a load      *)
(* returns the newest value.  TRUE: an atomic load returns any value       *)
(* between the last one its thread has read and the newest, which is all   *)
(* that coherence and acquire/release order promise.                       *)
(***************************************************************************)
EXTENDS IndexDistance, Sequences

CONSTANTS Values,      \* the elements a producer may push
          NoValue      \* raw storage: no element lives here

ASSUME SpscAssumption == NoValue \notin Values

VARIABLES
  head_, cached_tail_,   \* written by the consumer only
  tail_, cached_head_,   \* written by the producer only
  slots_,                \* storage: a live element or NoValue
  ppc, arg, pushed,      \* producer: next access, argument of try_emplace, last return
  cpc, out, popped,      \* consumer: next access, moved-out element, last return
  alive,                 \* has the destructor not yet run?
  stale                  \* may an atomic load return an older value?

producer == <<tail_, cached_head_, ppc, arg, pushed>>
consumer == <<head_, cached_tail_, cpc, out, popped>>
vars == <<producer, consumer, slots_, alive, stale>>

Init ==
  /\ head_ = 0 /\ cached_tail_ = 0 /\ tail_ = 0 /\ cached_head_ = 0
  /\ slots_ = [s \in Slots |-> NoValue]
  /\ ppc = "idle" /\ arg = NoValue /\ pushed = TRUE
  /\ cpc = "idle" /\ out = NoValue /\ popped = NoValue
  /\ alive = TRUE /\ stale \in BOOLEAN

\* What a load of an atomic index whose newest value is `newest` may return to
\* a thread that last read `seen` from it.
Visible(seen, newest) ==
  IF stale THEN {Plus(seen, k) : k \in 0 .. Minus(newest, seen)} ELSE {newest}

\* Faults of Full: the comparison on plain integers, an off-by-one that admits
\* one element too many, and one that wastes a slot.
Full_NotModular(tail, head) == (tail + 1) - head > Capacity
Full_OneTooMany(tail, head) == Minus(tail, head) > Capacity
Full_WastesSlot(tail, head) == Minus(Plus(tail, 1), head) >= Capacity

Full(tail, head) == Minus(Plus(tail, 1), head) > Capacity

-----------------------------------------------------------------------------
(***************************************************************************)
(* Producer: try_emplace.                                                  *)
(***************************************************************************)

\* Entry: the fast path decides from the cached copy of the consumer's index.
TryEmplace(v) ==
  /\ alive /\ ppc = "idle"
  /\ arg' = v
  /\ ppc' = IF Full(tail_, cached_head_) THEN "load" ELSE "construct"
  /\ UNCHANGED <<tail_, cached_head_, pushed, consumer, slots_, alive>>

\* The reload of head_, and the false answer when it still says full.
LoadHead ==
  /\ ppc = "load"
  /\ \E h \in Visible(cached_head_, head_) :
       /\ cached_head_' = h
       /\ IF Full(tail_, h)
            THEN ppc' = "idle" /\ arg' = NoValue /\ pushed' = FALSE
            ELSE ppc' = "construct" /\ UNCHANGED <<arg, pushed>>
  /\ UNCHANGED <<tail_, consumer, slots_, alive>>

Construct ==
  /\ ppc = "construct"
  /\ slots_' = [slots_ EXCEPT ![Slot(tail_)] = arg]
  /\ ppc' = "publish"
  /\ UNCHANGED <<tail_, cached_head_, arg, pushed, consumer, alive>>

\* A throwing constructor propagates with nothing published.
ConstructThrows ==
  /\ ppc = "construct"
  /\ ppc' = "idle" /\ arg' = NoValue
  /\ UNCHANGED <<tail_, cached_head_, pushed, consumer, slots_, alive>>

PublishTail ==
  /\ ppc = "publish"
  /\ tail_' = Plus(tail_, 1)
  /\ ppc' = "idle" /\ arg' = NoValue /\ pushed' = TRUE
  /\ UNCHANGED <<cached_head_, consumer, slots_, alive>>

-----------------------------------------------------------------------------
(***************************************************************************)
(* Consumer: try_pop.                                                      *)
(***************************************************************************)

\* Fault: "empty" decided from the cached copy alone.
TryPop_NeverReloads ==
  /\ alive /\ cpc = "idle"
  /\ cpc' = IF head_ = cached_tail_ THEN "idle" ELSE "move"
  /\ popped' = IF head_ = cached_tail_ THEN NoValue ELSE popped
  /\ UNCHANGED <<head_, cached_tail_, out, producer, slots_, alive>>

TryPop ==
  /\ alive /\ cpc = "idle"
  /\ cpc' = IF head_ = cached_tail_ THEN "load" ELSE "move"
  /\ UNCHANGED <<head_, cached_tail_, out, popped, producer, slots_, alive>>

LoadTail ==
  /\ cpc = "load"
  /\ \E t \in Visible(cached_tail_, tail_) :
       /\ cached_tail_' = t
       /\ IF head_ = t
            THEN cpc' = "idle" /\ popped' = NoValue
            ELSE cpc' = "move" /\ UNCHANGED popped
  /\ UNCHANGED <<head_, out, producer, slots_, alive>>

\* out = std::move(*p); p->~T()
MoveOut ==
  /\ cpc = "move"
  /\ out' = slots_[Slot(head_)]
  /\ slots_' = [slots_ EXCEPT ![Slot(head_)] = NoValue]
  /\ cpc' = "release"
  /\ UNCHANGED <<head_, cached_tail_, popped, producer, alive>>

ReleaseHead ==
  /\ cpc = "release"
  /\ head_' = Plus(head_, 1)
  /\ cpc' = "idle" /\ popped' = out /\ out' = NoValue
  /\ UNCHANGED <<cached_tail_, producer, slots_, alive>>

-----------------------------------------------------------------------------
(***************************************************************************)
(* The destructor runs when no other thread uses the queue, and destroys   *)
(* the elements from head to tail.                                         *)
(***************************************************************************)
Destroy ==
  /\ alive /\ ppc = "idle" /\ cpc = "idle"
  /\ alive' = FALSE
  /\ slots_' = [s \in Slots |->
                 IF \E k \in 0 .. Minus(tail_, head_) - 1 : s = Slot(Plus(head_, k))
                 THEN NoValue ELSE slots_[s]]
  /\ UNCHANGED <<producer, consumer>>

-----------------------------------------------------------------------------
ProducerStep ==
  \/ \E v \in Values : TryEmplace(v)
  \/ LoadHead \/ Construct \/ ConstructThrows \/ PublishTail

ConsumerStep == TryPop \/ LoadTail \/ MoveOut \/ ReleaseHead

Next == (ProducerStep \/ ConsumerStep \/ Destroy) /\ UNCHANGED stale

Spec == Init /\ [][Next]_vars

(***************************************************************************)
(* A consumer that keeps calling try_pop, on a processor that keeps running*)
(* it.  A load that is repeated for ever returns the newest value some     *)
(* time: C++ has a store become visible to other threads in a finite       *)
(* period.  Nothing is asked of the producer.                              *)
(***************************************************************************)
LoadNewestTail == LoadTail /\ cached_tail_' = tail_

FairSpec ==
  /\ Spec
  /\ WF_vars(ConsumerStep /\ UNCHANGED stale)
  /\ SF_vars(LoadNewestTail /\ UNCHANGED stale)

-----------------------------------------------------------------------------
Size == Minus(tail_, head_)

TypeOK ==
  /\ head_ \in Index /\ tail_ \in Index
  /\ cached_head_ \in Index /\ cached_tail_ \in Index
  /\ slots_ \in [Slots -> Values \cup {NoValue}]
  /\ ppc \in {"idle", "load", "construct", "publish"}
  /\ arg \in Values \cup {NoValue} /\ (ppc # "idle" => arg \in Values)
  /\ pushed \in BOOLEAN
  /\ cpc \in {"idle", "load", "move", "release"}
  /\ out \in Values \cup {NoValue} /\ popped \in Values \cup {NoValue}
  /\ alive \in BOOLEAN /\ stale \in BOOLEAN

(***************************************************************************)
(* Each side's cached copy of the other's index is behind the true one and *)
(* never further behind than the ring allows: a stale copy can make a push *)
(* see "full" or a pop see "empty" too early, never room or an element     *)
(* that is not there (spsc_queue.hpp:130-134, 154-158).  This has to       *)
(* survive the wrap of both indices.                                       *)
(***************************************************************************)
CachedIndicesConservative ==
  /\ Size <= Capacity
  /\ Size <= Minus(tail_, cached_head_) /\ Minus(tail_, cached_head_) <= Capacity
  /\ Minus(cached_tail_, head_) <= Size
  /\ ppc \in {"construct", "publish"} => Minus(tail_, cached_head_) < Capacity
  /\ cpc \in {"move", "release"} => head_ # cached_tail_

\* The indices whose slot must hold a live element.
LiveIndices ==
  {Plus(head_, k) : k \in (IF cpc = "release" THEN 1 ELSE 0) .. Size - 1}
    \cup (IF ppc = "publish" THEN {tail_} ELSE {})

(***************************************************************************)
(* Every slot holds an element exactly when it is published and not yet    *)
(* taken, or constructed and about to be published.  Hence no element is   *)
(* constructed over a live one, none is destroyed twice, and the           *)
(* destructor's walk from head to tail leaks nothing.                      *)
(***************************************************************************)
SlotsMatchIndices ==
  \A s \in Slots :
    slots_[s] # NoValue <=> (alive /\ \E i \in LiveIndices : Slot(i) = s)

(***************************************************************************)
(* The producer never constructs in the slot the consumer is moving out of *)
(* and destroying: the two unsynchronised accesses to slots_ never meet.   *)
(***************************************************************************)
NoSlotRace ==
  ~(ppc = "construct" /\ cpc \in {"move", "release"} /\ Slot(tail_) = Slot(head_))

(***************************************************************************)
(* The elements of spsc_queue are intact: the state is well typed, a slot  *)
(* holds an element exactly from its construction to its move out, and the *)
(* two sides never touch one slot (spsc_queue.hpp:153-165).                *)
(***************************************************************************)
ElementsIntact == TypeOK /\ SlotsMatchIndices /\ NoSlotRace

(***************************************************************************)
(* The queue is an atomic bounded FIFO: push takes effect at the store of  *)
(* tail_, pop at the store of head_, and false is answered at the load of  *)
(* the other side's index.  A stale load may answer false early.           *)
(***************************************************************************)
Contents ==
  [k \in 1 .. Size |-> IF k = 1 /\ cpc = "release" THEN out
                       ELSE slots_[Slot(Plus(head_, k - 1))]]

Fifo == INSTANCE BoundedFifo WITH
          queue <- IF alive THEN Contents ELSE <<>>, mayFailEarly <- stale

ImplementsFifo == Fifo!Spec

(***************************************************************************)
(* Every published element is eventually taken, whatever the producer does *)
(* next: the consumer's cached tail cannot hide it for ever, nor does a    *)
(* throwing constructor wedge the ring.                                    *)
(***************************************************************************)
EveryElementTaken ==
  head_ # tail_ ~> (cpc = "release" \/ ~alive)

=============================================================================
