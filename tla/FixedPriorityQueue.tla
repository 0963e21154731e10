------------------------- MODULE FixedPriorityQueue --------------------------
(***************************************************************************)
(* metl::fixed_priority_queue (fixed_priority_queue.hpp): a binary heap in *)
(* an inline array, with a comparator that travels with the elements.      *)
(* Elements are their keys.  A user's comparator or move may throw in any  *)
(* step that reorders the heap.  Indices are the source's, from 0.         *)
(***************************************************************************)
EXTENDS Integers, FiniteSetsExt, SequencesExt

CONSTANTS Queues, Keys, Capacity

VARIABLES
  storage_,   \* [Queues -> Seq(Keys)], the heap arrays
  comp_       \* [Queues -> {"less", "greater"}]

vars == <<storage_, comp_>>

Init == storage_ = [q \in Queues |-> <<>>] /\ comp_ \in [Queues -> {"less", "greater"}]

-----------------------------------------------------------------------------
At(s, index) == s[index + 1]
comp(o, a, b) == IF o = "less" THEN a < b ELSE b < a
swap_slots(s, a, b) == [s EXCEPT ![a + 1] = At(s, b), ![b + 1] = At(s, a)]

RECURSIVE sift_up(_, _, _)
sift_up(o, s, index) ==
  LET parent == (index - 1) \div 2
  IN  IF index > 0 /\ comp(o, At(s, parent), At(s, index))
      THEN sift_up(o, swap_slots(s, parent, index), parent)
      ELSE s

\* Fault: the right child is never looked at.
best_child_Left(o, s, index) == 2 * index + 1

\* The child that outranks the other.
best_child(o, s, index) ==
  LET left == 2 * index + 1
      right == left + 1
  IN  IF right < Len(s) /\ comp(o, At(s, left), At(s, right)) THEN right ELSE left

RECURSIVE sift_down(_, _, _)
sift_down(o, s, index) ==
  LET best == best_child(o, s, index)
  IN  IF 2 * index + 1 < Len(s) /\ comp(o, At(s, index), At(s, best))
      THEN sift_down(o, swap_slots(s, index, best), best)
      ELSE s

\* Every internal node, deepest first.
heapify(o, s) ==
  FoldLeft(LAMBDA acc, i : sift_down(o, acc, Len(s) \div 2 - i), s,
           [i \in 1 .. Len(s) \div 2 |-> i])

-----------------------------------------------------------------------------
\* try_emplace and emplace, which abort where this is disabled.
try_emplace(q, k) ==
  /\ Len(storage_[q]) < Capacity
  /\ storage_' = [storage_ EXCEPT ![q] = sift_up(comp_[q], Append(@, k), Len(@))]
  /\ UNCHANGED comp_

\* Full: nothing changes.
try_emplace_full(q) ==
  /\ Len(storage_[q]) = Capacity
  /\ UNCHANGED vars

pop(q) ==
  /\ storage_[q] # <<>>
  /\ storage_' = [storage_ EXCEPT ![q] =
       IF Len(@) = 1 THEN <<>>
       ELSE sift_down(comp_[q], <<Last(@)>> \o SubSeq(@, 2, Len(@) - 1), 0)]
  /\ UNCHANGED comp_

\* The predicate is any set of keys.
erase_if(q, victims) ==
  /\ storage_' = [storage_ EXCEPT ![q] =
       heapify(comp_[q], SelectSeq(@, LAMBDA k : k \notin victims))]
  /\ UNCHANGED comp_

clear(q) ==
  /\ storage_' = [storage_ EXCEPT ![q] = <<>>]
  /\ UNCHANGED comp_

\* A push, pop or erase_if whose comparator, move or predicate throws.  A
\* push onto an empty queue and a pop of the last element call none.
keep_heap_or_clear(q) ==
  /\ storage_[q] # <<>>
  /\ storage_' = [storage_ EXCEPT ![q] = <<>>]
  /\ UNCHANGED comp_

swap(q, r) ==
  /\ storage_' = [storage_ EXCEPT ![q] = storage_[r], ![r] = storage_[q]]
  /\ comp_' = [comp_ EXCEPT ![q] = comp_[r], ![r] = comp_[q]]

\* The comparators' swap throws, or the elements' swap after it.
swap_throws(q, r) ==
  /\ q # r
  /\ storage_' = [storage_ EXCEPT ![q] = <<>>, ![r] = <<>>]
  /\ \/ UNCHANGED comp_
     \/ comp_' = [comp_ EXCEPT ![q] = comp_[r], ![r] = comp_[q]]

Next ==
  \/ \E q \in Queues : \/ \E k \in Keys : try_emplace(q, k)
                       \/ \E victims \in SUBSET Keys : erase_if(q, victims)
                       \/ try_emplace_full(q) \/ pop(q) \/ clear(q) \/ keep_heap_or_clear(q)
  \/ \E q, r \in Queues : swap(q, r) \/ swap_throws(q, r)

Spec == Init /\ [][Next]_vars

-----------------------------------------------------------------------------
TypeOK ==
  /\ storage_ \in [Queues -> UNION {[1 .. n -> Keys] : n \in 0 .. Capacity}]
  /\ comp_ \in [Queues -> {"less", "greater"}]

-----------------------------------------------------------------------------
(***************************************************************************)
(* What fixed_priority_queue promises: each queue is a bounded bag of keys *)
(* whose greatest, in the queue's own order, leaves first.  A step that    *)
(* throws part-way leaves an empty queue.                                  *)
(***************************************************************************)

\* How often each key is in each queue.
content == [q \in Queues |-> [k \in Keys |->
              Cardinality({i \in 1 .. Len(storage_[q]) : storage_[q][i] = k})]]

Empty == [k \in Keys |-> 0]
Size(bag) == SumFunction(bag)
Greatest(q, k) ==
  /\ content[q][k] > 0
  /\ \A j \in Keys : content[q][j] > 0 => ~comp(comp_[q], k, j)

BagInit == content = [q \in Queues |-> Empty]

Push(q, k) ==
  /\ Size(content[q]) < Capacity
  /\ content' = [content EXCEPT ![q][k] = @ + 1]

Pop(q) == \E k \in Keys : Greatest(q, k) /\ content' = [content EXCEPT ![q][k] = @ - 1]

Erase(q, victims) ==
  content' = [content EXCEPT ![q] = [k \in Keys |-> IF k \in victims THEN 0 ELSE @[k]]]

Clear(some) == content' = [q \in Queues |-> IF q \in some THEN Empty ELSE content[q]]

OrdersSwapped(q, r) == comp_' = [comp_ EXCEPT ![q] = comp_[r], ![r] = comp_[q]]

Swap(q, r) ==
  /\ content' = [content EXCEPT ![q] = content[r], ![r] = content[q]]
  /\ OrdersSwapped(q, r)

\* A swap that throws clears both queues; the comparators may be swapped.
SwapThrows(q, r) ==
  /\ content' = [content EXCEPT ![q] = Empty, ![r] = Empty]
  /\ UNCHANGED comp_ \/ OrdersSwapped(q, r)

BagNext ==
  \/ /\ UNCHANGED comp_
     /\ \/ \E q \in Queues : (\E k \in Keys : Push(q, k)) \/ Pop(q)
        \/ \E q \in Queues, victims \in SUBSET Keys : Erase(q, victims)
        \/ \E some \in SUBSET Queues : Clear(some)
  \/ \E q, r \in Queues : Swap(q, r) \/ SwapThrows(q, r)

\* Each operation has its own effect on the bag, in its own order.
OwnEffect ==
  /\ \A q \in Queues : /\ pop(q) => Pop(q)
                       /\ \A k \in Keys : try_emplace(q, k) => Push(q, k)
                       /\ \A victims \in SUBSET Keys : erase_if(q, victims) => Erase(q, victims)
  /\ \A q, r \in Queues : swap(q, r) => Swap(q, r)

BagStep == [BagNext]_<<content, comp_>> /\ OwnEffect

=============================================================================
