--------------------------- MODULE SequenceReentry ---------------------------
(***************************************************************************)
(* metl::fixed_vector (fixed_vector.hpp) and metl::fixed_deque             *)
(* (fixed_deque.hpp, detail/ring_core.hpp) when an element's constructor   *)
(* or destructor calls back into the container that holds it: a            *)
(* constructor may add, at either end of a deque, and a destructor may     *)
(* remove.  The calls in progress form a stack.  A vector's head_ stays 0. *)
(***************************************************************************)
EXTENDS Integers, Sequences, SequencesExt

CONSTANTS
  Capacity,
  MaxDepth    \* bound on nested calls by user code

VARIABLES
  type_,    \* "vector" or "deque"
  head_, size_,
  cells,    \* [slots -> {"raw", "building", "live", "dying"}]
  stack,    \* the constructors and destructors that run, innermost last
  halted    \* METL_HARDEN has stopped the program

vars == <<type_, head_, size_, cells, stack, halted>>

Slots == 0 .. Capacity - 1

Init ==
  /\ type_ \in {"vector", "deque"}
  /\ head_ = 0 /\ size_ = 0 /\ stack = <<>> /\ halted = FALSE
  /\ cells = [i \in Slots |-> "raw"]

physical_index(i) == (head_ + i) % Capacity
retreat == (head_ - 1) % Capacity

UserRuns(kinds) ==
  ~halted /\ Len(stack) < MaxDepth /\ (stack # <<>> => Last(stack).kind \in kinds)
InFrame(kind) == ~halted /\ stack # <<>> /\ Last(stack).kind = kind

\* A constructor's frame has what its scope_exit needs.
Build(kind, slot, head) ==
  Append(stack, [kind |-> kind, slot |-> slot, head |-> head, claimed |-> size_ + 1])
Frame(kind, slot) ==
  Append(stack, [kind |-> kind, slot |-> slot, head |-> 0, claimed |-> 0])

-----------------------------------------------------------------------------
Builders == {"back", "front"}

\* The slot is claimed, then T's constructor runs in it.
try_emplace_back ==
  /\ UserRuns(Builders) /\ size_ < Capacity
  /\ stack' = Build("back", physical_index(size_), head_)
  /\ size_' = size_ + 1
  /\ cells' = [cells EXCEPT ![physical_index(size_)] = "building"]
  /\ UNCHANGED <<type_, head_, halted>>

try_emplace_front ==
  /\ type_ = "deque" /\ UserRuns(Builders) /\ size_ < Capacity
  /\ stack' = Build("front", retreat, head_)
  /\ head_' = retreat /\ size_' = size_ + 1
  /\ cells' = [cells EXCEPT ![retreat] = "building"]
  /\ UNCHANGED <<type_, halted>>

ConstructorReturns ==
  /\ \E kind \in Builders : InFrame(kind)
  /\ cells' = [cells EXCEPT ![Last(stack).slot] = "live"]
  /\ stack' = Front(stack)
  /\ UNCHANGED <<type_, head_, size_, halted>>

\* Fault: METL_HARDEN is left out of the scope_exit.
Undoable_Always(f) == TRUE

\* The condition under which a claim can be given back.
Undoable(f) == size_ = f.claimed /\ (f.kind = "front" => head_ = f.slot)

ConstructorThrows ==
  /\ \E kind \in Builders : InFrame(kind)
  /\ LET f == Last(stack)
     IN  IF Undoable(f)
         THEN /\ size_' = size_ - 1
              /\ head_' = IF f.kind = "front" THEN f.head ELSE head_
              /\ cells' = [cells EXCEPT ![f.slot] = "raw"]
              /\ stack' = Front(stack) /\ UNCHANGED halted
         ELSE halted' = TRUE /\ UNCHANGED <<head_, size_, cells, stack>>
  /\ UNCHANGED type_

\* The container shrinks, then the destructor runs.
RemoveFront ==
  /\ size_ > 0 /\ stack' = Frame("destroy", head_)
  /\ head_' = (head_ + 1) % Capacity /\ size_' = size_ - 1
  /\ cells' = [cells EXCEPT ![head_] = "dying"]
  /\ UNCHANGED <<type_, halted>>

RemoveBack ==
  /\ size_ > 0 /\ stack' = Frame("destroy", physical_index(size_ - 1))
  /\ size_' = size_ - 1
  /\ cells' = [cells EXCEPT ![physical_index(size_ - 1)] = "dying"]
  /\ UNCHANGED <<type_, head_, halted>>

pop_front == type_ = "deque" /\ UserRuns({"destroy"}) /\ RemoveFront
pop_back == UserRuns({"destroy"}) /\ RemoveBack

\* clear pops while there are elements: a vector's from the back, a deque's
\* from the front.
clear ==
  /\ UserRuns({"destroy"})
  /\ stack' = Frame("clear", 0) /\ UNCHANGED <<type_, head_, size_, cells, halted>>

ClearPops == InFrame("clear") /\ IF type_ = "vector" THEN RemoveBack ELSE RemoveFront

ClearReturns ==
  /\ InFrame("clear") /\ size_ = 0
  /\ stack' = Front(stack)
  /\ UNCHANGED <<type_, head_, size_, cells, halted>>

DestructorReturns ==
  /\ InFrame("destroy")
  /\ cells' = [cells EXCEPT ![Last(stack).slot] = "raw"]
  /\ stack' = Front(stack)
  /\ UNCHANGED <<type_, head_, size_, halted>>

Stopped == halted /\ UNCHANGED vars

Next ==
  \/ try_emplace_back \/ try_emplace_front \/ ConstructorReturns \/ ConstructorThrows
  \/ pop_front \/ pop_back \/ clear \/ ClearPops \/ ClearReturns \/ DestructorReturns
  \/ Stopped

Spec == Init /\ [][Next]_vars

-----------------------------------------------------------------------------
TypeOK ==
  /\ type_ \in {"vector", "deque"} /\ (type_ = "vector" => head_ = 0)
  /\ head_ \in Slots /\ size_ \in 0 .. Capacity
  /\ cells \in [Slots -> {"raw", "building", "live", "dying"}]
  /\ Len(stack) <= MaxDepth + 1
  /\ \A k \in 1 .. Len(stack) : stack[k].kind \in Builders \cup {"destroy", "clear"}
  /\ halted \in BOOLEAN

(***************************************************************************)
(* However calls nest, and whichever constructor throws, every running     *)
(* constructor and destructor has a slot of its own, and every other slot  *)
(* is live inside the container and raw outside it; a claim that cannot be *)
(* undone stops the program (fixed_vector.hpp:319-325, 377-382;            *)
(* detail/ring_core.hpp:315-326, 369-374; fixed_deque.hpp:87-103).         *)
(***************************************************************************)
EachSlotOnce ==
  LET busy == {k \in 1 .. Len(stack) : stack[k].kind # "clear"}
      held == {physical_index(i) : i \in 0 .. size_ - 1}
  IN  /\ \A j, k \in busy : j # k => stack[j].slot # stack[k].slot
      /\ \A k \in busy : IF stack[k].kind = "destroy"
           THEN cells[stack[k].slot] = "dying" /\ stack[k].slot \notin held
           ELSE cells[stack[k].slot] = "building" /\ stack[k].slot \in held
      /\ \A i \in Slots \ {stack[k].slot : k \in busy} :
           cells[i] = IF i \in held THEN "live" ELSE "raw"

=============================================================================
