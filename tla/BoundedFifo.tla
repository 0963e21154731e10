---------------------------- MODULE BoundedFifo ----------------------------
(***************************************************************************)
(* What metl's single-producer rings promise: an atomic FIFO of at most    *)
(* Capacity elements.  A push answers false only at an instant at which    *)
(* the queue is full, a pop answers false only at one at which it is       *)
(* empty -- unless the machine may serve a stale load (mayFailEarly).      *)
(***************************************************************************)
EXTENDS Naturals, Sequences

CONSTANTS Capacity, Values, NoValue

VARIABLES queue,      \* the elements, oldest first
          pushed,     \* what the last push returned
          popped,     \* what the last pop returned: a value, or NoValue for false
          mayFailEarly   \* may a push or pop answer false on stale knowledge?

vars == <<queue, pushed, popped, mayFailEarly>>

Init == queue = <<>> /\ pushed = TRUE /\ popped = NoValue /\ mayFailEarly \in BOOLEAN

Push(v) ==
  /\ Len(queue) < Capacity
  /\ queue' = Append(queue, v)
  /\ pushed' = TRUE
  /\ UNCHANGED popped

PushFull ==
  /\ Len(queue) = Capacity \/ mayFailEarly
  /\ pushed' = FALSE
  /\ UNCHANGED <<queue, popped>>

Pop ==
  /\ queue # <<>>
  /\ queue' = Tail(queue)
  /\ popped' = Head(queue)
  /\ UNCHANGED pushed

PopEmpty ==
  /\ queue = <<>> \/ mayFailEarly
  /\ popped' = NoValue
  /\ UNCHANGED <<queue, pushed>>

\* The destructor: whatever is left goes with the queue.
Drain == queue' = <<>> /\ UNCHANGED <<pushed, popped>>

Next ==
  /\ (\E v \in Values : Push(v)) \/ PushFull \/ Pop \/ PopEmpty \/ Drain
  /\ UNCHANGED mayFailEarly

Spec == Init /\ [][Next]_vars

=============================================================================
