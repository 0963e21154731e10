----------------------------- MODULE TicketFifo -----------------------------
(***************************************************************************)
(* What metl::mpmc_queue promises (mpmc_queue.hpp:51-82): a FIFO in the    *)
(* order in which slots were claimed.  An element is in the queue from the *)
(* moment its slot is claimed but can be taken only once it is ready.      *)
(*   - try_push answers false only when the queue is full or a consumer    *)
(*     has taken an element whose slot it has not handed back;             *)
(*   - try_pop answers false only when the queue is empty or its oldest    *)
(*     element is not ready, which later ready elements do not change.     *)
(***************************************************************************)
EXTENDS Naturals, Sequences

CONSTANTS Capacity, Values, Producers, Consumers, NoValue

VARIABLES queue,     \* [value, by, ready] records, oldest claim first;
                     \* by is the producer until the element is ready
          taking,    \* consumer -> the element it is moving out, or NoValue
          returned   \* <<thread, answer>> if the last step was a return, else <<>>

vars == <<queue, taking, returned>>

Init ==
  /\ queue = <<>>
  /\ taking = [c \in Consumers |-> NoValue]
  /\ returned = <<>>

Claim(p, v) ==
  /\ Len(queue) < Capacity
  /\ queue' = Append(queue, [value |-> v, by |-> p, ready |-> FALSE])
  /\ returned' = <<>>
  /\ UNCHANGED taking

\* The claimed element becomes ready and the push answers true.
Publish(p) ==
  \E k \in DOMAIN queue :
    /\ queue[k].by = p /\ ~queue[k].ready
    /\ queue' = [queue EXCEPT ![k].ready = TRUE, ![k].by = NoValue]
    /\ returned' = <<p, TRUE>>
    /\ UNCHANGED taking

PushFull(p) ==
  /\ Len(queue) = Capacity \/ \E c \in Consumers : taking[c] # NoValue
  /\ returned' = <<p, FALSE>>
  /\ UNCHANGED <<queue, taking>>

Take(c) ==
  /\ queue # <<>> /\ Head(queue).ready
  /\ taking' = [taking EXCEPT ![c] = Head(queue).value]
  /\ queue' = Tail(queue)
  /\ returned' = <<>>

\* The slot is handed back and the pop answers with the element.
HandBack(c) ==
  /\ taking[c] # NoValue
  /\ returned' = <<c, taking[c]>>
  /\ taking' = [taking EXCEPT ![c] = NoValue]
  /\ UNCHANGED queue

PopEmpty(c) ==
  /\ queue = <<>> \/ ~Head(queue).ready
  /\ returned' = <<c, NoValue>>
  /\ UNCHANGED <<queue, taking>>

Drain == queue' = <<>> /\ returned' = <<>> /\ UNCHANGED taking

\* A step inside a call: nothing a caller can see.
Internal == returned' = <<>> /\ UNCHANGED <<queue, taking>>

Next ==
  \/ \E p \in Producers : (\E v \in Values : Claim(p, v)) \/ Publish(p) \/ PushFull(p)
  \/ \E c \in Consumers : Take(c) \/ HandBack(c) \/ PopEmpty(c)
  \/ Drain \/ Internal

Spec == Init /\ [][Next]_vars

=============================================================================
