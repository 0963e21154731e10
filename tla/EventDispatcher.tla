--------------------------- MODULE EventDispatcher ---------------------------
(***************************************************************************)
(* metl::event_dispatcher (event_dispatcher.hpp).  A listener may          *)
(* subscribe, unsubscribe, clear and dispatch on the dispatcher that calls *)
(* it, and may throw; the dispatches in progress form a stack.             *)
(***************************************************************************)
EXTENDS Integers, Sequences

CONSTANTS
  Capacity,
  MaxId,       \* bound on the subscriptions ever made, far below 2^64
  MaxDepth     \* bound on nested dispatches

VARIABLES
  slots_,      \* [index -> id], 0 when the slot is free
  next_id_,
  stack,       \* the dispatches in progress, innermost last
  issued       \* ghost: the ids handed out

vars == <<slots_, next_id_, stack, issued>>

Indices == 0 .. Capacity - 1
Subscribed == {slots_[i] : i \in Indices} \ {0}

Init ==
  /\ slots_ = [i \in Indices |-> 0] /\ next_id_ = 1
  /\ stack = <<>> /\ issued = {}

Top == stack[Len(stack)]
Below == SubSeq(stack, 1, Len(stack) - 1)

UserRuns == stack # <<>> => Top.pc = "listener"
InLoop == stack # <<>> /\ Top.pc = "loop"
SetTop(frame) == stack' = Append(Below, frame)

-----------------------------------------------------------------------------
\* A full dispatcher, or an empty listener, changes nothing.
try_subscribe ==
  /\ UserRuns /\ next_id_ < MaxId
  /\ \E i \in Indices :
       /\ slots_[i] = 0 /\ \A j \in Indices : slots_[j] = 0 => i <= j
       /\ slots_' = [slots_ EXCEPT ![i] = next_id_]
  /\ next_id_' = next_id_ + 1
  /\ issued' = issued \cup {next_id_}
  /\ UNCHANGED stack

unsubscribe(id) ==
  /\ UserRuns /\ id # 0
  /\ \E i \in Indices : slots_[i] = id /\ slots_' = [slots_ EXCEPT ![i] = 0]
  /\ UNCHANGED <<next_id_, stack, issued>>

clear ==
  /\ UserRuns /\ slots_' = [i \in Indices |-> 0] /\ UNCHANGED <<next_id_, stack, issued>>

\* due and called are ghosts: the listeners there at the start, those called.
dispatch ==
  /\ UserRuns /\ Len(stack) < MaxDepth
  /\ stack' = Append(stack, [pc |-> "loop", i |-> 0, first_unheard |-> next_id_,
                             due |-> Subscribed, called |-> <<>>])
  /\ UNCHANGED <<slots_, next_id_, issued>>

\* Fault: whoever is subscribed when the turn comes is called.
Hears_Anyone(frame, id) == id # 0

Hears(frame, id) == id # 0 /\ id < frame.first_unheard

LoopStep ==
  /\ InLoop /\ Top.i < Capacity
  /\ LET id == slots_[Top.i]
     IN  SetTop(IF Hears(Top, id)
                THEN [Top EXCEPT !.pc = "listener", !.called = Append(@, id)]
                ELSE [Top EXCEPT !.i = @ + 1])
  /\ UNCHANGED <<slots_, next_id_, issued>>

ListenerReturns ==
  /\ stack # <<>> /\ Top.pc = "listener"
  /\ SetTop([Top EXCEPT !.pc = "loop", !.i = @ + 1])
  /\ UNCHANGED <<slots_, next_id_, issued>>

\* The exception leaves dispatch, into the listener that called it, if any.
ListenerThrows ==
  /\ stack # <<>> /\ Top.pc = "listener"
  /\ stack' = Below /\ UNCHANGED <<slots_, next_id_, issued>>

DispatchReturns ==
  /\ InLoop /\ Top.i = Capacity
  /\ stack' = Below /\ UNCHANGED <<slots_, next_id_, issued>>

Next ==
  \/ try_subscribe \/ \E id \in 0 .. MaxId : unsubscribe(id)
  \/ clear \/ dispatch
  \/ LoopStep \/ ListenerReturns \/ ListenerThrows \/ DispatchReturns

Spec == Init /\ [][Next]_vars

-----------------------------------------------------------------------------
Ids == 1 .. MaxId
Frames == [pc : {"loop", "listener"}, i : 0 .. Capacity, first_unheard : Ids,
           due : SUBSET Ids, called : Seq(Ids)]

TypeOK ==
  /\ slots_ \in [Indices -> 0 .. MaxId] /\ next_id_ \in Ids /\ issued \subseteq Ids
  /\ stack \in Seq(Frames)

Called(f) == {f.called[n] : n \in 1 .. Len(f.called)}

(***************************************************************************)
(* Whatever the listeners subscribe, remove or dispatch, at any depth, an  *)
(* event goes at most once to a listener, only to those subscribed when    *)
(* its dispatch began, and to every one of them that is still subscribed   *)
(* when its turn comes (event_dispatcher.hpp:152-159).                     *)
(***************************************************************************)
EventReachesItsListeners == \A k \in 1 .. Len(stack) :
  LET f == stack[k]
  IN  /\ Called(f) \subseteq f.due
      /\ \A m, n \in 1 .. Len(f.called) : f.called[m] = f.called[n] => m = n
      /\ \A j \in 0 .. f.i - 1 : slots_[j] \in f.due => slots_[j] \in Called(f)

(***************************************************************************)
(* An id that was issued and is no longer subscribed never names a         *)
(* listener again, so that a stale unsubscribe removes nothing             *)
(* (event_dispatcher.hpp:93-98, 106-125, 161-163).                         *)
(***************************************************************************)
NewIdsOnly == \A id \in issued \ Subscribed : id \notin Subscribed'

IdsNeverReused == [][NewIdsOnly]_vars

=============================================================================
