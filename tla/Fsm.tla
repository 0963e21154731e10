--------------------------------- MODULE Fsm ---------------------------------
(***************************************************************************)
(* metl::fsm (fsm.hpp).  A transition action or an entry hook may dispatch *)
(* on the machine that runs it, and an action may throw; the dispatches in *)
(* progress form a stack.                                                  *)
(***************************************************************************)
EXTENDS Integers, Sequences

CONSTANTS
  States, Events,
  Transitions,     \* the rule table: a sequence of [from, event, to]
  initial_state,
  NoState,
  MaxDepth         \* bound on nested dispatches

VARIABLES
  current_state_, entered_, exiting_,
  stack,       \* the dispatches in progress, innermost last
  hooked,      \* ghost: the state whose entry has been answered by no exit yet
  paired,      \* ghost: every hook so far has answered the one before it
  thrown       \* ghost: an action threw and no state has been entered since

vars == <<current_state_, entered_, exiting_, stack, hooked, paired, thrown>>

\* The machine starts inside its initial state.
Init ==
  /\ current_state_ = initial_state /\ entered_ = TRUE /\ exiting_ = FALSE
  /\ stack = <<>> /\ hooked = initial_state /\ paired = TRUE /\ thrown = FALSE

Top == stack[Len(stack)]
Below == SubSeq(stack, 1, Len(stack) - 1)

UserRuns == stack # <<>> => Top.pc \in {"action", "entry"}
At(pc) == stack # <<>> /\ Top.pc = pc
SetTop(frame) == stack' = Append(Below, frame)

\* The first rule that matches.
find_transition(state, event) ==
  {i \in DOMAIN Transitions :
     /\ Transitions[i].from = state /\ Transitions[i].event = event
     /\ \A j \in 1 .. i - 1 : Transitions[j].from # state \/ Transitions[j].event # event}

RunsExitHook == entered_

-----------------------------------------------------------------------------
\* Without a match dispatch changes nothing.  It asserts that no exit hook runs.
dispatch(event) ==
  /\ UserRuns /\ ~exiting_ /\ Len(stack) < MaxDepth
  /\ \E i \in find_transition(current_state_, event) :
       LET next == Transitions[i].to
       IN  IF RunsExitHook
           THEN /\ exiting_' = TRUE
                /\ stack' = Append(stack, [pc |-> "exit", next |-> next])
                /\ hooked' = NoState /\ paired' = (paired /\ hooked = current_state_)
                /\ UNCHANGED <<current_state_, entered_, thrown>>
           ELSE /\ current_state_' = next /\ entered_' = FALSE
                /\ stack' = Append(stack, [pc |-> "action", next |-> next])
                /\ UNCHANGED <<exiting_, hooked, paired, thrown>>

\* The new state is committed before the action runs.
ExitHookReturns ==
  /\ At("exit")
  /\ exiting_' = FALSE /\ current_state_' = Top.next /\ entered_' = FALSE
  /\ SetTop([Top EXCEPT !.pc = "action"])
  /\ UNCHANGED <<hooked, paired, thrown>>

\* Fault: a nested dispatch leaves the entry to the outermost one.
RunsEntryHook_Outermost == ~entered_ /\ current_state_ = Top.next /\ Len(stack) = 1

RunsEntryHook == ~entered_ /\ current_state_ = Top.next

ActionReturns ==
  /\ At("action")
  /\ IF RunsEntryHook
     THEN /\ entered_' = TRUE /\ SetTop([Top EXCEPT !.pc = "entry"])
          /\ hooked' = Top.next /\ paired' = (paired /\ hooked = NoState)
          /\ thrown' = FALSE
     ELSE stack' = Below /\ UNCHANGED <<entered_, hooked, paired, thrown>>
  /\ UNCHANGED <<current_state_, exiting_>>

\* The exception goes to the user code that called dispatch.
ActionThrows ==
  /\ At("action")
  /\ stack' = Below /\ thrown' = TRUE
  /\ UNCHANGED <<current_state_, entered_, exiting_, hooked, paired>>

EntryHookReturns ==
  /\ At("entry")
  /\ stack' = Below
  /\ UNCHANGED <<current_state_, entered_, exiting_, hooked, paired, thrown>>

Next ==
  \/ \E event \in Events : dispatch(event)
  \/ ExitHookReturns \/ ActionReturns \/ ActionThrows \/ EntryHookReturns

Spec == Init /\ [][Next]_vars

-----------------------------------------------------------------------------
TypeOK ==
  /\ current_state_ \in States /\ entered_ \in BOOLEAN /\ exiting_ \in BOOLEAN
  /\ stack \in Seq([pc : {"exit", "action", "entry"}, next : States])
  /\ hooked \in States \cup {NoState} /\ paired \in BOOLEAN /\ thrown \in BOOLEAN

(***************************************************************************)
(* Entry and exit hooks alternate, and an exit is always that of the state *)
(* last entered, however dispatches nest and whichever actions throw       *)
(* (fsm.hpp:111-122, 152-157, 182-184).                                    *)
(***************************************************************************)
HooksPaired == paired /\ (hooked = IF entered_ /\ ~exiting_ THEN current_state_ ELSE NoState)

(***************************************************************************)
(* Once every dispatch has returned the machine is inside its current      *)
(* state: that state's entry hook has run, unless an action threw before   *)
(* it could (fsm.hpp:105-106, 113-122).                                    *)
(***************************************************************************)
EnteredWhenIdle == stack = <<>> => entered_ \/ thrown

(***************************************************************************)
(* The state changes only along a rule of the table: the rule chosen when  *)
(* dispatch began still starts at the current state when it is committed,  *)
(* after the exit hook has run (fsm.hpp:103-107, 123-126, 142-146).        *)
(***************************************************************************)
AlongRule ==
  current_state_' # current_state_ =>
    \E i \in DOMAIN Transitions :
      Transitions[i].from = current_state_ /\ Transitions[i].to = current_state_'

StepsAlongRules == [][AlongRule]_vars

=============================================================================
