---------------------------- MODULE MCSchedulers -----------------------------
(***************************************************************************)
(* The cooperative schedulers and the idle loop below them, for TLC.  A    *)
(* behaviour is about one subject, the round-robin scheduler, the deadline *)
(* scheduler or a core that waits for events; the others stay as built.    *)
(***************************************************************************)
EXTENDS Scheduler, TLC

CONSTANTS DueCapacity, DueDepth,   \* the deadline scheduler's Capacity and MaxDepth
          MaxTick, MaxDispatches, PastDeadlines

VARIABLES
  subject,
  queue_, poll_depth_, due_stack, tick,     \* of DeadlineScheduler
  \* Of the idle loop.
  hints,      \* METL_DETAIL_ARM_HINTS
  ready,      \* what the waiting core looks at
  event,      \* its event register
  waiter,     \* "check", "wait", "asleep" or "take"
  sender      \* "work" or "signal"

due == <<queue_, poll_depth_, due_stack, tick>>
idle == <<hints, ready, event, waiter, sender>>
all == <<subject, vars, due, idle>>

Due == INSTANCE DeadlineScheduler WITH
         Capacity <- DueCapacity, MaxDepth <- DueDepth, stack <- due_stack

-----------------------------------------------------------------------------
(***************************************************************************)
(* metl::wait_for_event and metl::send_event (wait.hpp) in the loop their  *)
(* documentation gives: a core waits until something is ready, an          *)
(* interrupt handler or another core makes it so and then signals.  The    *)
(* event register is sticky; WFE clears it, or stops the core until it is  *)
(* set, or returns for no reason.  Without the instructions both calls are *)
(* hints.                                                                  *)
(***************************************************************************)
IdleInit ==
  /\ hints \in BOOLEAN
  /\ ready = FALSE /\ event \in BOOLEAN
  /\ waiter = "check" /\ sender = "work"

\* while (!ready())
Check ==
  /\ waiter = "check"
  /\ waiter' = IF ready THEN "take" ELSE "wait"
  /\ UNCHANGED <<hints, ready, event, sender>>

\* Fault: an event that came before the call does not count.
wait_for_event_Forgets ==
  /\ waiter = "wait"
  /\ IF hints THEN event' = FALSE /\ waiter' = "asleep"
     ELSE UNCHANGED event /\ waiter' = "check"
  /\ UNCHANGED <<hints, ready, sender>>

wait_for_event ==
  /\ waiter = "wait"
  /\ IF hints
     THEN event' = FALSE /\ waiter' = IF event THEN "check" ELSE "asleep"
     ELSE UNCHANGED event /\ waiter' = "check"       \* cpu_relax
  /\ UNCHANGED <<hints, ready, sender>>

\* The core wakes when the register is set; it may do so at any time.
Wake(spurious) ==
  /\ waiter = "asleep" /\ (event \/ spurious)
  /\ event' = FALSE /\ waiter' = "check"
  /\ UNCHANGED <<hints, ready, sender>>

Take ==
  /\ waiter = "take"
  /\ ready' = FALSE /\ waiter' = "check"
  /\ UNCHANGED <<hints, event, sender>>

MakeReady ==
  /\ sender = "work" /\ ready' = TRUE /\ sender' = "signal"
  /\ UNCHANGED <<hints, event, waiter>>

send_event ==
  /\ sender = "signal" /\ sender' = "work"
  /\ event' = (hints \/ event)
  /\ UNCHANGED <<hints, ready, waiter>>

IdleNext ==
  \/ Check \/ wait_for_event \/ Wake(FALSE) \/ Wake(TRUE) \/ Take
  \/ MakeReady \/ send_event

\* The waiting core runs while it is awake and wakes on an event; neither a
\* spurious wake nor new work is promised.
WaiterRuns == Check \/ wait_for_event \/ Wake(FALSE) \/ Take

IdleTypeOK ==
  /\ hints \in BOOLEAN /\ ready \in BOOLEAN /\ event \in BOOLEAN
  /\ waiter \in {"check", "wait", "asleep", "take"} /\ sender \in {"work", "signal"}

-----------------------------------------------------------------------------
SchedulersInit ==
  /\ subject \in {"rounds", "due", "idle"} /\ Init /\ Due!Init /\ IdleInit
  /\ subject = "idle" \/ ~(hints \/ event)

\* A step A of the one or the other.
OfRounds(A) == subject = "rounds" /\ A /\ UNCHANGED <<subject, due, idle>>
OfDue(A) == subject = "due" /\ A /\ UNCHANGED <<subject, vars, idle>>
OfIdle(A) == subject = "idle" /\ A /\ UNCHANGED <<subject, vars, due>>

SchedulersNext == OfRounds(Next) \/ OfDue(Due!Next) \/ OfIdle(IdleNext)

SchedulersSpec == SchedulersInit /\ [][SchedulersNext]_all

\* The fairness of each.
SchedulersFairSpec ==
  /\ SchedulersSpec
  /\ WF_all(OfRounds(RunOnce)) /\ WF_all(OfRounds(Skip \/ Poll \/ RoundEnds \/ LoopTurn))
  /\ WF_all(OfRounds(PollYields \/ PollCompletes))
  /\ WF_all(OfDue(Due!run_due)) /\ WF_all(OfDue(Due!Dispatch \/ Due!run_due_returns))
  /\ WF_all(OfDue(Due!PollReturns)) /\ WF_all(OfDue(Due!Tick))
  /\ WF_all(OfIdle(WaiterRuns)) /\ WF_all(OfIdle(send_event))

\* Tasks are interchangeable.
Symmetry == Permutations(Tasks)

-----------------------------------------------------------------------------
(***************************************************************************)
(* The state is well typed, and every poll on the deadline scheduler's     *)
(* stack can re-arm its task (coro/deadline_scheduler.hpp:158-160,         *)
(* 174-175, 205-209).                                                      *)
(***************************************************************************)
RearmFits == TypeOK /\ Due!TypeOK /\ IdleTypeOK /\ Due!RearmFits

(***************************************************************************)
(* A due task is polled or cancelled, while deadlines asked for are not in *)
(* the past, and run_due ends even when every poll re-arms at once         *)
(* (coro/deadline_scheduler.hpp:51-54, 145-151, 193-196).                  *)
(***************************************************************************)
DueServed == Due!DueTasksPolled /\ Due!RunDueEnds

(***************************************************************************)
(* A core that waits for an event in the documented loop always takes what *)
(* was made ready: no signal is lost between its check and its wait, with  *)
(* the event instructions or without (wait.hpp:119-134).                   *)
(***************************************************************************)
WakeupNotLost == ready ~> ~ready

=============================================================================
