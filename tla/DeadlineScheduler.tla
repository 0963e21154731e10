-------------------------- MODULE DeadlineScheduler --------------------------
(***************************************************************************)
(* metl::coro::deadline_scheduler (coro/deadline_scheduler.hpp): polls the *)
(* entries whose deadline has come, earliest first, equal deadlines in     *)
(* scheduling order.  A poll is user code: it may schedule, cancel, clear  *)
(* and run a nested run_due, and answers the next deadline of its task or  *)
(* none.  The heap the entries sit in is FixedPriorityQueue's matter; here *)
(* queue_ lists the entries in scheduling order, so an entry's position    *)
(* stands for its 64-bit sequence number, which is only ever compared.     *)
(***************************************************************************)
EXTENDS Integers, Sequences, FiniteSets

CONSTANTS Tasks, Capacity,
          MaxTick,        \* bound on the clock
          MaxDispatches,  \* run_due's argument
          MaxDepth,       \* bound on run_due calls nested inside polls
          PastDeadlines   \* whether callers ask for deadlines already past

VARIABLES
  queue_,        \* pending entries [task, deadline] in scheduling order
  poll_depth_,
  stack,         \* running run_due calls, innermost last
  tick           \* the clock the callers read

vars == <<queue_, poll_depth_, stack, tick>>

Init == queue_ = <<>> /\ poll_depth_ = 0 /\ stack = <<>> /\ tick = 0

Ticks == 0 .. MaxTick + 1
Deadlines == {d \in Ticks : PastDeadlines \/ d >= tick}

Top == stack[Len(stack)]
Below == SubSeq(stack, 1, Len(stack) - 1)

\* A frame of run_due: dispatches left, and inside a poll the task polled.
Loop(now, left) == [now |-> now, left |-> left, polling |-> FALSE, task |-> "none"]
InPoll(frame, t) == [frame EXCEPT !.polling = TRUE, !.task = t]

UserRuns == stack # <<>> => Top.polling

\* Fault: one slot is held back however many polls are on the stack.
reserved_Flag == IF poll_depth_ > 0 THEN 1 ELSE 0

reserved == poll_depth_

-----------------------------------------------------------------------------
Entry(t, d) == [task |-> t, deadline |-> d]

\* try_schedule; schedule aborts where this answers false.
try_schedule(t, d) ==
  /\ UserRuns
  /\ Len(queue_) + reserved < Capacity
  /\ queue_' = Append(queue_, Entry(t, d))
  /\ UNCHANGED <<poll_depth_, stack, tick>>

try_schedule_fails ==
  /\ UserRuns
  /\ Len(queue_) + reserved >= Capacity
  /\ UNCHANGED vars

\* cancel removes every entry of a task; the others keep their order.
Others(t) == {i \in 1 .. Len(queue_) : queue_[i].task # t}

cancel(t) ==
  /\ UserRuns
  /\ \E kept \in [1 .. Cardinality(Others(t)) -> Others(t)] :
       /\ \A j, k \in DOMAIN kept : j < k => kept[j] < kept[k]
       /\ queue_' = [k \in DOMAIN kept |-> queue_[kept[k]]]
  /\ UNCHANGED <<poll_depth_, stack, tick>>

clear ==
  /\ UserRuns
  /\ queue_' = <<>>
  /\ UNCHANGED <<poll_depth_, stack, tick>>

-----------------------------------------------------------------------------
\* Fault: equal deadlines come out newest first.
IsTop_NewestFirst(i) ==
  \A j \in 1 .. Len(queue_) :
    /\ queue_[i].deadline <= queue_[j].deadline
    /\ j > i => queue_[i].deadline < queue_[j].deadline

\* The position of queue_.top(): later_deadline orders by deadline, then by
\* sequence.
IsTop(i) ==
  \A j \in 1 .. Len(queue_) :
    /\ queue_[i].deadline <= queue_[j].deadline
    /\ j < i => queue_[i].deadline < queue_[j].deadline

Without(i) == SubSeq(queue_, 1, i - 1) \o SubSeq(queue_, i + 1, Len(queue_))

run_due ==
  /\ UserRuns /\ Len(stack) < MaxDepth
  /\ stack' = Append(stack, Loop(tick, MaxDispatches))
  /\ UNCHANGED <<queue_, poll_depth_, tick>>

InLoop == stack # <<>> /\ ~Top.polling
SomethingDue ==
  \E i \in 1 .. Len(queue_) : IsTop(i) /\ queue_[i].deadline <= Top.now

\* One turn of the loop, up to the call of the poll.
Dispatch ==
  /\ InLoop /\ Top.left > 0
  /\ \E i \in 1 .. Len(queue_) :
       /\ IsTop(i) /\ queue_[i].deadline <= Top.now
       /\ queue_' = Without(i)
       /\ stack' = Append(Below, InPoll(Loop(Top.now, Top.left - 1), queue_[i].task))
  /\ poll_depth_' = poll_depth_ + 1
  /\ UNCHANGED tick

\* The poll returns: a deadline is pushed again, nullopt is not.
PollReturns ==
  /\ stack # <<>> /\ Top.polling
  /\ poll_depth_' = poll_depth_ - 1
  /\ stack' = Append(Below, Loop(Top.now, Top.left))
  /\ \/ UNCHANGED queue_
     \/ \E d \in Deadlines : queue_' = Append(queue_, Entry(Top.task, d))
  /\ UNCHANGED tick

run_due_returns ==
  /\ InLoop /\ (Top.left = 0 \/ ~SomethingDue)
  /\ stack' = Below
  /\ UNCHANGED <<queue_, poll_depth_, tick>>

\* Time passes, inside a poll too.
Tick ==
  /\ tick < MaxTick
  /\ tick' = tick + 1
  /\ UNCHANGED <<queue_, poll_depth_, stack>>

Next ==
  \/ \E t \in Tasks : (\E d \in Deadlines : try_schedule(t, d)) \/ cancel(t)
  \/ try_schedule_fails \/ clear
  \/ run_due \/ Dispatch \/ PollReturns \/ run_due_returns \/ Tick

Spec == Init /\ [][Next]_vars

(***************************************************************************)
(* The main program keeps calling run_due and reading an advancing clock;  *)
(* polls return.                                                           *)
(***************************************************************************)
FairSpec ==
  /\ Spec
  /\ WF_vars(run_due) /\ WF_vars(Dispatch \/ run_due_returns)
  /\ WF_vars(PollReturns) /\ WF_vars(Tick)

-----------------------------------------------------------------------------
Frames == {f \in [now : 0 .. MaxTick, left : 0 .. MaxDispatches, polling : BOOLEAN,
                  task : Tasks \cup {"none"}] : f.polling => f.task \in Tasks}

TypeOK ==
  /\ queue_ \in Seq([task : Tasks, deadline : Ticks])
  /\ stack \in Seq(Frames) /\ Len(stack) <= MaxDepth
  /\ poll_depth_ \in 0 .. MaxDepth
  /\ tick \in 0 .. MaxTick

(***************************************************************************)
(* Every poll on the stack, nested ones included, can still re-arm its     *)
(* task whatever the polls schedule, so the push after a poll never aborts *)
(* (coro/deadline_scheduler.hpp:158-160, 174-175, 205-209).                *)
(***************************************************************************)
PollsOnStack == {f \in 1 .. Len(stack) : stack[f].polling}

RearmFits == Len(queue_) + Cardinality(PollsOnStack) <= Capacity

(***************************************************************************)
(* No starvation: while deadlines asked for are not in the past, a due     *)
(* task is polled or cancelled, whatever others re-arm at the current tick *)
(* (coro/deadline_scheduler.hpp:145-146, 193-196).                         *)
(***************************************************************************)
IsDue(t) == \E i \in 1 .. Len(queue_) : queue_[i].task = t /\ queue_[i].deadline <= tick
Polled(t) == \E f \in 1 .. Len(stack) : stack[f].polling /\ stack[f].task = t

DueTasksPolled == \A t \in Tasks : IsDue(t) ~> (Polled(t) \/ ~IsDue(t))

(***************************************************************************)
(* run_due ends even when every poll re-arms at once                       *)
(* (coro/deadline_scheduler.hpp:51-54, 148-151).                           *)
(***************************************************************************)
RunDueEnds == (stack # <<>>) ~> (stack = <<>>)

=============================================================================
