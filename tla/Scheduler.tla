------------------------------ MODULE Scheduler ------------------------------
(***************************************************************************)
(* metl::coro::scheduler (coro/scheduler.hpp): a cooperative round-robin   *)
(* scheduler of at most Capacity tasks.  run_once polls a snapshot of the  *)
(* attached tasks; a poll is user code that may attach and detach tasks,   *)
(* itself included, and may run a nested round.  Entries are told apart by *)
(* attachment numbers drawn cyclically from a small range.                 *)
(*                                                                         *)
(* An entry of a snapshot carries gone: whether the attachment it was      *)
(* copied from has ended.  The program cannot see it.                      *)
(***************************************************************************)
EXTENDS Integers, Sequences

CONSTANTS Tasks, Capacity,
          MaxDepth,     \* bound on rounds and loops nested inside polls
          MaxRounds     \* run_until_idle's argument

ASSUME SchedulerAssumption ==
  /\ Capacity \in Nat /\ MaxDepth \in Nat /\ MaxRounds \in Nat

\* Fault: fewer numbers than the entries of tasks_ and one snapshot can hold.
attachment_numbers_TooFew == 2 * Capacity - 1

attachment_numbers == 2 * Capacity + 1
Numbers == 0 .. attachment_numbers - 1

VARIABLES
  tasks_,             \* the attached entries [task, attachment]
  next_attachment_,
  stack               \* running rounds and run_until_idle loops, innermost last

vars == <<tasks_, next_attachment_, stack>>

Init == tasks_ = <<>> /\ next_attachment_ = 0 /\ stack = <<>>

is_attached(t) == \E i \in 1 .. Len(tasks_) : tasks_[i].task = t
holds(n) == \E i \in 1 .. Len(tasks_) : tasks_[i].attachment = n
\* Fault: the snapshots of running rounds are not asked.
in_use_OnlyAttached(n) == holds(n)

in_use(n) ==
  \/ holds(n)
  \/ \E f \in 1 .. Len(stack) : \E k \in 1 .. Len(stack[f].entries) :
       stack[f].entries[k].attachment = n

\* A frame of run_once is between two polls or inside one; a frame of
\* run_until_idle has no entries.
Round(entries, i, polling) ==
  [kind |-> "round", entries |-> entries, i |-> i, polling |-> polling, left |-> 0]
Loop(left) ==
  [kind |-> "loop", entries |-> <<>>, i |-> 0, polling |-> FALSE, left |-> left]

Top == stack[Len(stack)]
Below == SubSeq(stack, 1, Len(stack) - 1)
ReplaceTop(frame) == Append(Below, frame)

\* User code runs: the main program, or the innermost poll.
UserRuns == stack # <<>> => Top.polling
MayNest == UserRuns /\ Len(stack) < MaxDepth

\* s with every copy of attachment n marked as ended.
Ended(s, n) ==
  [f \in DOMAIN s |->
     [s[f] EXCEPT !.entries =
        [k \in DOMAIN @ |-> IF @[k].attachment = n THEN [@[k] EXCEPT !.gone = TRUE] ELSE @[k]]]]

-----------------------------------------------------------------------------
Candidate(k) == (next_attachment_ + k) % attachment_numbers

\* try_attach and its variants.  A task that is attached is a broken
\* precondition and aborts; full, or out of numbers, answers false.
Attach(t) ==
  /\ UserRuns /\ ~is_attached(t)
  /\ Len(tasks_) < Capacity
  /\ \E k \in 0 .. attachment_numbers - 1 :
       /\ ~in_use(Candidate(k))
       /\ \A j \in 0 .. k - 1 : in_use(Candidate(j))
       /\ tasks_' = Append(tasks_, [task |-> t, attachment |-> Candidate(k)])
       /\ next_attachment_' = Candidate(k + 1)
  /\ UNCHANGED stack

AttachFails(t) ==
  /\ UserRuns /\ ~is_attached(t)
  /\ Len(tasks_) = Capacity \/ \A n \in Numbers : in_use(n)
  /\ UNCHANGED vars

\* The entry at i leaves tasks_.
Without(s, i) == SubSeq(s, 1, i - 1) \o SubSeq(s, i + 1, Len(s))
Erase(i) ==
  /\ tasks_' = Without(tasks_, i)
  /\ UNCHANGED next_attachment_

\* detach of the first entry of a task.
Detach(t) ==
  /\ UserRuns
  /\ \E i \in 1 .. Len(tasks_) :
       /\ tasks_[i].task = t /\ \A j \in 1 .. i - 1 : tasks_[j].task # t
       /\ Erase(i)
       /\ stack' = Ended(stack, tasks_[i].attachment)

-----------------------------------------------------------------------------
Snapshot == [i \in DOMAIN tasks_ |->
  [task |-> tasks_[i].task, attachment |-> tasks_[i].attachment, gone |-> FALSE]]

\* run_once up to its loop.
RunOnce ==
  /\ MayNest
  /\ stack' = Append(stack, Round(Snapshot, 1, FALSE))
  /\ UNCHANGED <<tasks_, next_attachment_>>

InRound == stack # <<>> /\ Top.kind = "round" /\ ~Top.polling

\* The entry's attachment has ended: skipped.
Skip ==
  /\ InRound /\ Top.i <= Len(Top.entries)
  /\ ~holds(Top.entries[Top.i].attachment)
  /\ stack' = ReplaceTop(Round(Top.entries, Top.i + 1, FALSE))
  /\ UNCHANGED <<tasks_, next_attachment_>>

Poll ==
  /\ InRound /\ Top.i <= Len(Top.entries)
  /\ holds(Top.entries[Top.i].attachment)
  /\ stack' = ReplaceTop(Round(Top.entries, Top.i, TRUE))
  /\ UNCHANGED <<tasks_, next_attachment_>>

\* Fault: the round does not move on to the next entry.
PollYields_SameEntry ==
  /\ stack # <<>> /\ Top.polling
  /\ stack' = ReplaceTop(Round(Top.entries, Top.i, FALSE))
  /\ UNCHANGED <<tasks_, next_attachment_>>

\* The poll returns true: the task wants to run again.
PollYields ==
  /\ stack # <<>> /\ Top.polling
  /\ stack' = ReplaceTop(Round(Top.entries, Top.i + 1, FALSE))
  /\ UNCHANGED <<tasks_, next_attachment_>>

\* The poll returns false: remove its attachment, if it is still there.
PollCompletes ==
  /\ stack # <<>> /\ Top.polling
  /\ LET n == Top.entries[Top.i].attachment
         next == ReplaceTop(Round(Top.entries, Top.i + 1, FALSE))
     IN  \/ \E i \in 1 .. Len(tasks_) :
              /\ tasks_[i].attachment = n /\ \A j \in 1 .. i - 1 : tasks_[j].attachment # n
              /\ Erase(i)
              /\ stack' = Ended(next, n)
         \/ ~holds(n) /\ stack' = next /\ UNCHANGED <<tasks_, next_attachment_>>

RoundEnds ==
  /\ InRound /\ Top.i > Len(Top.entries)
  /\ stack' = Below
  /\ UNCHANGED <<tasks_, next_attachment_>>

RunUntilIdle ==
  /\ MayNest
  /\ stack' = Append(stack, Loop(MaxRounds))
  /\ UNCHANGED <<tasks_, next_attachment_>>

\* One turn of run_until_idle's loop, or its return.
LoopTurn ==
  /\ stack # <<>> /\ Top.kind = "loop"
  /\ IF Top.left > 0 /\ Len(tasks_) > 0
     THEN stack' = Append(ReplaceTop(Loop(Top.left - 1)), Round(Snapshot, 1, FALSE))
     ELSE stack' = Below
  /\ UNCHANGED <<tasks_, next_attachment_>>

Next ==
  \/ \E t \in Tasks : Attach(t) \/ AttachFails(t) \/ Detach(t)
  \/ RunOnce \/ Skip \/ Poll \/ PollYields \/ PollCompletes \/ RoundEnds
  \/ RunUntilIdle \/ LoopTurn

Spec == Init /\ [][Next]_vars

(***************************************************************************)
(* A main program that keeps calling run_once and polls that return.       *)
(***************************************************************************)
FairSpec ==
  /\ Spec
  /\ WF_vars(RunOnce) /\ WF_vars(Skip \/ Poll \/ RoundEnds \/ LoopTurn)
  /\ WF_vars(PollYields \/ PollCompletes)

-----------------------------------------------------------------------------
Entries == [task : Tasks, attachment : Numbers]
Copies == [task : Tasks, attachment : Numbers, gone : BOOLEAN]

Frames == [kind : {"round", "loop"}, entries : Seq(Copies), i : Nat,
           polling : BOOLEAN, left : Nat]

FrameOK(frame) ==
  /\ frame.kind = "round" => frame.i >= 1
  /\ frame.polling => frame.i \in 1 .. Len(frame.entries)
  /\ Len(frame.entries) <= Capacity
  /\ frame.kind = "loop" => Len(frame.entries) = 0

TypeOK ==
  /\ tasks_ \in Seq(Entries) /\ Len(tasks_) <= Capacity
  /\ next_attachment_ \in Numbers
  /\ stack \in Seq(Frames)
  /\ \A f \in 1 .. Len(stack) : FrameOK(stack[f])

(***************************************************************************)
(* An entry is one attachment, not a task address: no two attached entries *)
(* share a number, and a number of a running round's snapshot, nested      *)
(* rounds included, is attached exactly while the attachment it was copied *)
(* from is.  So no round polls a detached task or one attached during the  *)
(* round, and a completion removes its own attachment only                 *)
(* (coro/scheduler.hpp:161-166, 232-243).                                  *)
(***************************************************************************)
SnapshotExact ==
  /\ \A i, j \in 1 .. Len(tasks_) : i # j => tasks_[i].attachment # tasks_[j].attachment
  /\ \A f \in 1 .. Len(stack) : \A k \in 1 .. Len(stack[f].entries) :
       stack[f].entries[k].gone <=> ~holds(stack[f].entries[k].attachment)

(***************************************************************************)
(* Without nested rounds a scheduler that is not full always has a free    *)
(* number, so try_attach fails only when full                              *)
(* (coro/scheduler.hpp:101-103, 235-238).                                  *)
(***************************************************************************)
Rounds == {f \in 1 .. Len(stack) : stack[f].kind = "round"}

NumberAvailable ==
  (Len(tasks_) < Capacity /\ \A f, g \in Rounds : f = g)
     => \E n \in Numbers : ~in_use(n)

(***************************************************************************)
(* Round robin: an attached task is polled, or detached, whatever the      *)
(* other tasks' polls attach and detach (coro/scheduler.hpp:73-75).        *)
(***************************************************************************)
Polled(t) ==
  \E f \in 1 .. Len(stack) : stack[f].polling /\ stack[f].entries[stack[f].i].task = t

EveryTaskPolled ==
  \A t \in Tasks : is_attached(t) ~> (Polled(t) \/ ~is_attached(t))

=============================================================================
