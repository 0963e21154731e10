-------------------------------- MODULE Coro --------------------------------
(***************************************************************************)
(* The two cooperative tasks: coro::stepper (coro/stepper.hpp), whose step *)
(* may poll or reset the task it belongs to, and coro::protothread         *)
(* (coro/protothread.hpp), whose body is left and resumed at its source    *)
(* lines.                                                                  *)
(***************************************************************************)
EXTENDS Integers, Sequences

CONSTANTS
  Body,        \* the protothread's statements, one per line from line 1
  MaxDepth     \* bound on nested calls of a stepper

VARIABLES
  kind,                \* "stepper" or "protothread"
  done_, error_,       \* of the stepper
  stack,               \* its calls in progress: "step" and "on_reset"
  outcomes,            \* ghost: what steps returned since the last reset began
  pt_line_,            \* of the protothread
  line,                \* the line its run is at, 0 between two runs
  passed,              \* ghost: the lines passed since the body's beginning
  ended,               \* ghost: the body has come to its end or an exit
  returned,            \* what the last run() returned
  halted               \* a hardening check failed

stepper == <<done_, error_, stack, outcomes>>
protothread == <<pt_line_, line, passed, ended, returned>>
vars == <<kind, stepper, protothread, halted>>

Lines == 1 .. Len(Body)

Init ==
  /\ kind \in {"stepper", "protothread"} /\ halted = FALSE
  /\ done_ = FALSE /\ error_ = FALSE /\ stack = <<>> /\ outcomes = {}
  /\ pt_line_ = 0 /\ line = 0 /\ passed = <<>> /\ ended = FALSE /\ returned = FALSE

-----------------------------------------------------------------------------
Top == stack[Len(stack)]
Below == SubSeq(stack, 1, Len(stack) - 1)

OfStepper == kind = "stepper" /\ UNCHANGED <<kind, protothread, halted>>

\* poll, up to the call of step.  A finished task is not stepped.
poll ==
  /\ OfStepper /\ Len(stack) < MaxDepth
  /\ ~(done_ \/ error_)
  /\ stack' = Append(stack, "step")
  /\ UNCHANGED <<done_, error_, outcomes>>

StepReturns(r) ==
  /\ OfStepper /\ stack # <<>> /\ Top = "step"
  /\ stack' = Below
  /\ done_' = (done_ \/ r \in {"done", "error"})
  /\ error_' = (error_ \/ r = "error")
  /\ outcomes' = outcomes \cup {r}

\* reset, up to the call of on_reset.
reset ==
  /\ OfStepper /\ Len(stack) < MaxDepth
  /\ done_' = FALSE /\ error_' = FALSE
  /\ stack' = Append(stack, "on_reset") /\ outcomes' = {}

OnResetReturns ==
  /\ OfStepper /\ stack # <<>> /\ Top = "on_reset"
  /\ stack' = Below
  /\ UNCHANGED <<done_, error_, outcomes>>

-----------------------------------------------------------------------------
OfProtothread == kind = "protothread" /\ ~halted /\ UNCHANGED <<kind, stepper>>

is_done == pt_line_ < 0

\* The case labels of the body's switch: a yield in a switch of the body's
\* own is not one of them.
Labels == {k \in Lines : Body[k] \in {"yield", "wait"}}

\* Fault: a resume point that no label matches ends the task.
METL_PT_BEGIN_Ends ==
  /\ OfProtothread /\ line = 0
  /\ IF pt_line_ = 0 \/ pt_line_ \in Labels
     THEN /\ line' = IF pt_line_ = 0 THEN 1
                     ELSE IF Body[pt_line_] = "yield" THEN pt_line_ + 1 ELSE pt_line_
          /\ UNCHANGED <<pt_line_, returned, halted>>
     ELSE pt_line_' = -1 /\ returned' = TRUE /\ UNCHANGED <<line, halted>>
  /\ UNCHANGED <<passed, ended>>

\* run(): METL_PT_BEGIN goes to the label of pt_line_.
METL_PT_BEGIN ==
  /\ OfProtothread /\ line = 0
  /\ IF pt_line_ = 0 \/ pt_line_ \in Labels
     THEN /\ line' = IF pt_line_ = 0 THEN 1
                     ELSE IF Body[pt_line_] = "yield" THEN pt_line_ + 1 ELSE pt_line_
          /\ UNCHANGED <<pt_line_, returned, halted>>
     ELSE IF pt_line_ >= 0 THEN halted' = TRUE /\ UNCHANGED <<pt_line_, line, returned>>
     ELSE pt_line_' = -1 /\ returned' = TRUE /\ UNCHANGED <<line, halted>>
  /\ UNCHANGED <<passed, ended>>

\* A statement is passed: the body goes on after it, in this run or the next.
At(statement) == OfProtothread /\ line \in Lines /\ Body[line] = statement
Passes == passed' = Append(passed, line)
Returns(l, done) == pt_line_' = l /\ line' = 0 /\ returned' = done /\ UNCHANGED halted

\* Statements between the macros.
Work ==
  /\ At("work") /\ Passes /\ line' = line + 1
  /\ UNCHANGED <<pt_line_, ended, returned, halted>>

METL_PT_YIELD == At("yield") /\ Passes /\ Returns(line, FALSE) /\ UNCHANGED ended

\* A switch of the body's own, one of whose cases yields.
InnerSwitch(cond) ==
  /\ At("switch") /\ Passes /\ UNCHANGED ended
  /\ IF cond THEN Returns(line, FALSE)
     ELSE line' = line + 1 /\ UNCHANGED <<pt_line_, returned, halted>>

\* METL_PT_WAIT_UNTIL(cond), and METL_PT_WAIT_WHILE of the negation.
METL_PT_WAIT_UNTIL(cond) ==
  /\ At("wait")
  /\ IF cond
     THEN Passes /\ pt_line_' = line /\ line' = line + 1 /\ UNCHANGED <<returned, halted>>
     ELSE Returns(line, FALSE) /\ UNCHANGED passed
  /\ UNCHANGED ended

\* `if (cond) METL_PT_RESTART();` and `if (cond) METL_PT_EXIT();`
METL_PT_RESTART(cond) ==
  /\ At("restart")
  /\ IF cond THEN passed' = <<>> /\ Returns(0, FALSE)
     ELSE Passes /\ line' = line + 1 /\ UNCHANGED <<pt_line_, returned, halted>>
  /\ UNCHANGED ended

METL_PT_EXIT(cond) ==
  /\ At("exit")
  /\ IF cond THEN ended' = TRUE /\ Returns(-1, TRUE) /\ UNCHANGED passed
     ELSE Passes /\ line' = line + 1 /\ UNCHANGED <<pt_line_, ended, returned, halted>>

METL_PT_END ==
  /\ OfProtothread /\ line = Len(Body) + 1
  /\ ended' = TRUE /\ Returns(-1, TRUE) /\ UNCHANGED passed

\* reset(), by the loop that runs the task.
pt_reset ==
  /\ OfProtothread /\ line = 0
  /\ pt_line_' = 0 /\ passed' = <<>> /\ ended' = FALSE
  /\ UNCHANGED <<line, returned, halted>>

Stopped == halted /\ UNCHANGED vars

Next ==
  \/ poll \/ reset \/ OnResetReturns
  \/ \E r \in {"yield", "done", "error"} : StepReturns(r)
  \/ METL_PT_BEGIN \/ Work \/ METL_PT_YIELD \/ METL_PT_END \/ pt_reset
  \/ \E cond \in BOOLEAN :
       \/ METL_PT_WAIT_UNTIL(cond) \/ METL_PT_RESTART(cond) \/ METL_PT_EXIT(cond)
       \/ InnerSwitch(cond)
  \/ Stopped

Spec == Init /\ [][Next]_vars

-----------------------------------------------------------------------------
TypeOK ==
  /\ done_ \in BOOLEAN /\ error_ \in BOOLEAN /\ stack \in Seq({"step", "on_reset"})
  /\ pt_line_ \in -1 .. Len(Body) /\ line \in 0 .. Len(Body) + 1
  /\ passed \in Seq(Lines)
  /\ ended \in BOOLEAN /\ returned \in BOOLEAN /\ halted \in BOOLEAN

(***************************************************************************)
(* A stepper is finished exactly when a step since the last reset said so, *)
(* and failed exactly when one failed, also when a step polls or resets    *)
(* its own task.  A protothread passes every line of its body once and in  *)
(* order, however often it is left, waits and is resumed; it reports done  *)
(* exactly when the body came to its end, never because a resume point     *)
(* could not be reached (coro/stepper.hpp:76-100,                          *)
(* coro/protothread.hpp:94-148, :36-37).                                   *)
(***************************************************************************)
TasksExact ==
  /\ done_ <=> outcomes \cap {"done", "error"} # {}
  /\ error_ <=> "error" \in outcomes
  /\ \A i \in 1 .. Len(passed) : passed[i] = i
  /\ line > 0 => Len(passed) = line - 1
  /\ is_done <=> ended
  /\ halted => ~ended
  /\ line = 0 /\ is_done => returned

=============================================================================
