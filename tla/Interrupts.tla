----------------------------- MODULE Interrupts ------------------------------
(***************************************************************************)
(* One core that runs a main program and interrupt handlers, and irq_lock  *)
(* (lock.hpp): PRIMASK saved, interrupts masked, PRIMASK restored.  A      *)
(* context is a priority: 0 is the main program.  Between two steps of the *)
(* running context any handler of higher priority may start, unless        *)
(* PRIMASK is set, and it runs until it returns.                           *)
(***************************************************************************)
EXTENDS Integers, Sequences

CONSTANT Isrs   \* the handlers' priorities, positive numbers

ASSUME IsrsAssumption == Isrs \subseteq Nat \ {0}

Contexts == {0} \cup Isrs

VARIABLES
  primask,    \* TRUE: interrupts are masked
  running,    \* the started contexts, the one that executes last
  previous    \* [Contexts -> Seq(BOOLEAN)], the state each scoped_lock holds

core == <<primask, running, previous>>

\* The last element of a sequence, and those before it.
Last(s) == s[Len(s)]
Front(s) == SubSeq(s, 1, Len(s) - 1)

CoreInit ==
  /\ primask = FALSE /\ running = <<0>>
  /\ previous = [c \in Contexts |-> <<>>]

Executing(c) == c = Last(running)

Interrupt(c) ==
  /\ c \in Isrs /\ ~primask /\ c > Last(running)
  /\ running' = Append(running, c)
  /\ UNCHANGED <<primask, previous>>

ReturnFromInterrupt(c) ==
  /\ c \in Isrs /\ Executing(c)
  /\ running' = Front(running)
  /\ UNCHANGED <<primask, previous>>

-----------------------------------------------------------------------------
\* irq_lock::lock is two instructions, and an interrupt may come in between.
mrs(c) ==
  /\ Executing(c)
  /\ previous' = [previous EXCEPT ![c] = Append(@, primask)]
  /\ UNCHANGED <<primask, running>>

\* Fault: nothing is masked, as for unprivileged code.
cpsid_Ignored(c) ==
  /\ Executing(c)
  /\ UNCHANGED core

cpsid(c) ==
  /\ Executing(c)
  /\ primask' = TRUE
  /\ UNCHANGED <<running, previous>>

\* Fault: interrupts are enabled, whatever the state before the lock was.
unlock_Enables(c) ==
  /\ Executing(c)
  /\ primask' = FALSE
  /\ previous' = [previous EXCEPT ![c] = Front(@)]
  /\ UNCHANGED running

unlock(c) ==
  /\ Executing(c)
  /\ primask' = Last(previous[c])
  /\ previous' = [previous EXCEPT ![c] = Front(@)]
  /\ UNCHANGED running

CoreTypeOK ==
  /\ primask \in BOOLEAN
  /\ \A i \in 1 .. Len(running) : running[i] \in Contexts
  /\ \A i \in 1 .. Len(running) - 1 : running[i] < running[i + 1]
  /\ DOMAIN previous = Contexts

=============================================================================
