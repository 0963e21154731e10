---------------------------- MODULE TickExtender -----------------------------
(***************************************************************************)
(* metl::tick_extender (tick_extender.hpp): the main program and interrupt *)
(* handlers read a wrapping counter through now(), which widens it.  The   *)
(* counter runs on by itself between, and within, their steps.             *)
(***************************************************************************)
EXTENDS Interrupts

CONSTANTS
  Period,    \* 2^Bits, the counter's period
  MaxTime    \* bound on the time, in counts

VARIABLES
  total_,
  time,      \* the counts since the counter's last zero before the first read
  pc,        \* [Contexts -> {"run", "locking", "read", "update", "leave"}]
  raw,       \* [Contexts -> 0 .. Period - 1]
  readAt,    \* [Contexts -> Nat], the time of the context's last read
  lastRead   \* the time of the last read of all

vars == <<core, total_, time, pc, raw, readAt, lastRead>>
ghosts == <<time, readAt, lastRead>>

Init ==
  /\ CoreInit
  /\ total_ = 0
  /\ time = 0 /\ lastRead = 0
  /\ pc = [c \in Contexts |-> "run"]
  /\ raw = [c \in Contexts |-> 0]
  /\ readAt = [c \in Contexts |-> 0]

Goto(c, l) == pc' = [pc EXCEPT ![c] = l]

\* The counter counts.  The callers keep their reads less than a period apart.
Tick ==
  /\ time < MaxTime /\ time + 1 - lastRead < Period
  /\ time' = time + 1
  /\ UNCHANGED <<core, total_, pc, raw, readAt, lastRead>>

Read(c) ==
  /\ raw' = [raw EXCEPT ![c] = time % Period]
  /\ readAt' = [readAt EXCEPT ![c] = time]
  /\ lastRead' = time

-----------------------------------------------------------------------------
now(c) ==
  /\ Executing(c) /\ pc[c] = "run"
  /\ mrs(c) /\ Goto(c, "locking")
  /\ UNCHANGED <<total_, raw, ghosts>>

Locked(c) ==
  /\ Executing(c) /\ pc[c] = "locking"
  /\ cpsid(c) /\ Goto(c, "read")
  /\ UNCHANGED <<total_, raw, ghosts>>

ReadRaw(c) ==
  /\ Executing(c) /\ pc[c] = "read"
  /\ Read(c) /\ Goto(c, "update")
  /\ UNCHANGED <<core, total_, time>>

\* read() throws: the lock is released, the total is untouched.
ReadThrows(c) ==
  /\ Executing(c) /\ pc[c] = "read"
  /\ Goto(c, "run") /\ unlock(c)
  /\ UNCHANGED <<total_, raw, ghosts>>

Update(c) ==
  /\ Executing(c) /\ pc[c] = "update"
  /\ total_' = total_ + ((raw[c] - total_) % Period)
  /\ Goto(c, "leave")
  /\ UNCHANGED <<core, raw, ghosts>>

\* now() returns total_ and releases the lock.
Return(c) ==
  /\ Executing(c) /\ pc[c] = "leave"
  /\ Goto(c, "run") /\ unlock(c)
  /\ raw' = [raw EXCEPT ![c] = 0]
  /\ readAt' = [readAt EXCEPT ![c] = 0]
  /\ UNCHANGED <<total_, time, lastRead>>

HandlerStarts(c) == Interrupt(c) /\ UNCHANGED <<total_, pc, raw, ghosts>>

HandlerEnds(c) ==
  /\ pc[c] = "run" /\ ReturnFromInterrupt(c)
  /\ UNCHANGED <<total_, pc, raw, ghosts>>

Next ==
  \/ Tick
  \/ \E c \in Contexts : \/ now(c) \/ Locked(c) \/ ReadRaw(c) \/ ReadThrows(c)
                         \/ Update(c) \/ Return(c)
                         \/ HandlerStarts(c) \/ HandlerEnds(c)

Spec == Init /\ [][Next]_vars

-----------------------------------------------------------------------------
TypeOK ==
  /\ CoreTypeOK
  /\ previous \in [Contexts -> {<<>>} \cup {<<b>> : b \in BOOLEAN}]
  /\ total_ \in Nat /\ time \in 0 .. MaxTime /\ lastRead \in 0 .. time
  /\ pc \in [Contexts -> {"run", "locking", "read", "update", "leave"}]
  /\ raw \in [Contexts -> 0 .. Period - 1]
  /\ readAt \in [Contexts -> 0 .. time]

(***************************************************************************)
(* now() returns the unwrapped time at which its own read was made,        *)
(* whichever handlers called now() meanwhile: no count is lost, and none   *)
(* is invented (tick_extender.hpp:11-22, 105-110).                         *)
(***************************************************************************)
TickExact == \A c \in Contexts : pc[c] = "leave" => total_ = readAt[c]

=============================================================================
