------------------------------ MODULE OnceFlag -------------------------------
(***************************************************************************)
(* metl::once_flag and try_call_once (once_flag.hpp), called by the main   *)
(* program, by interrupt handlers and by the initializer itself.  The lock *)
(* covers the claim of the flag, never the initializer, which may return   *)
(* or throw.                                                               *)
(***************************************************************************)
EXTENDS Interrupts

CONSTANTS MaxDepth, NoAnswer   \* MaxDepth: bound on nested calls of a context

VARIABLES
  state_,     \* "init", "running" or "done"
  calls,      \* [Contexts -> Seq(Labels)], the calls in progress
  seen,       \* [Contexts -> States], the local of claim
  answer,     \* what the last step returned, NoAnswer if it was no return
  complete,   \* an initializer has returned
  started,    \* the number of initializers started, counted to 2
  thrown      \* an initializer has left by an exception

vars == <<core, state_, calls, seen, answer, complete, started, thrown>>
ghosts == <<complete, started, thrown>>

States == {"init", "running", "done"}
Labels == {"entry", "claim", "locking", "load", "store", "unlock", "fn", "finish"}

Init ==
  /\ CoreInit
  /\ state_ = "init" /\ answer = NoAnswer
  /\ calls = [c \in Contexts |-> <<>>]
  /\ seen = [c \in Contexts |-> "init"]
  /\ complete = FALSE /\ started = 0 /\ thrown = FALSE

At(c, l) == Executing(c) /\ calls[c] # <<>> /\ Last(calls[c]) = l
Goto(c, l) == /\ calls' = [calls EXCEPT ![c] = Append(Front(@), l)]
              /\ answer' = NoAnswer
Return(c, b) == /\ calls' = [calls EXCEPT ![c] = Front(@)]
                /\ answer' = b

-----------------------------------------------------------------------------
try_call_once(c) ==
  /\ Executing(c) /\ (calls[c] # <<>> => Last(calls[c]) = "fn")
  /\ Len(calls[c]) < MaxDepth
  /\ calls' = [calls EXCEPT ![c] = Append(@, "entry")]
  /\ answer' = NoAnswer
  /\ UNCHANGED <<core, state_, seen, ghosts>>

is_done(c) ==
  /\ At(c, "entry")
  /\ \/ state_ = "done" /\ Return(c, TRUE)
     \/ state_ # "done" /\ Goto(c, "claim")
  /\ UNCHANGED <<core, state_, seen, ghosts>>

\* claim, under its scoped_lock.
ClaimLocks(c) ==
  /\ At(c, "claim")
  /\ mrs(c) /\ Goto(c, "locking")
  /\ UNCHANGED <<state_, seen, ghosts>>

\* Fault: the claim is made without the lock.
ClaimLocked_NotTaken(c) ==
  /\ At(c, "locking")
  /\ Goto(c, "load")
  /\ UNCHANGED <<core, state_, seen, ghosts>>

ClaimLocked(c) ==
  /\ At(c, "locking")
  /\ cpsid(c) /\ Goto(c, "load")
  /\ UNCHANGED <<state_, seen, ghosts>>

ClaimLoad(c) ==
  /\ At(c, "load")
  /\ seen' = [seen EXCEPT ![c] = state_]
  /\ Goto(c, "store")
  /\ UNCHANGED <<core, state_, ghosts>>

ClaimStore(c) ==
  /\ At(c, "store")
  /\ state_' = IF seen[c] = "init" THEN "running" ELSE state_
  /\ Goto(c, "unlock")
  /\ UNCHANGED <<core, seen, ghosts>>

\* claim returns; the initializer starts if the flag was not started.
Claimed(c) ==
  /\ At(c, "unlock") /\ unlock(c)
  /\ seen' = [seen EXCEPT ![c] = "init"]
  /\ \/ /\ seen[c] = "init"
        /\ Goto(c, "fn") /\ started' = IF started < 2 THEN started + 1 ELSE 2
     \/ /\ seen[c] # "init"
        /\ Return(c, seen[c] = "done") /\ UNCHANGED started
  /\ UNCHANGED <<state_, complete, thrown>>

FnReturns(c) ==
  /\ At(c, "fn")
  /\ complete' = TRUE
  /\ Goto(c, "finish")
  /\ UNCHANGED <<core, state_, seen, started, thrown>>

FnThrows(c) ==
  /\ At(c, "fn")
  /\ thrown' = TRUE
  /\ Return(c, NoAnswer)
  /\ UNCHANGED <<core, state_, seen, complete, started>>

finish(c) ==
  /\ At(c, "finish")
  /\ state_' = "done"
  /\ Return(c, TRUE)
  /\ UNCHANGED <<core, seen, ghosts>>

HandlerStarts(c) ==
  /\ Interrupt(c) /\ answer' = NoAnswer
  /\ UNCHANGED <<state_, calls, seen, ghosts>>

HandlerEnds(c) ==
  /\ calls[c] = <<>> /\ ReturnFromInterrupt(c) /\ answer' = NoAnswer
  /\ UNCHANGED <<state_, calls, seen, ghosts>>

Next == \E c \in Contexts :
  \/ try_call_once(c) \/ is_done(c) \/ ClaimLocks(c) \/ ClaimLocked(c)
  \/ ClaimLoad(c) \/ ClaimStore(c) \/ Claimed(c)
  \/ FnReturns(c) \/ FnThrows(c) \/ finish(c)
  \/ HandlerStarts(c) \/ HandlerEnds(c)

Spec == Init /\ [][Next]_vars

-----------------------------------------------------------------------------
TypeOK ==
  /\ CoreTypeOK
  /\ previous \in [Contexts -> {<<>>} \cup {<<b>> : b \in BOOLEAN}]
  /\ state_ \in States /\ seen \in [Contexts -> States]
  /\ calls \in [Contexts -> UNION {[1 .. n -> Labels] : n \in 0 .. MaxDepth}]
  /\ answer \in BOOLEAN \cup {NoAnswer}
  /\ complete \in BOOLEAN /\ started \in 0 .. 2 /\ thrown \in BOOLEAN

(***************************************************************************)
(* No two callers start the initializer, however interrupts fall, and      *)
(* after an exception no later call does (once_flag.hpp:46-49, 72-73).     *)
(***************************************************************************)
RunsOnce == started <= 1

(***************************************************************************)
(* A caller told TRUE finds what the initializer wrote                     *)
(* (once_flag.hpp:88-89, 131-133).                                         *)
(***************************************************************************)
TrueMeansInitialized == answer = TRUE => complete

(***************************************************************************)
(* A caller told FALSE is told so only while the initializer is under way  *)
(* in some context, or after it left by an exception                       *)
(* (once_flag.hpp:46-49, 72-73, 132-133).                                  *)
(***************************************************************************)
FalseMeansRunning == answer = FALSE =>
  \/ thrown
  \/ \E c \in Contexts : \E i \in 1 .. Len(calls[c]) : calls[c][i] \in {"fn", "finish"}

(***************************************************************************)
(* What try_call_once promises its callers: the initializer starts at most *)
(* once, TRUE is returned only after it has finished, and FALSE only while *)
(* it is under way or after it threw.                                      *)
(***************************************************************************)
OnceFlagExact == RunsOnce /\ TrueMeansInitialized /\ FalseMeansRunning

=============================================================================
