------------------------------- MODULE Guarded -------------------------------
(***************************************************************************)
(* metl::guarded<T, irq_lock> (lock.hpp): the main program and interrupt   *)
(* handlers update one value inside critical sections, which may nest.     *)
(* The value is updated by a load and a store; the main program may also   *)
(* mask interrupts itself.                                                 *)
(***************************************************************************)
EXTENDS Interrupts

CONSTANT MaxNesting   \* bound on scoped_locks one context holds

VARIABLES
  value_,
  pc,       \* [Contexts -> {"run", "locking", "store"}]
  loaded,   \* [Contexts -> Values], what the body's load returned
  own       \* the main program has masked interrupts itself

vars == <<core, value_, pc, loaded, own>>

Values == 0 .. 3

Init ==
  /\ CoreInit
  /\ value_ = 0 /\ own = FALSE
  /\ pc = [c \in Contexts |-> "run"]
  /\ loaded = [c \in Contexts |-> 0]

Goto(c, l) == pc' = [pc EXCEPT ![c] = l]
Holds(c) == pc[c] # "locking" /\ previous[c] # <<>>

\* with, up to its body: the constructor of scoped_lock.
with(c) ==
  /\ Executing(c) /\ pc[c] = "run" /\ Len(previous[c]) < MaxNesting
  /\ mrs(c) /\ Goto(c, "locking")
  /\ UNCHANGED <<value_, loaded, own>>

Masked(c) ==
  /\ Executing(c) /\ pc[c] = "locking"
  /\ cpsid(c) /\ Goto(c, "run")
  /\ UNCHANGED <<value_, loaded, own>>

\* The body fn(value_) reads the value, and writes what follows from it.
Load(c) ==
  /\ Executing(c) /\ pc[c] = "run" /\ Holds(c)
  /\ loaded' = [loaded EXCEPT ![c] = value_]
  /\ Goto(c, "store")
  /\ UNCHANGED <<core, value_, own>>

Store(c) ==
  /\ Executing(c) /\ pc[c] = "store"
  /\ value_' = (loaded[c] + 1) % 4
  /\ loaded' = [loaded EXCEPT ![c] = 0]
  /\ Goto(c, "run")
  /\ UNCHANGED <<core, own>>

\* The destructor of scoped_lock.
Leave(c) ==
  /\ Executing(c) /\ pc[c] = "run" /\ Holds(c)
  /\ unlock(c)
  /\ UNCHANGED <<value_, pc, loaded, own>>

\* The main program's own critical section.
MaskOwn ==
  /\ Executing(0) /\ pc[0] = "run" /\ previous[0] = <<>>
  /\ primask' = ~own /\ own' = ~own
  /\ UNCHANGED <<running, previous, value_, pc, loaded>>

HandlerStarts(c) == Interrupt(c) /\ UNCHANGED <<value_, pc, loaded, own>>

HandlerEnds(c) ==
  /\ pc[c] = "run" /\ previous[c] = <<>>
  /\ ReturnFromInterrupt(c)
  /\ UNCHANGED <<value_, pc, loaded, own>>

Next ==
  \/ \E c \in Contexts : \/ with(c) \/ Masked(c) \/ Load(c) \/ Store(c) \/ Leave(c)
                         \/ HandlerStarts(c) \/ HandlerEnds(c)
  \/ MaskOwn

Spec == Init /\ [][Next]_vars

-----------------------------------------------------------------------------
TypeOK ==
  /\ CoreTypeOK
  /\ previous \in [Contexts -> UNION {[1 .. n -> BOOLEAN] : n \in 0 .. MaxNesting}]
  /\ value_ \in Values /\ own \in BOOLEAN
  /\ pc \in [Contexts -> {"run", "locking", "store"}]
  /\ loaded \in [Contexts -> Values]

(***************************************************************************)
(* A body sees no other context's update between its load and its store    *)
(* (lock.hpp:274-280, 339-343).                                            *)
(***************************************************************************)
UpdatesAtomic == \A c \in Contexts : pc[c] = "store" => loaded[c] = value_

(***************************************************************************)
(* Interrupts are masked exactly while some context is in a critical       *)
(* section, metl's or its own: leaving an inner one, in a handler that     *)
(* interrupted another's lock() or in the same context, neither unmasks an *)
(* outer one nor leaves interrupts masked for good                         *)
(* (lock.hpp:137-143, 211-216).                                            *)
(***************************************************************************)
MaskExact == primask <=> (own \/ \E c \in Contexts :
  \/ Holds(c)
  \/ pc[c] = "locking" /\ Len(previous[c]) > 1)

=============================================================================
