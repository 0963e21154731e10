------------------------------ MODULE MCContexts ------------------------------
(***************************************************************************)
(* What contexts share, for TLC.  A behaviour is about one subject: a      *)
(* guarded value, a once_flag or a tick_extender, used by the main program *)
(* of a core and its interrupt handlers; or intrusive pointers, a free     *)
(* list under an atomic_handle or an object under atomic_ref, used by      *)
(* threads.                                                                *)
(***************************************************************************)
EXTENDS OnceFlag, TLC

CONSTANTS MaxNesting, Period, MaxTime,
          Null, Nobody, t1, t2, u1, u2, u3, x, y

VARIABLES
  subject, pc,
  value_, loaded, own,                                         \* of Guarded
  total_, time, raw, readAt, lastRead,                         \* of TickExtender
  ptr_, refcount_, lifetime, detached, work, sound,            \* of IntrusivePtr
  head, next_, generation, owner, taking, recycled, sole,      \* of AtomicHandle
  padded, ignores_padding, object, call, expected, exact, stored   \* of AtomicRef

guarded == <<value_, loaded, own>>
once == <<state_, calls, seen, answer, ghosts>>
ticks == <<total_, time, raw, readAt, lastRead>>
pointers == <<ptr_, refcount_, lifetime, detached, work, sound>>
cell == <<head, next_, generation, owner, taking, recycled, sole>>
word == <<padded, ignores_padding, object, call, expected, exact, stored>>
all == <<subject, core, pc, guarded, once, ticks, pointers, cell, word>>

MCIsrs == {1, 2}

Guarded == INSTANCE Guarded
Ticks == INSTANCE TickExtender
Pointers == INSTANCE IntrusivePtr WITH
  Threads <- {t1, t2}, Objects <- {x, y}, Locals <- {1, 2}, MaxWork <- 6, raw <- detached
\* Two odd generations, so that a slot given back twice has its first again.
Cell == INSTANCE AtomicHandle WITH
  Threads <- {u1, u2, u3}, Capacity <- 2, HalfGens <- 2, MaxRecycles <- 1,
  value_ <- head, call <- taking
Word == INSTANCE AtomicRef WITH Threads <- {t1, t2}, Width <- 1

\* State that does not exist, as it is not the subject's.  A once_flag that is
\* not the subject stays as built.
Unused(v) == v = {}
NoGuarded == Unused(value_) /\ Unused(loaded) /\ Unused(own)
NoTicks ==
  Unused(total_) /\ Unused(time) /\ Unused(raw) /\ Unused(readAt) /\ Unused(lastRead)
NoPointers ==
  /\ Unused(ptr_) /\ Unused(refcount_) /\ Unused(lifetime)
  /\ Unused(detached) /\ Unused(work) /\ Unused(sound)
NoCell ==
  /\ Unused(head) /\ Unused(next_) /\ Unused(generation) /\ Unused(owner)
  /\ Unused(taking) /\ Unused(recycled) /\ Unused(sole)
NoWord ==
  /\ Unused(padded) /\ Unused(ignores_padding) /\ Unused(object)
  /\ Unused(call) /\ Unused(expected) /\ Unused(exact) /\ Unused(stored)

OfCore ==
  \/ subject = "guarded" /\ Guarded!Init /\ NoTicks
  \/ subject = "once" /\ Unused(pc) /\ NoGuarded /\ NoTicks
  \/ subject = "ticks" /\ Ticks!Init /\ NoGuarded

OfThreads ==
  \/ subject = "pointers" /\ Pointers!Init /\ NoCell /\ NoWord
  \/ subject = "cell" /\ Cell!Init /\ NoPointers /\ NoWord
  \/ subject = "word" /\ Word!Init /\ NoPointers /\ NoCell

ContextsInit ==
  /\ Init
  /\ \/ OfCore /\ NoPointers /\ NoCell /\ NoWord
     \/ OfThreads /\ Unused(pc) /\ NoGuarded /\ NoTicks

ContextsNext ==
  /\ UNCHANGED subject
  /\ \/ /\ subject = "guarded" /\ Guarded!Next
        /\ UNCHANGED <<once, ticks, pointers, cell, word>>
     \/ /\ subject = "once" /\ Next
        /\ UNCHANGED <<pc, guarded, ticks, pointers, cell, word>>
     \/ /\ subject = "ticks" /\ Ticks!Next
        /\ UNCHANGED <<guarded, once, pointers, cell, word>>
     \/ /\ subject = "pointers" /\ Pointers!Next
        /\ UNCHANGED <<core, pc, guarded, once, ticks, cell, word>>
     \/ /\ subject = "cell" /\ Cell!Next
        /\ UNCHANGED <<core, pc, guarded, once, ticks, pointers, word>>
     \/ /\ subject = "word" /\ Word!Next
        /\ UNCHANGED <<core, pc, guarded, once, ticks, pointers, cell>>

ContextsSpec == ContextsInit /\ [][ContextsNext]_all

\* Threads of a kind, and objects, are interchangeable.
Symmetry == Permutations({t1, t2}) \cup Permutations({u1, u2, u3}) \cup Permutations({x, y})

-----------------------------------------------------------------------------
\* Each component's properties are stated, with their reasons, in its module;
\* those of once_flag are OnceFlag's.

(***************************************************************************)
(* No update comes between the load and the store of a body run by         *)
(* guarded::with, and PRIMASK is set exactly while a critical section is   *)
(* open, however sections and interrupts nest (lock.hpp:137-143, 211-216,  *)
(* 274-280, 339-343).                                                      *)
(***************************************************************************)
UpdatesAtomic ==
  subject = "guarded" => Guarded!TypeOK /\ Guarded!UpdatesAtomic /\ Guarded!MaskExact

(***************************************************************************)
(* tick_extender::now returns the unwrapped time of its own read           *)
(* (tick_extender.hpp:11-22, 105-110).                                     *)
(***************************************************************************)
TickExact == subject = "ticks" => Ticks!TypeOK /\ Ticks!TickExact

(***************************************************************************)
(* The count of an object is exactly the references to it, and one thread  *)
(* destroys it, once, when the last is dropped (intrusive_ptr.hpp:62-64,   *)
(* 136-163, 253-254, 323-325).                                             *)
(***************************************************************************)
ReferencesExact == subject = "pointers" => Pointers!TypeOK /\ Pointers!ReferencesExact

(***************************************************************************)
(* A free list whose head is an atomic_handle never loses a slot or gives  *)
(* one to two threads, although slots come back while a thread sleeps      *)
(* before its exchange (atomic_handle.hpp:17-24, 126-165).                 *)
(***************************************************************************)
FreeListSound == subject = "cell" => Cell!TypeOK /\ Cell!FreeListSound

(***************************************************************************)
(* A strong compare-exchange through atomic_ref goes by the value bits     *)
(* alone, and ends unless other threads store (atomic_ref.hpp:350-359,     *)
(* 378-379).                                                               *)
(***************************************************************************)
ExchangeExact == subject = "word" => Word!TypeOK /\ Word!ExchangeExact

=============================================================================
