------------------------------- MODULE Arenas --------------------------------
(***************************************************************************)
(* metl::arena_allocator (arena_allocator.hpp) and metl::monotonic_buffer  *)
(* (monotonic_buffer.hpp).  Both hand out storage by moving an offset; the *)
(* arena also leaves a record behind every allocation, by which rewind     *)
(* walks back and destroys.  Constructors and destructors are user code    *)
(* and call back into the arena they run in: the calls in progress form a  *)
(* stack.  A constructor does not rewind the arena below its own object.   *)
(***************************************************************************)
EXTENDS Integers, Sequences, SequencesExt, FiniteSetsExt

CONSTANTS
  Capacity, RecordSize,    \* bytes of the buffer and of an allocation_record
  Wrap,                    \* size_type counts modulo this
  Sizes, Alignments,       \* what is asked for
  MaxDepth                 \* bound on nested calls

VARIABLES
  type_,       \* "arena" or "monotonic"
  offset_,
  records,     \* the allocation_records intact in the storage, by where they end
  objects,     \* what is in the storage: objects, and blocks of raw bytes
  stack,       \* the calls in progress, innermost last
  halted,      \* METL_HARDEN has stopped the program
  ok           \* no step destroyed, released or returned what it must not

vars == <<type_, offset_, records, objects, stack, halted, ok>>

Offsets == 0 .. Capacity

Init ==
  /\ type_ \in {"arena", "monotonic"}
  /\ offset_ = 0 /\ records = <<>> /\ objects = {} /\ stack = <<>>
  /\ halted = FALSE /\ ok = TRUE

InFrame(kind) == ~halted /\ stack # <<>> /\ Last(stack).kind = kind
UserRuns ==
  /\ ~halted /\ Len(stack) < MaxDepth
  /\ stack # <<>> => Last(stack).kind \in {"construct", "destroy"}
Push(f) == stack' = Append(stack, f)
Frame(kind, at, to) == [kind |-> kind, at |-> at, to |-> to]

\* Objects with a lifetime; a block has none.
Alive == {o \in objects : o.state # "block"}
At(payload) == CHOOSE o \in objects : o.payload = payload
Becomes(o, state) == (objects \ {o}) \cup {[o EXCEPT !.state = state]}

-----------------------------------------------------------------------------
align_up(value, alignment) == ((value + alignment - 1) \div alignment) * alignment

remaining == Capacity - offset_

\* Each part is taken off what is left, so that no sum can wrap.
Fits(padding, bytes) ==
  /\ padding <= remaining
  /\ bytes <= remaining - padding
  /\ RecordSize <= remaining - padding - bytes

\* A record whose bytes are written over is gone.
Intact(from, to) == {e \in DOMAIN records : e <= from \/ e - RecordSize >= to}
store_record(e, kept, r) == [x \in kept \cup {e} |-> IF x = e THEN r ELSE records[x]]

\* What allocate_impl leaves, for a request that fits; the payload is used.
allocate_impl(bytes, alignment, state) ==
  LET payload == align_up(offset_, alignment)
      next == payload + bytes + RecordSize
      record == [previous_offset |-> offset_, payload_offset |-> payload, destroy |-> FALSE]
  IN  /\ bytes # 0 /\ Fits(payload - offset_, bytes)
      /\ offset_' = next
      /\ records' = store_record(next, Intact(payload, next), record)
      /\ objects' = objects \cup {[payload |-> payload, bytes |-> bytes, state |-> state]}

\* The same of monotonic_buffer, which keeps no records.
monotonic_allocate(bytes, alignment, state) ==
  LET payload == align_up(offset_, alignment)
      padding == payload - offset_
  IN  /\ bytes # 0 /\ padding <= remaining /\ bytes <= remaining - padding
      /\ offset_' = payload + bytes
      /\ objects' = objects \cup {[payload |-> payload, bytes |-> bytes, state |-> state]}
      /\ UNCHANGED records

Allocate(bytes, alignment, state) ==
  \/ type_ = "arena" /\ allocate_impl(bytes, alignment, state)
  \/ type_ = "monotonic" /\ monotonic_allocate(bytes, alignment, state)

try_allocate(bytes, alignment) ==
  /\ UserRuns /\ Allocate(bytes, alignment, "block")
  /\ UNCHANGED <<type_, stack, halted, ok>>

\* count objects of `size` bytes: refused before the product can wrap.
try_allocate_n(count, size, alignment) ==
  /\ UserRuns /\ type_ = "monotonic"
  /\ count # 0 /\ count <= (Wrap - 1) \div size
  /\ monotonic_allocate((size * count) % Wrap, alignment, "block")
  /\ UNCHANGED <<type_, stack, halted, ok>>

\* The slot is reserved with no destructor registered; then T's constructor runs.
try_emplace(bytes, alignment) ==
  /\ UserRuns /\ Allocate(bytes, alignment, "building")
  /\ Push(Frame("construct", offset_', align_up(offset_, alignment)))
  /\ UNCHANGED <<type_, halted, ok>>

\* The object's own record is patched: newer ones may lie above it by now.
ConstructorReturns ==
  /\ InFrame("construct")
  /\ LET f == Last(stack)
     IN  /\ objects' = Becomes(At(f.to), "live")
         /\ records' = IF type_ = "arena" THEN [records EXCEPT ![f.at].destroy = TRUE]
                       ELSE records
  /\ stack' = Front(stack)
  /\ UNCHANGED <<type_, offset_, halted, ok>>

\* The storage stays taken, and its record without a destructor.
ConstructorThrows ==
  /\ InFrame("construct")
  /\ objects' = Becomes(At(Last(stack).to), "block")
  /\ stack' = Front(stack)
  /\ UNCHANGED <<type_, offset_, records, halted, ok>>

-----------------------------------------------------------------------------
\* A mark is some earlier value of offset_.
rewind(target) ==
  /\ UserRuns /\ type_ = "arena" /\ target <= offset_
  /\ InFrame("construct") => target >= Last(stack).at
  /\ Push(Frame("rewind", 0, target))
  /\ UNCHANGED <<type_, offset_, records, objects, halted, ok>>

\* The storage from `to` on is given up.
Release(to) ==
  /\ offset_' = to
  /\ ok' = (ok /\ \A o \in Alive : o.payload < to)
  /\ objects' = {o \in objects : o.payload < to}

\* Where the record of the innermost object being destroyed ends.
Floor == Max({0} \cup {stack[k].at : k \in {j \in DOMAIN stack : stack[j].kind \in {"destroy", "release"}}})

RewindReturns(target) ==
  /\ stack' = Front(stack)
  /\ ok' = (ok /\ offset_ = Max({target, Floor}))
  /\ UNCHANGED <<type_, offset_, records, objects, halted>>

\* Fault: the record only forgets its destructor, and a nested walk releases it.
Destroying_Forgets(at) == [records EXCEPT ![at].destroy = FALSE]

\* The record is marked before the destructor is called.
Destroying(at) == [records EXCEPT ![at].destroy = FALSE, ![at].payload_offset = -1]

CallDestructor(r) ==
  /\ records' = Destroying(offset_)
  /\ Push(Frame("destroy", offset_, r.payload_offset))
  /\ ok' = (ok /\ At(r.payload_offset).state = "live"
               /\ \A o \in Alive : o.state = "live" => o.payload <= r.payload_offset)
  /\ objects' = Becomes(At(r.payload_offset), "dying")
  /\ UNCHANGED <<type_, offset_, halted>>

\* One turn of the loop.
RewindStep ==
  /\ InFrame("rewind")
  /\ LET target == Last(stack).to
         r == records[offset_]
     IN  IF offset_ <= target THEN RewindReturns(target)
         ELSE CASE r.previous_offset < target ->
                     halted' = TRUE /\ UNCHANGED <<type_, offset_, records, objects, stack, ok>>
                [] r.previous_offset >= target /\ r.destroy -> CallDestructor(r)
                [] r.previous_offset >= target /\ ~r.destroy /\ r.payload_offset = -1 ->
                     RewindReturns(target)
                [] OTHER ->
                     Release(r.previous_offset) /\ UNCHANGED <<type_, records, stack, halted>>

\* What the destructor allocated goes first: a rewind to the object's record.
DestructorReturns ==
  /\ InFrame("destroy")
  /\ LET f == Last(stack)
     IN  /\ objects' = Becomes(At(f.to), "block")
         /\ stack' = Append(Front(stack), [f EXCEPT !.kind = "release"])
                       \o <<Frame("rewind", 0, f.at)>>
  /\ UNCHANGED <<type_, offset_, records, halted, ok>>

\* Then its own storage.
ReleaseStorage ==
  /\ InFrame("release")
  /\ Release(records[Last(stack).at].previous_offset)
  /\ stack' = Front(stack)
  /\ UNCHANGED <<type_, records, halted>>

\* monotonic_buffer::reset runs no destructor: the objects are given up.
monotonic_reset ==
  /\ UserRuns /\ type_ = "monotonic" /\ stack = <<>>
  /\ offset_' = 0 /\ objects' = {}
  /\ UNCHANGED <<type_, records, stack, halted, ok>>

Stopped == halted /\ UNCHANGED vars

Next ==
  \/ \E bytes \in Sizes, alignment \in Alignments :
       \/ try_allocate(bytes, alignment) \/ try_emplace(bytes, alignment)
       \/ \E count \in 0 .. Wrap - 1 : try_allocate_n(count, bytes, alignment)
  \/ \E target \in Offsets : rewind(target)     \* reset is rewind(0)
  \/ ConstructorReturns \/ ConstructorThrows
  \/ RewindStep \/ DestructorReturns \/ ReleaseStorage
  \/ monotonic_reset \/ Stopped

Spec == Init /\ [][Next]_vars

-----------------------------------------------------------------------------
TypeOK ==
  /\ type_ \in {"arena", "monotonic"} /\ offset_ \in Offsets
  /\ DOMAIN records \subseteq Offsets
  /\ \A o \in objects : /\ o.payload \in Offsets /\ o.bytes \in 1 .. Capacity
                        /\ o.state \in {"block", "building", "live", "dying"}
  /\ Len(stack) <= MaxDepth + 2 /\ halted \in BOOLEAN /\ ok \in BOOLEAN

OwnRecord == IF type_ = "arena" THEN RecordSize ELSE 0

\* The ends of the records from e down.
Chain(e) ==
  LET down[x \in Offsets] == IF x = 0 THEN {} ELSE {x} \cup down[records[x].previous_offset]
  IN  down[e]

(***************************************************************************)
(* However constructors and destructors nest calls of the arena: what is   *)
(* in the storage lies below used() and no two things share a byte; the    *)
(* records from the top down are intact, one for each of them, and name a  *)
(* destructor exactly for the objects that are built and not yet being     *)
(* destroyed.  So each object is destroyed once, newest first, its storage *)
(* is released only after its destructor returned, and a nested rewind     *)
(* stops at the object being destroyed (arena_allocator.hpp:113-116,       *)
(* 178-184, 68-70, 145-147).                                               *)
(***************************************************************************)
ArenaExact ==
  /\ ok
  /\ \A o \in objects :
       /\ o.payload + o.bytes + OwnRecord <= offset_
       /\ \A p \in objects : \/ p = o
                             \/ o.payload + o.bytes + OwnRecord <= p.payload
                             \/ p.payload + p.bytes + OwnRecord <= o.payload
  /\ type_ = "arena" =>
       LET chain == Chain(offset_)
       IN  /\ chain \subseteq DOMAIN records
           /\ {o.payload + o.bytes + OwnRecord : o \in objects} = chain
           /\ \A o \in objects :
                LET r == records[o.payload + o.bytes + OwnRecord]
                IN  /\ r.destroy <=> o.state = "live"
                    /\ r.payload_offset = o.payload \/ r.payload_offset = -1
                    /\ o.state = "dying" => r.payload_offset = -1

=============================================================================
