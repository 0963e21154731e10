------------------------------- MODULE RingCore -------------------------------
(***************************************************************************)
(* detail::ring_core (detail/ring_core.hpp) and the containers built on it:*)
(* ring_buffer, fixed_deque and fixed_queue.  Every operation that changes *)
(* a ring is a program of element operations, any of which may throw.      *)
(***************************************************************************)
EXTENDS Lifetimes

CONSTANTS Rings, Capacity, Values

VARIABLES
  cells, size_, head_,
  ok, kept     \* as in FixedVector

vars == <<cells, size_, head_, ok, kept>>

Slots == Rings \X (0 .. Capacity - 1)

Init ==
  /\ cells = [c \in Slots |-> Raw]
  /\ size_ = [r \in Rings |-> 0] /\ head_ = [r \in Rings |-> 0]
  /\ ok = TRUE /\ kept = TRUE

Arg(x) == <<"arg", x>>
Local(n) == <<"local", n>>
Locals == {Local("value"), Local("swap")}

Before ==
  [cells |-> [c \in Slots \cup Locals \cup {Arg(x) : x \in Values} |->
      IF c \in Slots THEN cells[c] ELSE IF c \in Locals THEN Raw ELSE c[2]],
   fields |-> [f \in Rings \X {"head", "size"} |->
      IF f[2] = "head" THEN head_[f[1]] ELSE size_[f[1]]],
   ok |-> TRUE]

-----------------------------------------------------------------------------
\* Index arithmetic: a compare and a subtraction in place of a remainder.
advance(i) == IF i + 1 = Capacity THEN 0 ELSE i + 1

retreat(i) == IF i = 0 THEN Capacity - 1 ELSE i - 1

physical_index(head, i) == IF head + i >= Capacity THEN head + i - Capacity ELSE head + i

At(r, i) == <<r, physical_index(head_[r], i)>>

Elements(c, head, n) == [i \in 1 .. n |-> c[physical_index(head, i - 1)]]
Contents(st, r) ==
  Elements([i \in 0 .. Capacity - 1 |-> st.cells[<<r, i>>]],
           st.fields[<<r, "head">>], st.fields[<<r, "size">>])
Old(r) == [i \in 1 .. size_[r] |-> cells[At(r, i - 1)]]

Sources(r) == {Arg(x) : x \in Values} \cup {At(r, i) : i \in 0 .. size_[r] - 1}
ValueOf(from) == IF from \in Slots THEN cells[from] ELSE from[2]

-----------------------------------------------------------------------------
\* The programs, on a ring r of n elements from h on.

\* try_emplace_back claims the slot, then builds the element in it.
EmplaceBack(r, h, n, how, from) ==
  <<Set(<<r, "size">>, n + 1),
    [op |-> how, to |-> <<r, physical_index(h, n)>>, from |-> from]>>

EmplaceFront(r, h, n, how, from) ==
  <<Set(<<r, "head">>, retreat(h)), Set(<<r, "size">>, n + 1),
    [op |-> how, to |-> <<r, retreat(h)>>, from |-> from]>>

\* The scope_exit of try_emplace_back, for a construction that throws.
Undo(st, i) ==
  IF i.op \in {"copy", "move"} /\ i.to \in Slots
  THEN [st EXCEPT !.fields[<<i.to[1], "size">>] = @ - 1] ELSE st

UndoFront(st, i) ==
  [st EXCEPT !.fields[<<i.to[1], "size">>] = @ - 1,
             !.fields[<<i.to[1], "head">>] = head_[i.to[1]]]

PopFront(r, h, n) ==
  <<Set(<<r, "head">>, advance(h)), Set(<<r, "size">>, n - 1), Destroy(<<r, h>>)>>

PopBack(r, h, n) ==
  <<Set(<<r, "size">>, n - 1), Destroy(<<r, physical_index(h, n - 1)>>)>>

\* clear() of n elements.
Clear(r, h, n) ==
  FlattenSeq([k \in 1 .. n |-> PopFront(r, physical_index(h, k - 1), n - k + 1)])

Cleared(st, r) ==
  RunAll(st, Clear(r, st.fields[<<r, "head">>], st.fields[<<r, "size">>]))

\* Fault: the oldest element is destroyed, then the new one is built.
PushOverwrite_EvictsFirst(r, h, n, how, from) ==
  PopFront(r, h, n) \o EmplaceBack(r, advance(h), n - 1, how, from)

\* push_overwrite on a full ring builds the value before it evicts.
PushOverwrite(r, h, n, how, from) ==
  <<[op |-> how, to |-> Local("value"), from |-> from]>> \o PopFront(r, h, n)
  \o EmplaceBack(r, advance(h), n - 1, "move", Local("value")) \o <<Destroy(Local("value"))>>

AppendAll(r, h, how, q) ==
  FlattenSeq([k \in 1 .. size_[q] |-> EmplaceBack(r, h, k - 1, how, At(q, k - 1))])

ExchangeCells(c, d) ==
  <<Move(Local("swap"), c), AssignMove(c, d), AssignMove(d, Local("swap")),
    Destroy(Local("swap"))>>

\* swap_core; r is the shorter ring.
SwapCore(r, q) ==
  FlattenSeq([k \in 1 .. size_[r] |-> ExchangeCells(At(r, k - 1), At(q, k - 1))])
  \o FlattenSeq([k \in 1 .. size_[q] - size_[r] |->
       EmplaceBack(r, head_[r], size_[r] + k - 1, "move", At(q, size_[r] + k - 1))])
  \o FlattenSeq([k \in 1 .. size_[q] - size_[r] |-> PopBack(q, head_[q], size_[q] - k + 1)])

-----------------------------------------------------------------------------
CallThen(program, Unwound(_, _), Promised(_, _)) ==
  \E o \in Outcomes(Before, program, Unwound) :
    /\ cells' = [c \in Slots |-> o.st.cells[c]]
    /\ size_' = [r \in Rings |-> o.st.fields[<<r, "size">>]]
    /\ head_' = [r \in Rings |-> o.st.fields[<<r, "head">>]]
    /\ ok' = o.st.ok
    /\ kept' = Promised(o.st, o.threw)

\* A call that leaves r as `result`, or as it was if it throws.
CallStrong(program, Unwound(_, _), r, result) ==
  CallThen(program, Unwound, LAMBDA st, threw :
    Contents(st, r) = IF threw THEN Old(r) ELSE result)

Hows == {"copy", "move"}
\* An element of the ring itself is passed by const reference.
HowFor(from) == IF from \in Slots THEN {"copy"} ELSE Hows

try_emplace_back(r, how, from) ==
  /\ size_[r] < Capacity
  /\ CallStrong(EmplaceBack(r, head_[r], size_[r], how, from), Undo, r,
                Append(Old(r), ValueOf(from)))

try_emplace_front(r, how, from) ==
  /\ size_[r] < Capacity
  /\ CallStrong(EmplaceFront(r, head_[r], size_[r], how, from), UndoFront, r,
                <<ValueOf(from)>> \o Old(r))

\* A throw by the move that follows the eviction leaves the others.
push_overwrite(r, how, from) ==
  /\ size_[r] = Capacity
  /\ CallThen(PushOverwrite(r, head_[r], size_[r], how, from), Undo, LAMBDA st, threw :
       Contents(st, r) \in IF threw THEN {Old(r), Tail(Old(r))}
                           ELSE {Append(Tail(Old(r)), ValueOf(from))})

pop_front(r) ==
  /\ size_[r] > 0
  /\ CallStrong(PopFront(r, head_[r], size_[r]), Neutral, r, Tail(Old(r)))

pop_back(r) ==
  /\ size_[r] > 0
  /\ CallStrong(PopBack(r, head_[r], size_[r]), Neutral, r, Front(Old(r)))

clear(r) == CallStrong(Clear(r, head_[r], size_[r]), Neutral, r, <<>>)

\* Assignment keeps the head where clear() leaves it.
AssignFrom(r, how, q) ==
  Clear(r, head_[r], size_[r]) \o AppendAll(r, physical_index(head_[r], size_[r]), how, q)

copy_assign(r, q) ==
  /\ r # q
  /\ CallThen(AssignFrom(r, "copy", q), Undo, LAMBDA st, threw :
       /\ Contents(st, q) = Old(q)
       /\ IF threw THEN IsPrefix(Contents(st, r), Old(q)) ELSE Contents(st, r) = Old(q))

move_assign(r, q) ==
  /\ r # q
  /\ CallThen(AssignFrom(r, "move", q) \o Clear(q, head_[q], size_[q]), Undo,
       LAMBDA st, threw : IF threw THEN IsPrefix(Contents(st, r), Old(q))
                          ELSE Contents(st, r) = Old(q) /\ Contents(st, q) = <<>>)

\* A constructor starts from an empty ring and, when it throws, destroys it.
Construct(r, how, q, more) ==
  /\ r # q /\ size_[r] = 0 /\ head_[r] = 0
  /\ CallThen(AppendAll(r, 0, how, q) \o more, LAMBDA st, i : Cleared(Undo(st, i), r),
       LAMBDA st, threw : Contents(st, r) = IF threw THEN <<>> ELSE Old(q))

copy_construct(r, q) == Construct(r, "copy", q, <<>>)
move_construct(r, q) == Construct(r, "move", q, Clear(q, head_[q], size_[q]))

\* A swap that throws leaves each ring owning exactly what it holds.
swap_core(r, q) ==
  /\ r # q
  /\ CallThen(IF size_[r] < size_[q] THEN SwapCore(r, q) ELSE SwapCore(q, r), Undo,
       LAMBDA st, threw : threw \/ (Contents(st, r) = Old(q) /\ Contents(st, q) = Old(r)))

Next == \E r \in Rings :
  \/ \E from \in Sources(r) : \E how \in HowFor(from) :
       \/ try_emplace_back(r, how, from) \/ try_emplace_front(r, how, from)
       \/ push_overwrite(r, how, from)
  \/ pop_front(r) \/ pop_back(r) \/ clear(r)
  \/ \E q \in Rings : \/ copy_construct(r, q) \/ move_construct(r, q)
                      \/ copy_assign(r, q) \/ move_assign(r, q) \/ swap_core(r, q)

Spec == Init /\ [][Next]_vars

-----------------------------------------------------------------------------
TypeOK ==
  /\ cells \in [Slots -> Values \cup {Raw, Moved}]
  /\ size_ \in [Rings -> 0 .. Capacity] /\ head_ \in [Rings -> 0 .. Capacity - 1]
  /\ ok \in BOOLEAN /\ kept \in BOOLEAN

(***************************************************************************)
(* After every call and every throw the objects in a ring's storage are    *)
(* exactly the size() slots from its head on, around the end: none leaked, *)
(* none built over, none destroyed twice (detail/ring_core.hpp:315-326,    *)
(* 405-413).                                                               *)
(***************************************************************************)
LifetimesExact ==
  ok /\ \A r \in Rings :
    {i \in 0 .. Capacity - 1 : cells[<<r, i>>] # Raw} =
    {(head_[r] + i) % Capacity : i \in 0 .. size_[r] - 1}

(***************************************************************************)
(* A returned call leaves the sequence its documentation says, also when   *)
(* its argument is an element of the ring; an insertion that throws leaves *)
(* the ring as it was (ring_buffer.hpp:80-98, detail/ring_core.hpp:310-328,*)
(* fixed_deque.hpp:83-104).                                                *)
(***************************************************************************)
CallsAsPromised == kept

=============================================================================
