----------------------------- MODULE FixedVector -----------------------------
(***************************************************************************)
(* metl::fixed_vector (fixed_vector.hpp): every operation that changes a   *)
(* vector, on vectors that may be each other's source, with arguments that *)
(* may be elements of the vector itself, and with element operations that  *)
(* may throw at any step.  A refused try_ call changes nothing and is a    *)
(* stuttering step.  Indices are the code's, from 0.                       *)
(***************************************************************************)
EXTENDS Lifetimes, FiniteSets, FiniteSetsExt

CONSTANTS Vecs, Capacity, Values

VARIABLES
  cells,    \* [Vecs \X slots -> Raw, Moved or a value]
  size_,    \* [Vecs -> 0 .. Capacity]
  ok,       \* no operation was performed on a cell in the wrong state
  kept      \* the last call did what its documentation promises

vars == <<cells, size_, ok, kept>>

Slots == Vecs \X (0 .. Capacity - 1)

Init ==
  /\ cells = [c \in Slots |-> Raw]
  /\ size_ = [v \in Vecs |-> 0]
  /\ ok = TRUE /\ kept = TRUE

\* Cells outside the vectors: arguments, and the locals `value` and `copy`.
Arg(x) == <<"arg", x>>
Locals == {<<"local", n>> : n \in {"value", "copy", "swap"}}
Local(n) == <<"local", n>>
Outside == {Arg(x) : x \in Values} \cup Locals

Before ==
  [cells |-> [c \in Slots \cup Outside |->
      IF c \in Slots THEN cells[c] ELSE IF c \in Locals THEN Raw ELSE c[2]],
   fields |-> size_, ok |-> TRUE]

Contents(st, v) == [i \in 1 .. st.fields[v] |-> st.cells[<<v, i - 1>>]]
Old(v) == [i \in 1 .. size_[v] |-> cells[<<v, i - 1>>]]
ValueOf(from) == IF from \in Slots THEN cells[from] ELSE from[2]

\* What an argument by reference may be: an element of the vector, or not.
Sources(v) == {Arg(x) : x \in Values} \cup {<<v, i>> : i \in 0 .. size_[v] - 1}

\* A call ends in one of its program's outcomes, of which its documentation
\* says what it Promised.
CallThen(program, Unwound(_, _), Promised(_, _)) ==
  \E o \in Outcomes(Before, program, Unwound) :
    /\ cells' = [c \in Slots |-> o.st.cells[c]]
    /\ size_' = o.st.fields
    /\ ok' = o.st.ok
    /\ kept' = Promised(o.st, o.threw)

\* A call that, when it returns, leaves v as `result`.
Call(program, v, result) ==
  CallThen(program, Neutral, LAMBDA st, threw : threw \/ Contents(st, v) = result)

-----------------------------------------------------------------------------
\* The programs, on a vector v of n elements.

\* The slot is claimed before the constructor runs and released if it throws:
\* seen from outside the call, the count follows the construction.  What a
\* constructor that calls back sees is in SequenceReentry.
EmplaceBack(v, n, how, from) ==
  <<[op |-> how, to |-> <<v, n>>, from |-> from], Set(v, n + 1)>>

\* pop_back, until m elements are left.
PopBack(v, n, m) ==
  FlattenSeq([k \in 1 .. n - m |-> <<Set(v, n - k), Destroy(<<v, n - k>>)>>])

Emplace(v, n, i, how, from) ==
  IF i = n THEN EmplaceBack(v, n, how, from)
  ELSE <<[op |-> how, to |-> Local("value"), from |-> from],
         Move(<<v, n>>, <<v, n - 1>>), Set(v, n + 1)>>
       \o [k \in 1 .. n - 1 - i |-> AssignMove(<<v, n - k>>, <<v, n - k - 1>>)]
       \o <<AssignMove(<<v, i>>, Local("value")), Destroy(Local("value"))>>

InsertCopies(v, n, i, m, from) ==
  IF m = 0 THEN <<>>
  ELSE <<Copy(Local("copy"), from)>>
       \o FlattenSeq([k \in 1 .. m |-> Emplace(v, n + k - 1, i + k - 1, "copy", Local("copy"))])
       \o <<Destroy(Local("copy"))>>

InsertRange(v, n, i, range) ==
  FlattenSeq([k \in 1 .. Len(range) |-> Emplace(v, n + k - 1, i + k - 1, "copy", range[k])])

AppendAll(v, n, how, range) ==
  FlattenSeq([k \in 1 .. Len(range) |-> EmplaceBack(v, n + k - 1, how, range[k])])

EraseRange(v, n, i, j) ==
  [k \in 1 .. n - j |-> AssignMove(<<v, i + k - 1>>, <<v, j + k - 1>>)]
  \o <<Set(v, n - (j - i))>>
  \o [k \in 1 .. j - i |-> Destroy(<<v, n - (j - i) + k - 1>>)]

ExchangeCells(c, d) ==
  <<Move(Local("swap"), c), AssignMove(c, d), AssignMove(d, Local("swap")),
    Destroy(Local("swap"))>>

\* Fault: the shorter vector's new size is stored once, after the moves.
Swap_CountedLate(v, w, n, m) ==
  FlattenSeq([k \in 1 .. n |-> ExchangeCells(<<v, k - 1>>, <<w, k - 1>>)])
  \o [k \in 1 .. m - n |-> Move(<<v, n + k - 1>>, <<w, n + k - 1>>)]
  \o <<Set(v, m)>>
  \o [k \in 1 .. m - n |-> Destroy(<<w, m - k>>)] \o <<Set(w, n)>>

\* swap, where v is the shorter (n elements) and w the longer (m).
Swap(v, w, n, m) ==
  FlattenSeq([k \in 1 .. n |-> ExchangeCells(<<v, k - 1>>, <<w, k - 1>>)])
  \o FlattenSeq([k \in 1 .. m - n |-> EmplaceBack(v, n + k - 1, "move", <<w, n + k - 1>>)])
  \o [k \in 1 .. m - n |-> Destroy(<<w, m - k>>)] \o <<Set(w, n)>>

\* erase_if keeps the elements at the indices `keep`.
EraseIf(v, n, keep) ==
  FlattenSeq([k \in 1 .. n |->
    LET read  == k - 1
        write == Cardinality({i \in keep : i < read})
    IN  <<UserCall>> \o (IF read \in keep /\ write # read
                         THEN <<AssignMove(<<v, write>>, <<v, read>>)>> ELSE <<>>)])
  \o PopBack(v, n, Cardinality(keep))

\* The elements of w, as arguments.
Elements(w) == [k \in 1 .. size_[w] |-> <<w, k - 1>>]
Times(m, from) == [k \in 1 .. m |-> from]
Inserted(s, i, t) == SubSeq(s, 1, i) \o t \o SubSeq(s, i + 1, Len(s))

\* What is left of v when an argument is passed by reference, or moved.
Left(v, how, from) ==
  IF how = "move" THEN [Old(v) EXCEPT ![from[2] + 1] = Moved] ELSE Old(v)
Arguments(v) ==
  ({"copy"} \X Sources(v)) \cup ({"move"} \X {<<v, i>> : i \in 0 .. size_[v] - 1})

-----------------------------------------------------------------------------
try_emplace_back(v, how, from) ==
  /\ size_[v] < Capacity
  /\ CallThen(EmplaceBack(v, size_[v], how, from), Neutral,
       LAMBDA st, threw : Contents(st, v) =
         IF threw THEN Old(v) ELSE Append(Left(v, how, from), ValueOf(from)))

pop_back(v) ==
  /\ size_[v] > 0
  /\ Call(PopBack(v, size_[v], size_[v] - 1), v, Front(Old(v)))

clear(v) == Call(PopBack(v, size_[v], 0), v, <<>>)

emplace(v, i, how, from) ==
  /\ size_[v] < Capacity /\ i < size_[v]
  /\ Call(Emplace(v, size_[v], i, how, from), v,
          Inserted(Left(v, how, from), i, <<ValueOf(from)>>))

insert_n(v, i, m, from) ==
  /\ i <= size_[v] /\ m <= Capacity - size_[v]
  /\ Call(InsertCopies(v, size_[v], i, m, from), v,
          Inserted(Old(v), i, Times(m, ValueOf(from))))

insert_range(v, i, w) ==
  /\ v # w /\ i <= size_[v] /\ size_[w] <= Capacity - size_[v]
  /\ Call(InsertRange(v, size_[v], i, Elements(w)), v, Inserted(Old(v), i, Old(w)))

erase(v, i, j) ==
  /\ i < j /\ j <= size_[v]
  /\ Call(EraseRange(v, size_[v], i, j), v,
          SubSeq(Old(v), 1, i) \o SubSeq(Old(v), j + 1, size_[v]))

resize(v, m, from) ==
  /\ m <= Capacity
  /\ IF m < size_[v] THEN Call(PopBack(v, size_[v], m), v, SubSeq(Old(v), 1, m))
     ELSE Call(AppendAll(v, size_[v], "copy", Times(m - size_[v], from)), v,
               Old(v) \o Times(m - size_[v], ValueOf(from)))

assign_n(v, m, from) ==
  /\ m <= Capacity
  /\ Call(<<Copy(Local("copy"), from)>> \o PopBack(v, size_[v], 0)
            \o AppendAll(v, 0, "copy", Times(m, Local("copy"))) \o <<Destroy(Local("copy"))>>,
          v, Times(m, ValueOf(from)))

\* assign of another vector's range, and copy assignment.
assign_range(v, w) ==
  /\ v # w
  /\ Call(PopBack(v, size_[v], 0) \o AppendAll(v, 0, "copy", Elements(w)), v, Old(w))

\* Move construction and move assignment: the source ends empty.
MovedOver(v, w, Unwound(_, _)) ==
  /\ v # w
  /\ CallThen(PopBack(v, size_[v], 0) \o AppendAll(v, 0, "move", Elements(w))
                \o PopBack(w, size_[w], 0),
       Unwound,
       LAMBDA st, threw : threw \/ (Contents(st, v) = Old(w) /\ Contents(st, w) = <<>>))

move_assign(v, w) == MovedOver(v, w, Neutral)

\* A constructor that throws destroys what it has built: v is empty again.
Destroyed(st, v) == RunAll(st, PopBack(v, st.fields[v], 0))

copy_construct(v, w) ==
  /\ v # w /\ size_[v] = 0
  /\ CallThen(AppendAll(v, 0, "copy", Elements(w)), LAMBDA st, i : Destroyed(st, v),
       LAMBDA st, threw : Contents(st, v) = IF threw THEN <<>> ELSE Old(w))

move_construct(v, w) == size_[v] = 0 /\ MovedOver(v, w, LAMBDA st, i : Destroyed(st, v))

swap(v, w) ==
  /\ v # w
  /\ CallThen(IF size_[v] < size_[w] THEN Swap(v, w, size_[v], size_[w])
              ELSE Swap(w, v, size_[w], size_[v]),
       Neutral,
       LAMBDA st, threw : threw \/ (Contents(st, v) = Old(w) /\ Contents(st, w) = Old(v)))

erase_if(v, keep) ==
  Call(EraseIf(v, size_[v], keep), v,
       LET kept_at == SetToSortSeq(keep, <)
       IN  [k \in 1 .. Len(kept_at) |-> Old(v)[kept_at[k] + 1]])

Next == \E v \in Vecs :
  \/ pop_back(v) \/ clear(v)
  \/ \E a \in Arguments(v) :
       \/ try_emplace_back(v, a[1], a[2])
       \/ \E i \in 0 .. Capacity : emplace(v, i, a[1], a[2])
  \/ \E from \in Sources(v), m \in 0 .. Capacity :
       \/ resize(v, m, from) \/ assign_n(v, m, from)
       \/ \E i \in 0 .. Capacity : insert_n(v, i, m, from)
  \/ \E i, j \in 0 .. Capacity : erase(v, i, j)
  \/ \E keep \in SUBSET (0 .. size_[v] - 1) : erase_if(v, keep)
  \/ \E w \in Vecs :
       \/ \E i \in 0 .. Capacity : insert_range(v, i, w)
       \/ assign_range(v, w) \/ move_assign(v, w) \/ swap(v, w)
       \/ copy_construct(v, w) \/ move_construct(v, w)

Spec == Init /\ [][Next]_vars

-----------------------------------------------------------------------------
TypeOK ==
  /\ cells \in [Slots -> Values \cup {Raw, Moved}]
  /\ size_ \in [Vecs -> 0 .. Capacity]
  /\ ok \in BOOLEAN /\ kept \in BOOLEAN

(***************************************************************************)
(* After every call, thrown out of or not, the objects in a vector's       *)
(* storage are exactly its first size() elements, and no call has built on *)
(* a live object, or read, assigned to or destroyed a dead one: nothing    *)
(* leaks and nothing is destroyed twice (fixed_vector.hpp:153-157,         *)
(* 485-498, 712-730).                                                      *)
(***************************************************************************)
LifetimesExact ==
  ok /\ \A v \in Vecs, i \in 0 .. Capacity - 1 : i < size_[v] <=> cells[<<v, i>>] # Raw

(***************************************************************************)
(* A call that returns leaves the sequence its documentation names, also   *)
(* when an argument is an element of the vector that the call shifts,      *)
(* clears or moves from; one that throws while appending or constructing   *)
(* leaves the contents as they were (fixed_vector.hpp:331-335, 484-486,    *)
(* 511-513, 651-653).                                                      *)
(***************************************************************************)
CallsAsPromised == kept

=============================================================================
