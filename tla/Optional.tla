------------------------------- MODULE Optional -------------------------------
(***************************************************************************)
(* metl::optional (optional.hpp).  Every operation that changes one is a   *)
(* program of element operations, any of which may throw.                  *)
(***************************************************************************)
EXTENDS Lifetimes

CONSTANTS Optionals, Values, Gone

VARIABLES
  T,             \* what the element type can do
  cells,
  has_value_,    \* Gone: the optional is not in scope
  ok, kept,      \* as in FixedVector
  unseen         \* no destructor found its optional engaged

vars == <<T, cells, has_value_, ok, kept, unseen>>

Init ==
  /\ T \in [movable : BOOLEAN, assignable : BOOLEAN]
  /\ cells = [o \in Optionals |-> Raw]
  /\ has_value_ = [o \in Optionals |-> Gone]
  /\ ok = TRUE /\ kept = TRUE /\ unseen = TRUE

Arg(x) == <<"arg", x>>
Incoming == <<"local", 1>>
Args == {Arg(x) : x \in Values}

Before ==
  [cells |-> [c \in Optionals \cup Args \cup {Incoming} |->
      IF c \in Optionals THEN cells[c] ELSE IF c = Incoming THEN Raw ELSE c[2]],
   fields |-> has_value_, ok |-> TRUE]

Engaged(o) == has_value_[o] = TRUE

\* What an optional holds: <<>> or <<value>>.
Held(c, has) == IF has = TRUE THEN <<c>> ELSE IF has = FALSE THEN <<>> ELSE Gone
Contents(st, o) == Held(st.cells[o], st.fields[o])
Old(o) == Held(cells[o], has_value_[o])

ValueOf(from) == IF from \in Optionals THEN cells[from] ELSE from[2]

-----------------------------------------------------------------------------
construct(o, how, from) == <<[op |-> how, to |-> o, from |-> from], Set(o, TRUE)>>

reset(o) == IF Engaged(o) THEN <<Set(o, FALSE), Destroy(o)>> ELSE <<>>

assign_or_construct(o, how, from) ==
  IF Engaged(o) /\ T.assignable
  THEN <<IF how = "move" THEN AssignMove(o, from) ELSE AssignCopy(o, from)>>
  ELSE reset(o) \o construct(o, how, from)

EmplaceSteps(o, how, from) ==
  IF T.movable /\ Engaged(o)
  THEN <<[op |-> how, to |-> Incoming, from |-> from]>> \o reset(o)
       \o construct(o, "move", Incoming) \o <<Destroy(Incoming)>>
  ELSE reset(o) \o construct(o, how, from)

\* The value of one side goes to the other, which holds none.
Hand(from, to) == construct(to, "move", from) \o reset(from)

SwapSteps(o, q) ==
  CASE Engaged(o) /\ Engaged(q)  -> <<Move(Incoming, o), AssignMove(o, q),
                                      AssignMove(q, Incoming), Destroy(Incoming)>>
    [] Engaged(o) /\ ~Engaged(q) -> Hand(o, q)
    [] ~Engaged(o) /\ Engaged(q) -> Hand(q, o)
    [] OTHER                     -> <<>>

\* The optional a callback returns, empty or holding x[1].
Returned(r, x) ==
  <<UserCall, Set(r, FALSE)>> \o IF x = <<>> THEN <<>> ELSE construct(r, "copy", Arg(x[1]))

\* A callback given the value as an rvalue takes it.
Passed(o, how) == IF how = "move" THEN <<Move(Incoming, o), Destroy(Incoming)>> ELSE <<>>

AndThenSteps(o, r, how, x) ==
  IF Engaged(o) THEN Passed(o, how) \o Returned(r, x) ELSE <<Set(r, FALSE)>>

OrElseSteps(o, r, how, x) ==
  IF Engaged(o) THEN <<Set(r, FALSE)>> \o construct(r, how, o) ELSE Returned(r, x)

-----------------------------------------------------------------------------
\* No step of the program destroys a value whose optional reads engaged.
Unseen(program) == \A k \in 1 .. Len(program) :
  program[k].op = "destroy" /\ program[k].to \in Optionals =>
    Run(Before, program, k - 1).fields[program[k].to] = FALSE

CallThen(program, Unwound(_, _), Promised(_, _)) ==
  \E o \in Outcomes(Before, program, Unwound) :
    /\ cells' = [c \in Optionals |-> o.st.cells[c]]
    /\ has_value_' = o.st.fields
    /\ ok' = o.st.ok
    /\ kept' = Promised(o.st, o.threw)
    /\ unseen' = Unseen(program)
    /\ UNCHANGED T

\* A call that leaves o holding `result`, or as it was if it throws.
CallStrong(program, o, result) ==
  CallThen(program, Neutral, LAMBDA st, threw :
    Contents(st, o) = IF threw THEN Old(o) ELSE result)

\* A constructor of r that throws leaves no r.
ConstructThen(program, r, Promised(_)) ==
  /\ has_value_[r] = Gone
  /\ CallThen(program, LAMBDA st, i : [st EXCEPT !.fields[r] = Gone],
       LAMBDA st, threw : IF threw THEN Contents(st, r) = Gone ELSE Promised(st))

Alive(o) == has_value_[o] # Gone

optional(o, how, from) ==
  ConstructThen(<<Set(o, FALSE)>> \o construct(o, how, from), o,
    LAMBDA st : Contents(st, o) = <<ValueOf(from)>>)

\* The source stays engaged, its value moved from.
copy_or_move_construct(o, how, q) ==
  /\ Alive(q) /\ T.movable
  /\ ConstructThen(<<Set(o, FALSE)>> \o IF Engaged(q) THEN construct(o, how, q) ELSE <<>>, o,
       LAMBDA st : Contents(st, o) = Old(q) /\ st.fields[q] = has_value_[q])

destructor(o) == Alive(o) /\ CallStrong(reset(o) \o <<Set(o, Gone)>>, o, Gone)

\* reset() and the assignment of nullopt.
reset_call(o) == Alive(o) /\ CallStrong(reset(o), o, <<>>)

\* A type without assignment is replaced: a throw leaves the optional empty.
copy_or_move_assign(o, how, q) ==
  /\ Alive(o) /\ Alive(q) /\ o # q /\ T.movable
  /\ CallThen(IF Engaged(q) THEN assign_or_construct(o, how, q) ELSE reset(o), Neutral,
       LAMBDA st, threw :
         /\ st.fields[q] = has_value_[q]
         /\ Contents(st, o) = IF ~threw THEN Old(q)
                              ELSE IF T.assignable THEN Old(o) ELSE <<>>)

assign_value(o, how, from) ==
  /\ Alive(o) /\ T.assignable
  /\ CallStrong(assign_or_construct(o, how, from), o, <<ValueOf(from)>>)

\* A throw by the constructor leaves the old value, one by the move of the
\* value built nothing.
emplace(o, how, from) ==
  /\ Alive(o)
  /\ CallThen(EmplaceSteps(o, how, from), Neutral, LAMBDA st, threw :
       Contents(st, o) = CASE ~threw -> <<ValueOf(from)>>
                           [] threw /\ st.cells[Incoming] = Raw /\ T.movable -> Old(o)
                           [] OTHER -> <<>>)

swap(o, q) ==
  /\ Alive(o) /\ Alive(q) /\ o # q /\ T.movable
  /\ CallThen(SwapSteps(o, q), Neutral, LAMBDA st, threw :
       IF ~threw THEN Contents(st, o) = Old(q) /\ Contents(st, q) = Old(o)
       ELSE st.fields = has_value_)

\* and_then, and transform, whose callback always gives a value.
and_then(o, r, how, x) ==
  /\ Alive(o) /\ T.movable
  /\ ConstructThen(AndThenSteps(o, r, how, x), r, LAMBDA st :
       Contents(st, r) = IF Engaged(o) THEN x ELSE <<>>)

or_else(o, r, how, x) ==
  /\ Alive(o) /\ T.movable
  /\ ConstructThen(OrElseSteps(o, r, how, x), r, LAMBDA st :
       Contents(st, r) = IF Engaged(o) THEN Old(o) ELSE x)

Hows == {"copy", "move"}
Results == {<<>>} \cup {<<x>> : x \in Values}
\* A call may be given the value the optional holds.
Aliased(o) == IF Engaged(o) /\ T.movable THEN {o} ELSE {}

Next == \E o \in Optionals :
  \/ destructor(o) \/ reset_call(o)
  \/ \E from \in Args, how \in Hows : optional(o, how, from) \/ assign_value(o, how, from)
  \/ \E from \in Args \cup Aliased(o), how \in Hows : emplace(o, how, from)
  \/ \E from \in Aliased(o) : assign_value(o, "copy", from)
  \/ \E q \in Optionals :
       \/ swap(o, q)
       \/ \E how \in Hows : copy_or_move_construct(o, how, q) \/ copy_or_move_assign(o, how, q)
       \/ \E how \in Hows, x \in Results : and_then(o, q, how, x) \/ or_else(o, q, how, x)

Spec == Init /\ [][Next]_vars

-----------------------------------------------------------------------------
\* Comparisons of what two optionals hold, each written out as the code has it.
eq(l, r) == IF (l # <<>>) # (r # <<>>) THEN FALSE ELSE l = <<>> \/ l[1] = r[1]
ne(l, r) == IF (l # <<>>) # (r # <<>>) THEN TRUE ELSE l # <<>> /\ l[1] # r[1]

lt(l, r) == r # <<>> /\ (l = <<>> \/ l[1] < r[1])
le(l, r) == l = <<>> \/ (r # <<>> /\ l[1] <= r[1])
gt(l, r) == l # <<>> /\ (r = <<>> \/ l[1] > r[1])
ge(l, r) == r = <<>> \/ (l # <<>> /\ l[1] >= r[1])

\* With a value on the right.
eq_value(l, v) == IF l # <<>> THEN l[1] = v ELSE FALSE
lt_value(l, v) == IF l # <<>> THEN l[1] < v ELSE TRUE
le_value(l, v) == IF l # <<>> THEN l[1] <= v ELSE TRUE
gt_value(l, v) == IF l # <<>> THEN l[1] > v ELSE FALSE
ge_value(l, v) == IF l # <<>> THEN l[1] >= v ELSE FALSE

\* With nullopt on the right.
lt_null(l) == FALSE
le_null(l) == l = <<>>
gt_null(l) == l # <<>>
ge_null(l) == TRUE

three_way(l, r) ==
  IF l # <<>> /\ r # <<>> THEN l[1] - r[1] ELSE Len(l) - Len(r)

-----------------------------------------------------------------------------
TypeOK ==
  /\ T \in [movable : BOOLEAN, assignable : BOOLEAN]
  /\ cells \in [Optionals -> Values \cup {Raw, Moved}]
  /\ has_value_ \in [Optionals -> BOOLEAN \cup {Gone}]
  /\ ok \in BOOLEAN /\ kept \in BOOLEAN /\ unseen \in BOOLEAN

(***************************************************************************)
(* After every call and every throw an optional's storage holds an object  *)
(* exactly when has_value() says so, and no step read, built over or       *)
(* destroyed what was not there (optional.hpp:329-377, 525-544).           *)
(***************************************************************************)
LifetimesExact == ok /\ \A o \in Optionals : (cells[o] # Raw) <=> Engaged(o)

(***************************************************************************)
(* A returned call leaves the optional holding what its documentation      *)
(* says, also when emplace is given the current value; one that throws     *)
(* leaves the old value or nothing, as documented (optional.hpp:320-328,   *)
(* 133, 155, 362, 381-383, 471).                                           *)
(***************************************************************************)
CallsAsPromised == kept

(***************************************************************************)
(* A value's destructor finds its optional empty, whichever operation      *)
(* destroys it, so that a reset() from inside it destroys nothing          *)
(* (optional.hpp:346-359).                                                 *)
(***************************************************************************)
EmptyBeforeDestruction == unseen

\* The place of an optional in the order: empty is below every value.
Rank(l) == IF l = <<>> THEN 0 ELSE l[1]
Comparable == {Old(o) : o \in {p \in Optionals : Alive(p) /\ cells[p] # Moved}}

(***************************************************************************)
(* The six operators, the three-way one, and those with nullopt and with a *)
(* plain value all follow one order, with empty least, on whatever two     *)
(* optionals hold (optional.hpp:580-779).                                  *)
(***************************************************************************)
OneOrder == \A l, r \in Comparable :
  LET i == Rank(l)
      j == Rank(r)
  IN  /\ eq(l, r) = (i = j) /\ ne(l, r) = (i # j)
      /\ lt(l, r) = (i < j) /\ le(l, r) = (i <= j)
      /\ gt(l, r) = (i > j) /\ ge(l, r) = (i >= j)
      /\ (three_way(l, r) < 0) = (i < j) /\ (three_way(l, r) = 0) = (i = j)
      /\ r # <<>> => /\ eq_value(l, r[1]) = (i = j)
                     /\ lt_value(l, r[1]) = (i < j) /\ le_value(l, r[1]) = (i <= j)
                     /\ gt_value(l, r[1]) = (i > j) /\ ge_value(l, r[1]) = (i >= j)
      /\ r = <<>> => /\ lt_null(l) = (i < j) /\ le_null(l) = (i <= j)
                     /\ gt_null(l) = (i > j) /\ ge_null(l) = (i >= j)

=============================================================================
