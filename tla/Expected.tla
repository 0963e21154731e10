------------------------------- MODULE Expected -------------------------------
(***************************************************************************)
(* metl::expected<T, E> and expected<void, E> (expected.hpp): a value or   *)
(* an error in one storage.                                                *)
(* Every operation that changes one is a program of element operations; a  *)
(* switch that throws half-way moves the old member back from a backup, a  *)
(* move that may throw as well.                                            *)
(***************************************************************************)
EXTENDS Lifetimes

CONSTANTS
  Expecteds, Values, Gone,
  Kinds,                  \* the pairs of element types T and E considered
  CopyConstructorThrows   \* an element's copy may throw while an expected is copied

Members == {"value", "error"}
\* An element type cannot be moved, moves without throwing, or may throw.
MoveKinds == {"fixed", "nothrow", "throwing"}

VARIABLES
  kinds, cells, state_,
  ok, kept, unseen     \* as in Optional

vars == <<kinds, cells, state_, ok, kept, unseen>>

Storage == Expecteds \X Members

Init ==
  /\ kinds \in Kinds
  /\ cells = [c \in Storage |-> Raw]
  /\ state_ = [x \in Expecteds |-> Gone]
  /\ ok = TRUE /\ kept = TRUE /\ unseen = TRUE

Other(m) == CHOOSE n \in Members : n # m
Arg(v) == <<v, "arg">>
Args == {Arg(v) : v \in Values}
Incoming(m) == <<"incoming", m>>
Backup(m) == <<"backup", m>>
Locals == {"incoming", "backup"} \X Members

Before ==
  [cells |-> [c \in Storage \cup Args \cup Locals |->
      IF c \in Storage THEN cells[c] ELSE IF c \in Args THEN c[1] ELSE Raw],
   fields |-> state_, ok |-> TRUE]

Movable(m) == kinds[m] # "fixed"
Settled(x) == state_[x] \in Members

Holds(st, x) == IF st.fields[x] \in Members
                THEN <<st.fields[x], st.cells[<<x, st.fields[x]>>]>> ELSE <<st.fields[x]>>
Old(x) == Holds(Before, x)
ValueOf(from) == Before.cells[from]

-----------------------------------------------------------------------------
\* The programs.  A fixed type is built from arguments by "copy" or, when that
\* constructor is noexcept, by "move".
Build(to, how, from) == [op |-> how, to |-> to, from |-> from]

\* Fault: the discriminant keeps naming the member being destroyed.
Replaced_StateKept(x, old, new, build, backed) ==
  (IF backed THEN <<Move(Backup(old), <<x, old>>)>> ELSE <<>>)
  \o <<Destroy(<<x, old>>), build, Set(x, new)>>

\* Destroys the old member and builds the new one in its place.
Replaced(x, old, new, build, backed) ==
  (IF backed THEN <<Move(Backup(old), <<x, old>>)>> ELSE <<>>)
  \o <<Set(x, "switching"), Destroy(<<x, old>>), build, Set(x, new)>>

replace_live(x, m, how, from) ==
  IF ~Movable(m) THEN Replaced(x, m, m, Build(<<x, m>>, how, from), FALSE)
  ELSE <<Build(Incoming(m), how, from)>>
       \o Replaced(x, m, m, Move(<<x, m>>, Incoming(m)), kinds[m] = "throwing")

\* reinit_as_value and commit_value, or reinit_as_error and commit_error.
reinit_as(x, m, how, from) ==
  IF Movable(m)
  THEN <<Build(Incoming(m), how, from)>>
       \o Replaced(x, Other(m), m, Move(<<x, m>>, Incoming(m)), kinds[m] = "throwing")
  ELSE Replaced(x, Other(m), m, Build(<<x, m>>, how, from), how # "move")

\* Instantiated only for types whose backup can be made.
Compiles(m, how) ==
  (kinds[m] = "throwing" \/ (~Movable(m) /\ how # "move")) => Movable(Other(m))

EmplaceSteps(x, m, how, from) ==
  IF state_[x] = m THEN replace_live(x, m, how, from) ELSE reinit_as(x, m, how, from)

assign_or_rebind(x, m, how, from) ==
  IF state_[x] = m
  THEN <<IF how = "move" THEN AssignMove(<<x, m>>, from) ELSE AssignCopy(<<x, m>>, from)>>
  ELSE reinit_as(x, m, how, from)

\* v holds a value and e an error.  The side whose move cannot throw waits in
\* a local.
swap_value_error(v, e) ==
  LET aside == IF kinds["error"] = "nothrow" THEN "error" ELSE "value"
      from  == IF aside = "error" THEN e ELSE v
      into  == IF aside = "error" THEN v ELSE e
      other == Other(aside)
  IN  <<Set(v, "switching"), Set(e, "switching"),
        Move(Backup(aside), <<from, aside>>), Destroy(<<from, aside>>),
        Move(<<from, other>>, <<into, other>>), Destroy(<<into, other>>),
        Move(<<into, aside>>, Backup(aside)), Set(v, "error"), Set(e, "value")>>

SwapSteps(x, y) ==
  LET m == state_[x]
  IN  IF state_[y] = m
      THEN <<Move(Incoming(m), <<x, m>>), AssignMove(<<x, m>>, <<y, m>>),
             AssignMove(<<y, m>>, Incoming(m)), Destroy(Incoming(m))>>
      ELSE IF m = "value" THEN swap_value_error(x, y) ELSE swap_value_error(y, x)

\* What a callback returns into r.
Returned(r, m, from) == <<UserCall, Build(<<r, m>>, "copy", from), Set(r, m)>>

\* A callback given the member as an rvalue takes it.
Passed(x, m, how) ==
  IF how = "move" THEN <<Move(Incoming(m), <<x, m>>), Destroy(Incoming(m))>> ELSE <<>>

\* and_then forwards the error through an `unexpected`, or_else the value.
Chained(x, r, m, how, n, from) ==
  LET o == Other(m)
  IN  IF state_[x] = m THEN Passed(x, m, how) \o Returned(r, n, from)
      ELSE IF o = "error"
      THEN <<Build(Incoming(o), how, <<x, o>>), Move(<<r, o>>, Incoming(o)), Set(r, o)>>
      ELSE <<Build(<<r, o>>, how, <<x, o>>), Set(r, o)>>

\* transform and transform_error.
Transformed(x, r, m, how, from) ==
  LET o == Other(m)
  IN  IF state_[x] = m THEN Passed(x, m, how) \o Returned(r, m, from)
      ELSE <<Build(<<r, o>>, how, <<x, o>>), Set(r, o)>>

-----------------------------------------------------------------------------
CanThrow(i) == Throwing(i) /\ (i.op = "move" => kinds[i.to[2]] = "throwing")

\* A throw while a backup is held moves the backup home; that move may throw
\* again.
Unwound(st, i, again) ==
  LET held == {m \in Members : st.cells[Backup(m)] # Raw}
      old  == CHOOSE m \in held : TRUE
      back == Exec(st, Move(<<i.to[1], old>>, Backup(old)))
  IN  CASE held = {} \/ i.to \notin Storage      -> st
        [] again /\ kinds[old] = "throwing"      -> st
        [] OTHER                                 -> [back EXCEPT !.fields = state_]

\* A member's destructor finds the expected switching.
Unseen(program) == \A k \in 1 .. Len(program) :
  program[k].op = "destroy" /\ program[k].to \in Storage =>
    Run(Before, program, k - 1).fields[program[k].to[1]] = "switching"

\* Value and error share their storage.
Exclusive(program) == \A k \in 0 .. Len(program), x \in Expecteds :
  \E m \in Members : Run(Before, program, k).cells[<<x, m>>] = Raw

Returns(program, st, asPromised) ==
  /\ cells' = [c \in Storage |-> st.cells[c]]
  /\ state_' = st.fields
  /\ ok' = (st.ok /\ Exclusive(program))
  /\ kept' = asPromised
  /\ unseen' = Unseen(program)
  /\ UNCHANGED kinds

\* The program returns, or a step of it throws, unless none can.
CallUnless(noexcept, program, Handled(_, _, _), Promised(_, _)) ==
  \/ LET st == RunAll(Before, program) IN Returns(program, st, Promised(st, FALSE))
  \/ \E k \in 1 .. Len(program), again \in BOOLEAN :
       /\ ~noexcept /\ CanThrow(program[k])
       /\ LET st == Handled(Run(Before, program, k - 1), program[k], again)
          IN  Returns(program, st, Promised(st, TRUE))

CallThen(program, Handled(_, _, _), Promised(_, _)) ==
  CallUnless(FALSE, program, Handled, Promised)

\* A throw leaves x as it was, or switching where nothing could be put back.
AsBefore(st, x, m) ==
  \/ Holds(st, x) = Old(x)
  \/ st.fields[x] = "switching"
     /\ \/ kinds[state_[x]] = "throwing" /\ kinds[m] # "nothrow"
        \/ state_[x] = m /\ ~Movable(m)

CallStrong(program, x, m, result) ==
  CallThen(program, Unwound, LAMBDA st, threw :
    IF threw THEN AsBefore(st, x, m) ELSE Holds(st, x) = result)

\* A constructor of r that throws leaves no r.
ConstructThen(program, r, result) ==
  /\ state_[r] = Gone
  /\ CallThen(program, LAMBDA st, i, again : [st EXCEPT !.fields[r] = Gone], LAMBDA st, threw :
       Holds(st, r) = IF threw THEN <<Gone>> ELSE result)

\* From a value, an `unexpected` or a tag, built by the storage's constructor.
expected(x, m, how, from) ==
  ConstructThen(<<Build(<<x, m>>, how, from), Set(x, m)>>, x, <<m, ValueOf(from)>>)

\* The members start in the source's state and the body builds the member:
\* when that throws, the destructor of the members runs.
copy_or_move_construct(x, how, y) ==
  /\ state_[x] = Gone /\ Settled(y) /\ \A m \in Members : Movable(m)
  /\ LET m == state_[y]
         program == <<Set(x, m), Build(<<x, m>>, how, <<y, m>>)>>
     IN  CallUnless(~CopyConstructorThrows, program, LAMBDA st, i, again :
           RunAll(st, <<Set(x, "switching"), Destroy(<<x, m>>), Set(x, Gone)>>),
           LAMBDA st, threw : Holds(st, x) = IF threw THEN <<Gone>> ELSE Old(y))

destructor(x) ==
  /\ Settled(x)
  /\ CallStrong(<<Set(x, "switching"), Destroy(<<x, state_[x]>>), Set(x, Gone)>>,
                x, state_[x], <<Gone>>)

copy_or_move_assign(x, how, y) ==
  /\ Settled(x) /\ Settled(y) /\ x # y /\ \A m \in Members : Movable(m)
  /\ CallStrong(assign_or_rebind(x, state_[y], how, <<y, state_[y]>>), x, state_[y], Old(y))

\* Assigns a value or an `unexpected`.
assign(x, m, how, from) ==
  /\ Settled(x) /\ Movable(m) /\ Compiles(m, how)
  /\ CallStrong(assign_or_rebind(x, m, how, from), x, m, <<m, ValueOf(from)>>)

\* emplace and emplace_error.
emplace(x, m, how, from) ==
  /\ Settled(x) /\ Compiles(m, how)
  /\ CallStrong(EmplaceSteps(x, m, how, from), x, m, <<m, ValueOf(from)>>)

swap(x, y) ==
  /\ Settled(x) /\ Settled(y) /\ x # y
  /\ \A m \in Members : Movable(m)
  /\ \E m \in Members : kinds[m] = "nothrow"
  /\ CallThen(SwapSteps(x, y), Unwound, LAMBDA st, threw :
       IF threw THEN st.fields = state_ ELSE Holds(st, x) = Old(y) /\ Holds(st, y) = Old(x))

\* and_then for m = "value", or_else for m = "error"; f returns <<n, from>>.
chain(x, r, m, how, n, from) ==
  /\ Settled(x) /\ \A k \in Members : Movable(k)
  /\ ConstructThen(Chained(x, r, m, how, n, from), r,
       IF state_[x] = m THEN <<n, ValueOf(from)>> ELSE Old(x))

transform(x, r, m, how, from) ==
  /\ Settled(x) /\ \A k \in Members : Movable(k)
  /\ ConstructThen(Transformed(x, r, m, how, from), r,
       IF state_[x] = m THEN <<m, ValueOf(from)>> ELSE Old(x))

\* METL_HARDEN: an expected left switching stops the program when it is used.
require_settled == (\E x \in Expecteds : state_[x] = "switching") /\ UNCHANGED vars

Hows == {"copy", "move"}
\* A call may be given the member the expected holds.
Aliased(x, m) == IF Settled(x) /\ Movable(m) THEN {<<x, state_[x]>>} ELSE {}

Next ==
  \/ require_settled
  \/ \E x \in Expecteds :
       \/ destructor(x)
       \/ \E m \in Members, how \in Hows :
            \/ \E from \in Args : expected(x, m, how, from)
            \/ \E from \in Args : emplace(x, m, how, from) \/ assign(x, m, how, from)
       \/ \E m \in Members : \E from \in Aliased(x, m) :
            emplace(x, m, "copy", from) \/ assign(x, m, "copy", from)
       \/ \E y \in Expecteds :
            \/ swap(x, y)
            \/ \E how \in Hows : copy_or_move_construct(x, how, y) \/ copy_or_move_assign(x, how, y)
            \/ \E m, n \in Members, how \in Hows, from \in Args :
                 chain(x, y, m, how, n, from) \/ transform(x, y, m, how, from)

Spec == Init /\ [][Next]_vars

-----------------------------------------------------------------------------
\* expected<void, E>: an error or nothing.  The value has no storage, so that
\* an error is built in place and nothing is backed up for it.
Error(x) == <<x, "error">>
Success == <<"value", Raw>>

\* The error ends; a success stays one.
ToSuccess(x) ==
  IF state_[x] = "value" THEN <<>>
  ELSE <<Set(x, "switching"), Destroy(Error(x)), Set(x, "value")>>

ToError(x, how, from) == <<Build(Error(x), how, from), Set(x, "error")>>

void_assign_error(x, how, from) ==
  IF state_[x] = "value" THEN ToError(x, how, from)
  ELSE <<IF how = "move" THEN AssignMove(Error(x), from) ELSE AssignCopy(Error(x), from)>>

VoidEmplaceErrorSteps(x, how, from) ==
  IF state_[x] = "value" THEN ToError(x, how, from) ELSE replace_live(x, "error", how, from)

VoidSwapSteps(x, y) ==
  CASE state_[x] = "value" /\ state_[y] = "value" -> <<>>
    [] state_[x] = "error" /\ state_[y] = "error" -> SwapSteps(x, y)
    [] state_[x] = "value" /\ state_[y] = "error" -> ToError(x, "move", Error(y)) \o ToSuccess(y)
    [] OTHER                                      -> ToError(y, "move", Error(x)) \o ToSuccess(x)

\* What a callback returns into r: <<>> is a success.
VoidReturned(r, from) ==
  <<UserCall>> \o IF from = <<>> THEN <<Set(r, "value")>> ELSE ToError(r, "copy", from)

\* and_then and transform forward the error, or_else and transform_error give
\* it to the callback.
OnSuccess(x, r, how, from) ==
  IF state_[x] = "value" THEN VoidReturned(r, from) ELSE ToError(r, how, Error(x))

OnError(x, r, how, from) ==
  IF state_[x] = "value" THEN <<Set(r, "value")>>
  ELSE Passed(x, "error", how) \o VoidReturned(r, from)

Given(from) == IF from = <<>> THEN Success ELSE <<"error", ValueOf(from)>>

-----------------------------------------------------------------------------
void_expected(x) == ConstructThen(<<Set(x, "value")>>, x, Success)

unexpect(x, how, from) ==
  ConstructThen(ToError(x, how, from), x, <<"error", ValueOf(from)>>)

\* As in Expected: the body may throw after the members have taken the state.
void_copy_or_move_construct(x, how, y) ==
  /\ state_[x] = Gone /\ Settled(y) /\ Movable("error")
  /\ CallUnless(~CopyConstructorThrows,
       <<Set(x, state_[y])>> \o IF state_[y] = "value" THEN <<>>
                                ELSE <<Build(Error(x), how, Error(y))>>,
       LAMBDA st, i, again : RunAll(st, <<Set(x, "switching"), Destroy(Error(x)), Set(x, Gone)>>),
       LAMBDA st, threw : Holds(st, x) = IF threw THEN <<Gone>> ELSE Old(y))

\* ~expected of a success touches nothing.
void_destructor(x) ==
  /\ Settled(x)
  /\ CallStrong((IF state_[x] = "value" THEN <<>>
                 ELSE <<Set(x, "switching"), Destroy(Error(x))>>) \o <<Set(x, Gone)>>,
                x, state_[x], <<Gone>>)

void_copy_or_move_assign(x, how, y) ==
  /\ Settled(x) /\ Settled(y) /\ x # y /\ Movable("error")
  /\ CallStrong(IF state_[y] = "value" THEN ToSuccess(x) ELSE void_assign_error(x, how, Error(y)),
                x, "error", Old(y))

void_assign(x, how, from) ==
  /\ Settled(x) /\ Movable("error")
  /\ CallStrong(void_assign_error(x, how, from), x, "error", <<"error", ValueOf(from)>>)

void_emplace(x) == Settled(x) /\ CallStrong(ToSuccess(x), x, "value", Success)

emplace_error(x, how, from) ==
  /\ Settled(x)
  /\ CallStrong(VoidEmplaceErrorSteps(x, how, from), x, "error", <<"error", ValueOf(from)>>)

void_swap(x, y) ==
  /\ Settled(x) /\ Settled(y) /\ x # y /\ Movable("error")
  /\ CallThen(VoidSwapSteps(x, y), Unwound, LAMBDA st, threw :
       IF threw THEN st.fields = state_ ELSE Holds(st, x) = Old(y) /\ Holds(st, y) = Old(x))

on_success(x, r, how, from) ==
  /\ Settled(x) /\ Movable("error")
  /\ ConstructThen(OnSuccess(x, r, how, from), r,
       IF state_[x] = "value" THEN Given(from) ELSE Old(x))

on_error(x, r, how, from) ==
  /\ Settled(x) /\ Movable("error")
  /\ ConstructThen(OnError(x, r, how, from), r,
       IF state_[x] = "value" THEN Success ELSE Given(from))

AliasedError(x) == IF state_[x] = "error" /\ Movable("error") THEN {Error(x)} ELSE {}

VoidNext ==
  \/ require_settled
  \/ \E x \in Expecteds :
       \/ void_expected(x) \/ void_destructor(x) \/ void_emplace(x)
       \/ \E how \in Hows, from \in Args :
            unexpect(x, how, from) \/ void_assign(x, how, from) \/ emplace_error(x, how, from)
       \/ \E from \in AliasedError(x) : void_assign(x, "copy", from) \/ emplace_error(x, "copy", from)
       \/ \E y \in Expecteds :
            \/ void_swap(x, y)
            \/ \E how \in Hows : \/ void_copy_or_move_construct(x, how, y)
                                 \/ void_copy_or_move_assign(x, how, y)
            \/ \E how \in Hows, from \in Args \cup {<<>>} :
                 on_success(x, y, how, from) \/ on_error(x, y, how, from)

VoidSpec == Init /\ [][VoidNext]_vars

-----------------------------------------------------------------------------
TypeOK ==
  /\ kinds \in Kinds
  /\ cells \in [Storage -> Values \cup {Raw, Moved}]
  /\ state_ \in [Expecteds -> Members \cup {"switching", Gone}]
  /\ ok \in BOOLEAN /\ kept \in BOOLEAN /\ unseen \in BOOLEAN

(***************************************************************************)
(* After every call and every throw the storage of an expected holds the   *)
(* member its discriminant names and no other, so that it is destroyed     *)
(* exactly once; value and error never live in it together                 *)
(* (expected.hpp:361-367, 1080-1084, 1211-1214).                           *)
(***************************************************************************)
LifetimesExact ==
  ok /\ \A x \in Expecteds : {m \in Members : cells[<<x, m>>] # Raw} = {state_[x]} \cap Members

(***************************************************************************)
(* A returned call leaves the member its documentation says, also when it  *)
(* is given the current one; a call that throws leaves the old value or    *)
(* error, unless the move back threw as well (expected.hpp:535, 555, 755-  *)
(* 761, 792, 816, 1121-1122).                                              *)
(***************************************************************************)
CallsAsPromised == kept

(***************************************************************************)
(* While a member's destructor runs its expected reads neither value nor   *)
(* error, whichever operation destroys it (expected.hpp:159-163, 438-443). *)
(***************************************************************************)
SwitchingWhileDestroyed == unseen

(***************************************************************************)
(* After every call and every throw an expected<void, E> stores an error   *)
(* exactly when its discriminant says so (expected.hpp:325-331, 1361-1385, *)
(* 1526-1559).                                                             *)
(***************************************************************************)
ErrorStoredExactly ==
  ok /\ \A x \in Expecteds : /\ cells[<<x, "value">>] = Raw
                             /\ (cells[Error(x)] # Raw) <=> (state_[x] = "error")

=============================================================================
