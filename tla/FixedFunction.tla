---------------------------- MODULE FixedFunction ----------------------------
(***************************************************************************)
(* metl::fixed_function and metl::fixed_any_invocable (fixed_function.hpp):*)
(* a callable in an inline buffer and the table of the operations of its   *)
(* type.  A target's copy may throw, its move may not.                     *)
(***************************************************************************)
EXTENDS Lifetimes

CONSTANTS
  Functions, Gone, Null,
  Targets       \* callables that fit, each of a type of its own

VARIABLES
  kind,         \* the class: whether it copies, whether its signature is
                \* noexcept, and the targets its constructor accepts
  cells,        \* storage_
  ops_,         \* Null, the type of the target, or Gone: not in scope
  ok, kept,     \* as in Optional
  unseen        \* destructors found their wrapper empty, or excused (Excused)

vars == <<kind, cells, ops_, ok, kept, unseen>>

\* A noexcept signature takes only callables whose call cannot throw.
Kinds ==
  {k \in [copyable : BOOLEAN, nx : BOOLEAN, accepts : SUBSET Targets] :
     k.nx \/ k.accepts = Targets}

Init ==
  /\ kind \in Kinds
  /\ cells = [f \in Functions |-> Raw]
  /\ ops_ = [f \in Functions |-> Gone]
  /\ ok = TRUE /\ kept = TRUE /\ unseen = TRUE

Arg(t) == <<"arg", t>>
Args == {Arg(t) : t \in Targets}
Accepted == {Arg(t) : t \in kind.accepts}
Incoming == <<"local", 1>>      \* also swap's tmp

Before ==
  [cells |-> [c \in Functions \cup Args \cup {Incoming} |->
      IF c \in Functions THEN cells[c] ELSE IF c = Incoming THEN Raw ELSE c[2]],
   fields |-> ops_, ok |-> TRUE]

Alive(f) == ops_[f] # Gone
has_value(f) == ops_[f] \notin {Null, Gone}

\* What a wrapper is seen to hold: the table and the object.
Contents(st, f) == <<st.fields[f], st.cells[f]>>
Old(f) == Contents(Before, f)
Nothing == <<Null, Raw>>
Holding(t) == <<t, t>>

-----------------------------------------------------------------------------
reset(f) == IF has_value(f) THEN <<Set(f, Null), Destroy(f)>> ELSE <<>>

\* The source's target is built in f, which has none.
copy_from(f, g) == <<Copy(f, g), Set(f, ops_[g])>>
move_from(f, g) == <<Move(f, g), Set(f, ops_[g])>> \o reset(g)

CopyAssignSteps(f, g) == reset(f) \o IF has_value(g) THEN copy_from(f, g) ELSE <<>>
MoveAssignSteps(f, g) == reset(f) \o IF has_value(g) THEN move_from(f, g) ELSE <<>>

\* The target of one side goes to the other, which has none.
Hand(from, to) ==
  <<Move(to, from), Set(to, ops_[from]), Destroy(from), Set(from, Null)>>

SwapSteps(f, g) ==
  CASE has_value(f) /\ has_value(g) ->
         <<Move(Incoming, f), Destroy(f), Move(f, g), Set(f, ops_[g]), Destroy(g),
           Move(g, Incoming), Set(g, ops_[f]), Destroy(Incoming)>>
    [] has_value(f) /\ ~has_value(g) -> Hand(f, g)
    [] ~has_value(f) /\ has_value(g) -> Hand(g, f)
    [] OTHER -> <<>>

\* The argument may be a callable that the current target carries.
try_assign_callable(f, how, from) ==
  <<[op |-> how, to |-> Incoming, from |-> from]>> \o reset(f)
  \o <<Move(f, Incoming), Set(f, Before.cells[from]), Destroy(Incoming)>>

-----------------------------------------------------------------------------
\* Every destructor in a wrapper finds it empty, or what it destroys Excused.
Unseen(program, Excused(_)) == \A k \in 1 .. Len(program) :
  program[k].op = "destroy" /\ program[k].to \in Functions =>
    LET st == Run(Before, program, k - 1)
    IN  st.fields[program[k].to] = Null \/ Excused(st.cells[program[k].to])

NotExcused(target) == FALSE
MovedFrom(target) == target = Moved

\* Moves do not throw: the types that could are refused at compile time.
CallThen(program, Unwound(_, _), Promised(_, _)) ==
  \E k \in {j \in 1 .. Len(program) : program[j].op = "copy"} \cup {Len(program) + 1} :
    LET threw == k <= Len(program)
        run   == Run(Before, program, k - 1)
        st    == IF threw THEN Unwound(run, program[k]) ELSE run
    IN  /\ cells' = [c \in Functions |-> st.cells[c]]
        /\ ops_' = st.fields
        /\ ok' = (st.ok /\ st.cells[Incoming] = Raw)
        /\ kept' = Promised(st, threw)
        /\ UNCHANGED kind

Call(program, Promised(_, _)) ==
  CallThen(program, Neutral, Promised) /\ unseen' = Unseen(program, NotExcused)

\* A constructor that throws leaves no wrapper.
Construct(f, program, Promised(_)) ==
  /\ ops_[f] = Gone
  /\ CallThen(<<Set(f, Null)>> \o program, LAMBDA st, i : [st EXCEPT !.fields[f] = Gone],
       LAMBDA st, threw : IF threw THEN Contents(st, f) = <<Gone, Raw>> ELSE Promised(st))
  /\ unseen' = Unseen(program, NotExcused)

copy_construct(f, g) ==
  /\ kind.copyable /\ Alive(g)
  /\ Construct(f, IF has_value(g) THEN copy_from(f, g) ELSE <<>>,
       LAMBDA st : Contents(st, f) = Old(g) /\ Contents(st, g) = Old(g))

move_construct(f, g) ==
  /\ Alive(g)
  /\ Construct(f, IF has_value(g) THEN move_from(f, g) ELSE <<>>,
       LAMBDA st : Contents(st, f) = Old(g) /\ Contents(st, g) = Nothing)

destructor(f) ==
  Alive(f) /\ Call(reset(f) \o <<Set(f, Gone)>>, LAMBDA st, threw : Contents(st, f) = <<Gone, Raw>>)

\* reset() and the assignment of nullptr.
reset_call(f) == Alive(f) /\ Call(reset(f), LAMBDA st, threw : Contents(st, f) = Nothing)

\* A copy that throws leaves the wrapper empty: its old target is gone.
copy_assign(f, g) ==
  /\ kind.copyable /\ Alive(f) /\ Alive(g) /\ f # g
  /\ Call(CopyAssignSteps(f, g), LAMBDA st, threw :
       Contents(st, g) = Old(g) /\ Contents(st, f) = IF threw THEN Nothing ELSE Old(g))

move_assign(f, g) ==
  /\ Alive(f) /\ Alive(g) /\ f # g
  /\ Call(MoveAssignSteps(f, g), LAMBDA st, threw :
       Contents(st, f) = Old(g) /\ Contents(st, g) = Nothing)

\* The targets it destroys in place have been moved from; their wrappers are
\* still engaged.
swap(f, g) ==
  /\ Alive(f) /\ Alive(g) /\ f # g
  /\ CallThen(SwapSteps(f, g), Neutral, LAMBDA st, threw :
       Contents(st, f) = Old(g) /\ Contents(st, g) = Old(f))
  /\ unseen' = Unseen(SwapSteps(f, g), MovedFrom)

\* try_assign, assign and the assignment of a callable: a throw of its copy
\* leaves the old target.
try_assign(f, how, from) ==
  /\ Alive(f)
  /\ Call(try_assign_callable(f, how, from), LAMBDA st, threw :
       Contents(st, f) = IF threw THEN Old(f) ELSE Holding(Before.cells[from]))

\* An empty METL wrapper of any kind gives an empty one.
try_assign_empty(f) == reset_call(f)

\* Too large: refused, and nothing changes.
try_assign_large(f) == Alive(f) /\ Call(<<>>, LAMBDA st, threw : Contents(st, f) = Old(f))

\* The converting constructors: base() and then assign.
construct_from(f, how, from) ==
  Construct(f, try_assign_callable(f, how, from),
    LAMBDA st : Contents(st, f) = Holding(Before.cells[from]))

\* An argument of try_assign: given, or carried by the current target.
Callables(f) == Accepted \cup IF has_value(f) THEN {f} ELSE {}

\* The two cores, and the public classes over them.
fixed_any_invocable_impl(f, g) ==
  destructor(f) \/ reset_call(f) \/ move_construct(f, g) \/ move_assign(f, g) \/ swap(f, g)

fixed_function_impl(f, g) ==
  copy_construct(f, g) \/ copy_assign(f, g) \/ fixed_any_invocable_impl(f, g)

Assignments(f, hows) ==
  \/ Construct(f, <<>>, LAMBDA st : Contents(st, f) = Nothing)
  \/ try_assign_empty(f) \/ try_assign_large(f)
  \/ \E how \in hows : \/ \E from \in Callables(f) : try_assign(f, how, from)
                       \/ \E from \in Accepted : construct_from(f, how, from)

fixed_function(f) == kind.copyable /\ ~kind.nx /\ Assignments(f, {"copy", "move"})

fixed_function_noexcept(f) == kind.copyable /\ kind.nx /\ Assignments(f, {"copy", "move"})

fixed_any_invocable(f) == ~kind.copyable /\ ~kind.nx /\ Assignments(f, {"move"})

fixed_any_invocable_noexcept(f) == ~kind.copyable /\ kind.nx /\ Assignments(f, {"move"})

Next == \E f, g \in Functions :
  \/ fixed_function_impl(f, g)
  \/ fixed_function(f) \/ fixed_function_noexcept(f)
  \/ fixed_any_invocable(f) \/ fixed_any_invocable_noexcept(f)

Spec == Init /\ [][Next]_vars

-----------------------------------------------------------------------------
TypeOK ==
  /\ kind \in Kinds
  /\ cells \in [Functions -> Targets \cup {Raw, Moved}]
  /\ ops_ \in [Functions -> Targets \cup {Null, Gone}]
  /\ ok \in BOOLEAN /\ kept \in BOOLEAN /\ unseen \in BOOLEAN

(***************************************************************************)
(* After every call and every throw a wrapper's buffer holds an object     *)
(* exactly when has_value() says so, its table is that object's, and the   *)
(* object is one the signature accepts (fixed_function.hpp:257-259,        *)
(* 292-321, 360-367, 712-716).                                             *)
(***************************************************************************)
LifetimesExact ==
  /\ ok
  /\ \A f \in Functions : IF has_value(f) THEN cells[f] = ops_[f] /\ ops_[f] \in kind.accepts
                           ELSE cells[f] = Raw

(***************************************************************************)
(* A returned call leaves the target asked for, also when the argument is  *)
(* part of the target it replaces; a refused or throwing assignment leaves *)
(* the old target, a throwing copy assignment none, a conversion from an   *)
(* empty wrapper none (fixed_function.hpp:249-261, 344-363, 552-554).      *)
(***************************************************************************)
CallsAsPromised == kept

(***************************************************************************)
(* A target's destructor finds its wrapper empty, so that a call back into *)
(* it destroys nothing twice (fixed_function.hpp:285-289).  The exception  *)
(* is swap, which destroys targets while ops_ is set (301, 305, 313, 318;  *)
(* 451, 455, 463, 468): there the target has been moved from, and no       *)
(* destructor of one that still has its value finds its wrapper engaged.   *)
(***************************************************************************)
EmptyBeforeDestruction == unseen

=============================================================================
