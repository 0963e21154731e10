------------------------------ MODULE Lifetimes ------------------------------
(***************************************************************************)
(* Object lifetimes in raw storage.  A container's operation is a program: *)
(* the sequence of constructions, assignments, destructions and            *)
(* book-keeping stores it performs.  An element's constructor, assignment  *)
(* or predicate may throw; the rest of the program is then not run.  A     *)
(* cell is Raw, Moved (a moved-from object) or holds a value.              *)
(***************************************************************************)
EXTENDS Integers, Sequences, SequencesExt

CONSTANTS Raw, Moved

\* A construction of cell `to` from cell `from`, by copy or by move.
Copy(to, from) == [op |-> "copy", to |-> to, from |-> from]
Move(to, from) == [op |-> "move", to |-> to, from |-> from]
\* An assignment to a live object.
AssignMove(to, from) == [op |-> "assign", to |-> to, from |-> from]
AssignCopy(to, from) == [op |-> "assign copy", to |-> to, from |-> from]
Destroy(c) == [op |-> "destroy", to |-> c, from |-> c]
\* A store to one of the container's own fields.
Set(field, x) == [op |-> "set", to |-> field, from |-> x]
\* A call of user code that changes no cell.
UserCall == [op |-> "call", to |-> Raw, from |-> Raw]

Throwing(i) == i.op \notin {"destroy", "set"}

\* Construction is on raw storage; what is read, assigned or destroyed lives.
Legal(cells, i) ==
  CASE i.op \in {"set", "call"}            -> TRUE
    [] i.op \in {"copy", "move"}           -> cells[i.to] = Raw /\ cells[i.from] # Raw
    [] i.op \in {"assign", "assign copy"}  -> cells[i.to] # Raw /\ cells[i.from] # Raw
    [] i.op = "destroy"                    -> cells[i.to] # Raw

\* A state is [cells, fields, ok]: ok until a step was not legal.
Exec(st, i) ==
  LET stored == [st.cells EXCEPT ![i.to] = st.cells[i.from]]
  IN  CASE i.op = "call" -> st
        [] i.op = "set"  -> [st EXCEPT !.fields[i.to] = i.from]
        [] i.op = "destroy" ->
             [st EXCEPT !.ok = @ /\ Legal(st.cells, i), !.cells[i.to] = Raw]
        [] i.op \in {"copy", "assign copy"} ->
             [st EXCEPT !.ok = @ /\ Legal(st.cells, i), !.cells = stored]
        [] i.op \in {"move", "assign"} ->
             [st EXCEPT !.ok = @ /\ Legal(st.cells, i),
                        !.cells = [stored EXCEPT ![i.from] = Moved]]

\* The state after the first k steps of a program.
Run(st, program, k) ==
  LET after[j \in 0 .. k] == IF j = 0 THEN st ELSE Exec(after[j - 1], program[j])
  IN  after[k]

\* The outcomes of a call: the program runs to its end, or one of its steps
\* throws and Unwound, given the state and that step, is what handlers leave.
Outcomes(st, program, Unwound(_, _)) ==
  {[st |-> Run(st, program, Len(program)), threw |-> FALSE]} \cup
  {[st |-> Unwound(Run(st, program, k - 1), program[k]), threw |-> TRUE] :
     k \in {j \in 1 .. Len(program) : Throwing(program[j])}}

\* No handler: the exception passes through.
Neutral(st, i) == st

\* The state after a whole program, for handlers and destructors.
RunAll(st, program) == Run(st, program, Len(program))

=============================================================================
