------------------------------ MODULE AtomicRef -------------------------------
(***************************************************************************)
(* metl::atomic_ref (atomic_ref.hpp): atomic operations on an object's     *)
(* bytes.  An object of a padded T is its value bits and its padding bits. *)
(* Every atomic access is one step; between the attempts of a strong       *)
(* compare-exchange other threads run.  The object starts with any         *)
(* padding: it was written without an atomic_ref before.                   *)
(***************************************************************************)
EXTENDS Integers, FiniteSetsExt

CONSTANTS Threads, Width    \* T has Width value bits

Values == 0 .. 2 ^ Width - 1
Words == [value : Values, padding : {0, 1}]

VARIABLES
  padded,              \* T has padding bits; an integral T has none
  ignores_padding,     \* the compiler provides __builtin_clear_padding
  object,              \* the bytes referred to
  call,                \* [threads -> the compare-exchange in progress]
  expected,            \* [threads -> its in-out argument]
  exact,               \* every call has returned what it promises
  stored               \* [threads -> another thread stored since t's last attempt]

vars == <<padded, ignores_padding, object, call, expected, exact, stored>>

Word(v, p) == [value |-> v, padding |-> p]
None == [at |-> "idle", held |-> Word(0, 0), wanted |-> Word(0, 0), desired |-> Word(0, 0),
         attempts |-> 0]

Init ==
  /\ padded \in BOOLEAN /\ ignores_padding \in BOOLEAN
  /\ ignores_padding => padded
  /\ object \in {w \in Words : w.padding # 0 => padded}
  /\ call = [t \in Threads |-> None]
  /\ expected = [t \in Threads |-> Word(0, 0)]
  /\ exact = TRUE /\ stored = [t \in Threads |-> FALSE]

\* Without the builtin the padding stays as it is.
clear_padding(w) == IF ignores_padding THEN [w EXCEPT !.padding = 0] ELSE w

\* An argument's padding is whatever the caller's object has there.
Arguments == {w \in Words : w.padding # 0 => padded}

\* The object's bytes after an access of thread t that stores.
Stores(t, w) ==
  /\ object' = w
  /\ stored' = [u \in Threads |-> stored[u] \/ u # t]

-----------------------------------------------------------------------------
\* load, store and exchange, and the fetch operations of an integral T.
load(t) ==
  /\ call[t].at = "idle"
  /\ expected' = [expected EXCEPT ![t] = object]
  /\ UNCHANGED <<padded, ignores_padding, object, call, exact, stored>>

store(t, desired) ==
  /\ call[t].at = "idle" /\ Stores(t, clear_padding(desired))
  /\ UNCHANGED <<padded, ignores_padding, call, expected, exact>>

exchange(t, desired) ==
  /\ call[t].at = "idle" /\ Stores(t, clear_padding(desired))
  /\ expected' = [expected EXCEPT ![t] = object]
  /\ UNCHANGED <<padded, ignores_padding, call, exact>>

Bit(v, k) == (v \div 2 ^ k) % 2
Bits(v, arg, op) ==
  LET bit(k) == LET n == Bit(v, k) + Bit(arg, k)
                IN  2 ^ k * CASE op = "and" -> n \div 2
                              [] op = "or"  -> IF n = 0 THEN 0 ELSE 1
                              [] op = "xor" -> n % 2
  IN  MapThenSumSet(bit, 0 .. Width - 1)

Fetched(v, arg, op) ==
  CASE op = "add" -> (v + arg) % 2 ^ Width
    [] op = "sub" -> (v - arg) % 2 ^ Width
    [] OTHER      -> Bits(v, arg, op)

fetch(t, op, arg) ==
  /\ call[t].at = "idle" /\ ~padded
  /\ Stores(t, Word(Fetched(object.value, arg, op), 0))
  /\ expected' = [expected EXCEPT ![t] = object]
  /\ UNCHANGED <<padded, ignores_padding, call, exact>>

\* What is reported of a strong call: whether the value bits were the expected.
Return(t, exchanged) ==
  /\ call' = [call EXCEPT ![t] = None]
  /\ LET same == object.value = call[t].wanted.value
         bytes == object = call[t].held
     IN  exact' = (exact /\ IF exchanged THEN same
                            ELSE IF ignores_padding THEN ~same ELSE ~bytes)

compare_exchange_strong(t, desired) ==
  /\ call[t].at = "idle"
  /\ LET held == clear_padding(expected[t])
     IN  call' = [call EXCEPT ![t] = [at |-> "strong", held |-> held, wanted |-> held,
                                      desired |-> clear_padding(desired), attempts |-> 0]]
  /\ stored' = [stored EXCEPT ![t] = FALSE]
  /\ UNCHANGED <<padded, ignores_padding, object, expected, exact>>

\* Fault: any difference of the bytes ends the call.
Different_Bytes(found, wanted) == found # wanted

\* The value bits differ, where padding can be told from them.
Different(found, wanted) == clear_padding(found) # wanted

\* An attempt of the loop.  Where only the padding differs it goes on with the
\* bytes found.
strong_attempt(t) ==
  /\ call[t].at = "strong"
  /\ LET c == call[t]
     IN  IF object = c.held
         THEN /\ Stores(t, c.desired)
              /\ Return(t, TRUE) /\ UNCHANGED expected
         ELSE /\ object' = object /\ stored' = [stored EXCEPT ![t] = FALSE]
              /\ IF Different(object, c.wanted)
                 THEN expected' = [expected EXCEPT ![t] = object] /\ Return(t, FALSE)
                 ELSE /\ call' = [call EXCEPT ![t].held = object, ![t].attempts = 1]
                      /\ exact' = (exact /\ (c.attempts = 1 => stored[t]))
                      /\ UNCHANGED expected
  /\ UNCHANGED <<padded, ignores_padding>>

\* The padding of expected is compared too; and the attempt may fail for nothing.
compare_exchange_weak(t, desired, spurious) ==
  /\ call[t].at = "idle"
  /\ IF object = expected[t] /\ ~spurious
     THEN Stores(t, clear_padding(desired)) /\ UNCHANGED expected
     ELSE UNCHANGED <<object, stored>> /\ expected' = [expected EXCEPT ![t] = object]
  /\ UNCHANGED <<padded, ignores_padding, call, exact>>

\* The caller sets what it expects.
Expect(t, w) ==
  /\ call[t].at = "idle"
  /\ expected' = [expected EXCEPT ![t] = w]
  /\ UNCHANGED <<padded, ignores_padding, object, call, exact, stored>>

Next == \E t \in Threads :
  \/ load(t) \/ strong_attempt(t)
  \/ \E w \in Arguments :
       \/ store(t, w) \/ exchange(t, w) \/ compare_exchange_strong(t, w) \/ Expect(t, w)
       \/ \E spurious \in BOOLEAN : compare_exchange_weak(t, w, spurious)
  \/ \E arg \in Values, op \in {"add", "sub", "and", "or", "xor"} : fetch(t, op, arg)

Spec == Init /\ [][Next]_vars

-----------------------------------------------------------------------------
TypeOK ==
  /\ padded \in BOOLEAN /\ ignores_padding \in BOOLEAN
  /\ object \in Words /\ expected \in [Threads -> Words]
  /\ \A t \in Threads : call[t].at \in {"idle", "strong"}
  /\ exact \in BOOLEAN /\ stored \in [Threads -> BOOLEAN]

(***************************************************************************)
(* A strong compare-exchange succeeds exactly when the value bits are the  *)
(* expected ones, whatever the padding; one that fails saw others, and     *)
(* reports what is held; and it goes round again only after another thread *)
(* stored in between, but once for padding (atomic_ref.hpp:350-359,        *)
(* 378-379).                                                               *)
(***************************************************************************)
ExchangeExact == exact

=============================================================================
