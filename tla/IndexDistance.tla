--------------------------- MODULE IndexDistance ---------------------------
(***************************************************************************)
(* Free-running ring indices and tickets: std::size_t counters that are    *)
(* only ever incremented, wrap at the width of the type, and are compared  *)
(* by modular distance alone (detail/index_distance.hpp).  Wrap is the     *)
(* number of values of the type, 2^w.                                      *)
(***************************************************************************)
EXTENDS Integers, Sequences, TLAPS

CONSTANTS Wrap,      \* 2^w, one past numeric_limits<size_t>::max()
          Capacity   \* number of slots, a power of two dividing Wrap

(***************************************************************************)
(* static_assert(Capacity >= 2) and "power of two": what the algorithms    *)
(* use of it is that Capacity divides Wrap, so that index & (Capacity - 1) *)
(* is continuous across the wrap, and that it is at most half the range.   *)
(***************************************************************************)
ASSUME CapacityAssumption ==
  /\ Capacity \in Nat /\ Capacity >= 2
  /\ Wrap \in Nat /\ Wrap >= 2 * Capacity
  /\ \E k \in 1..Wrap : Wrap = k * Capacity

Index == 0 .. Wrap - 1

Slots == 0 .. Capacity - 1

\* Unsigned addition and subtraction of std::size_t.
Plus(a, b) == (a + b) % Wrap

Minus(a, b) == (a - b) % Wrap

\* index & (Capacity - 1)
Slot(index) == index % Capacity

\* numeric_limits<size_t>::max() / 2
HalfRange == (Wrap - 1) \div 2

\* Elements between two indices as seen by a thread that owns neither.
clamped_index_distance(head, tail) ==
  LET forward == Minus(tail, head)
  IN  IF forward > HalfRange THEN 0
      ELSE IF forward < Capacity THEN forward ELSE Capacity

\* Fault: the comparison on plain integers.
compare_tickets_Plain(sequence, pos) ==
  IF sequence = pos THEN 0 ELSE IF sequence < pos THEN -1 ELSE 1

\* 0 when equal, -1 when sequence is behind pos, 1 when it is ahead.
compare_tickets(sequence, pos) ==
  LET distance == Minus(sequence, pos)
  IN  IF distance = 0 THEN 0 ELSE IF distance > HalfRange THEN -1 ELSE 1

-----------------------------------------------------------------------------
\* Facts about free-running indices that the queue proofs rest on, for every
\* width of the index type and every capacity.

\* Quotient and remainder of an index by the number of slots.
LEMMA DivMod ==
  ASSUME NEW m \in Nat, m > 0, NEW a \in Int
  PROVE  /\ a % m \in 0 .. m - 1
         /\ a \div m \in Int
         /\ a = m * (a \div m) + (a % m)
BY SMT

\* The constants as the provers need them.
LEMMA Constants ==
  /\ Capacity \in Nat /\ Capacity > 1
  /\ Wrap \in Nat /\ Wrap >= 2 * Capacity /\ Wrap > 3
BY CapacityAssumption

\* Unsigned subtraction, without the modulus.
LEMMA MinusCases ==
  ASSUME NEW a \in Index, NEW b \in Index
  PROVE  Minus(a, b) = IF a >= b THEN a - b ELSE a - b + Wrap
BY Constants, SMT DEF Minus, Index

\* Unsigned addition of at most one period, without the modulus.
LEMMA PlusCases ==
  ASSUME NEW a \in Index, NEW k \in Index
  PROVE  Plus(a, k) = IF a + k < Wrap THEN a + k ELSE a + k - Wrap
BY Constants, SMT DEF Plus, Index

\* Index arithmetic stays within the type.
LEMMA IndexClosed ==
  ASSUME NEW a \in Index, NEW b \in Index
  PROVE  Plus(a, b) \in Index /\ Minus(a, b) \in Index
BY Constants, SMT DEF Plus, Minus, Index

\* Distance zero is equality.
LEMMA MinusZero ==
  ASSUME NEW a \in Index, NEW b \in Index
  PROVE  Minus(a, b) = 0 <=> a = b
BY Constants, MinusCases, SMT DEF Index

\* Advancing either end of a distance by one.
LEMMA MinusAdvance ==
  ASSUME NEW a \in Index, NEW b \in Index
  PROVE  /\ Plus(a, 1) \in Index /\ Plus(b, 1) \in Index
         /\ Minus(a, b) < Wrap - 1 => Minus(Plus(a, 1), b) = Minus(a, b) + 1
         /\ Minus(a, b) > 0 => Minus(a, Plus(b, 1)) = Minus(a, b) - 1
<1>1. 1 \in Index
  BY Constants DEF Index
<1>2. Plus(a, 1) \in Index /\ Plus(b, 1) \in Index
  BY <1>1, IndexClosed
<1>3. /\ Plus(a, 1) = IF a + 1 < Wrap THEN a + 1 ELSE a + 1 - Wrap
      /\ Plus(b, 1) = IF b + 1 < Wrap THEN b + 1 ELSE b + 1 - Wrap
  BY <1>1, PlusCases
<1>4. /\ Minus(a, b) = IF a >= b THEN a - b ELSE a - b + Wrap
      /\ Minus(Plus(a, 1), b) =
           IF Plus(a, 1) >= b THEN Plus(a, 1) - b ELSE Plus(a, 1) - b + Wrap
      /\ Minus(a, Plus(b, 1)) =
           IF a >= Plus(b, 1) THEN a - Plus(b, 1) ELSE a - Plus(b, 1) + Wrap
  BY <1>2, MinusCases
<1> QED
  BY <1>2, <1>3, <1>4, Constants, SMT DEF Index

(***************************************************************************)
(* An index between from and to, both of which lie in the window of        *)
(* indices that ends at last, is itself in that window.                    *)
(***************************************************************************)
LEMMA Between ==
  ASSUME NEW from \in Index, NEW to \in Index, NEW last \in Index, NEW i \in Index,
         Minus(last, to) <= Minus(last, from),
         Minus(i, from) <= Minus(to, from)
  PROVE  Minus(last, to) <= Minus(last, i) /\ Minus(last, i) <= Minus(last, from)
<1>1. /\ Minus(last, to) = IF last >= to THEN last - to ELSE last - to + Wrap
      /\ Minus(last, from) = IF last >= from THEN last - from ELSE last - from + Wrap
      /\ Minus(i, from) = IF i >= from THEN i - from ELSE i - from + Wrap
      /\ Minus(to, from) = IF to >= from THEN to - from ELSE to - from + Wrap
      /\ Minus(last, i) = IF last >= i THEN last - i ELSE last - i + Wrap
  BY MinusCases
<1> QED
  BY <1>1, Constants, SMT DEF Index

\* The same for a window that begins at first.
LEMMA BetweenFrom ==
  ASSUME NEW from \in Index, NEW to \in Index, NEW first \in Index, NEW i \in Index,
         Minus(from, first) <= Minus(to, first),
         Minus(i, from) <= Minus(to, from)
  PROVE  Minus(from, first) <= Minus(i, first) /\ Minus(i, first) <= Minus(to, first)
<1>1. /\ Minus(to, first) = IF to >= first THEN to - first ELSE to - first + Wrap
      /\ Minus(from, first) = IF from >= first THEN from - first ELSE from - first + Wrap
      /\ Minus(i, from) = IF i >= from THEN i - from ELSE i - from + Wrap
      /\ Minus(to, from) = IF to >= from THEN to - from ELSE to - from + Wrap
      /\ Minus(i, first) = IF i >= first THEN i - first ELSE i - first + Wrap
  BY MinusCases
<1> QED
  BY <1>1, Constants, SMT DEF Index

\* A slot number is a slot of the ring.
LEMMA SlotInRange ==
  ASSUME NEW a \in Index
  PROVE  Slot(a) \in Slots
BY Constants, DivMod, SMT DEF Slot, Slots, Index

(***************************************************************************)
(* Two different indices less than Capacity apart have different slots,    *)
(* across the wrap as well: index & (Capacity - 1) maps a window of the    *)
(* ring one to one, because Capacity divides 2^w.                          *)
(***************************************************************************)
THEOREM SlotsDistinctInWindow ==
  ASSUME NEW a \in Index, NEW b \in Index,
         0 < Minus(a, b), Minus(a, b) < Capacity
  PROVE  Slot(a) # Slot(b)
<1>1. PICK k \in 1 .. Wrap : Wrap = k * Capacity
  BY CapacityAssumption
<1> DEFINE qa == a \div Capacity
           qb == b \div Capacity
<1>2. /\ a = Capacity * qa + Slot(a) /\ qa \in Int /\ Slot(a) \in Int
      /\ b = Capacity * qb + Slot(b) /\ qb \in Int /\ Slot(b) \in Int
  BY Constants, DivMod, SMT DEF Slot, Index
<1> SUFFICES ASSUME Slot(a) = Slot(b) PROVE FALSE
  OBVIOUS
<1> HIDE DEF qa, qb
<1>3. a - b = Capacity * (qa - qb)
  BY <1>2, Constants, SMT DEF Index
<1>4. CASE a >= b
  <2>1. 0 < Capacity * (qa - qb) /\ Capacity * (qa - qb) < Capacity
    BY <1>3, <1>4, MinusCases
  <2> QED
    BY <2>1, <1>2, Constants, SMT
<1>5. CASE a < b
  <2>1. a - b + Wrap = Capacity * (qa - qb + k)
    <3>1. Capacity * (qa - qb + k) = Capacity * (qa - qb) + k * Capacity
      BY <1>2, Constants, SMT
    <3> QED
      BY <3>1, <1>1, <1>3
  <2>2. 0 < a - b + Wrap /\ a - b + Wrap < Capacity
    BY <1>5, MinusCases, Constants, SMT DEF Index
  <2>3. qa - qb + k \in Int
    BY <1>2
  <2> QED
    BY <2>1, <2>2, <2>3, Constants, SMT
<1> QED
  BY <1>4, <1>5, Constants, SMT DEF Index

\* A remainder is determined by any quotient.
LEMMA ModUnique ==
  ASSUME NEW m \in Nat, m > 0, NEW a \in Int, NEW q \in Int, NEW r \in 0 .. m - 1,
         a = m * q + r
  PROVE  a % m = r
<1> DEFINE qa == a \div m
           ra == a % m
<1>1. ra \in 0 .. m - 1 /\ qa \in Int /\ a = m * qa + ra
  BY DivMod
<1> HIDE DEF qa, ra
<1>2. m * (q - qa) = ra - r
  BY <1>1, SMT
<1>3. CASE q - qa >= 1
  <2>1. m * (q - qa) >= m
    BY <1>3, <1>1, SMT
  <2> QED
    BY <2>1, <1>1, <1>2, SMT
<1>4. CASE q - qa <= -1
  <2>1. m * (qa - q) >= m
    BY <1>4, <1>1, SMT
  <2>2. m * (qa - q) = r - ra
    BY <1>1, <1>2, SMT
  <2> QED
    BY <2>1, <2>2, <1>1, SMT
<1>5. CASE q - qa = 0
  <2>1. q = qa
    BY <1>5, <1>1, SMT
  <2> QED
    BY <2>1, <1>1, SMT DEF ra
<1> QED
  BY <1>1, <1>3, <1>4, <1>5, SMT

\* Indices that differ by a multiple of Capacity have the same slot.
LEMMA SameSlot ==
  ASSUME NEW a \in Int, NEW k \in Int
  PROVE  Slot(a + Capacity * k) = Slot(a)
<1> DEFINE q == a \div Capacity
           r == a % Capacity
<1>1. r \in 0 .. Capacity - 1 /\ q \in Int /\ a = Capacity * q + r
  BY DivMod, Constants
<1> HIDE DEF q, r
<1>2. a + Capacity * k = Capacity * (q + k) + r
  BY <1>1, Constants, SMT
<1>3. q + k \in Int /\ a + Capacity * k \in Int
  BY <1>1, Constants, SMT
<1>4. (a + Capacity * k) % Capacity = r
  BY <1>1, <1>2, <1>3, Constants, ModUnique
<1> QED
  BY <1>4 DEF Slot, r

\* Slots follow each other around the ring, across the wrap of the index type.
LEMMA SlotAdvance ==
  ASSUME NEW a \in Index
  PROVE  /\ Slot(Plus(a, Capacity)) = Slot(a)
         /\ Slot(Minus(a, Capacity)) = Slot(a)
         /\ Slot(Plus(a, 1)) = Slot(Slot(a) + 1)
<1>1. PICK k \in 1 .. Wrap : Wrap = k * Capacity
  BY CapacityAssumption
<1>2. 1 \in Index /\ Capacity \in Index /\ a \in Int
  BY Constants, SMT DEF Index
<1>3. k \in Int /\ Wrap = Capacity * k /\ -k \in Int /\ Capacity * (-k) = -Wrap
  BY <1>1, Constants, SMT
<1>4. Slot(Plus(a, Capacity)) = Slot(a)
  <2>1. Slot(a + Capacity) = Slot(a)
    <3>1. Capacity * 1 = Capacity
      BY Constants, SMT
    <3> QED
      BY <1>2, <3>1, SameSlot
  <2>2. Slot(a + Capacity - Wrap) = Slot(a)
    <3>1. Capacity * (1 - k) = Capacity - Wrap
      BY <1>3, Constants, SMT
    <3>2. a + Capacity * (1 - k) = a + Capacity - Wrap
      BY <3>1, <1>2, Constants, SMT
    <3>3. 1 - k \in Int
      BY <1>3
    <3> QED
      BY <1>2, <3>2, <3>3, SameSlot, Zenon
  <2> QED
    BY <2>1, <2>2, <1>2, PlusCases
<1>5. Slot(Minus(a, Capacity)) = Slot(a)
  <2>1. Slot(a - Capacity) = Slot(a)
    <3>1. a + Capacity * (-1) = a - Capacity
      BY <1>2, Constants, SMT
    <3> QED
      BY <1>2, <3>1, SameSlot
  <2>2. Slot(a - Capacity + Wrap) = Slot(a)
    <3>1. Capacity * (k - 1) = Wrap - Capacity
      BY <1>3, Constants, SMT
    <3>2. a + Capacity * (k - 1) = a - Capacity + Wrap
      BY <3>1, <1>2, Constants, SMT
    <3>3. k - 1 \in Int
      BY <1>3
    <3> QED
      BY <1>2, <3>2, <3>3, SameSlot, Zenon
  <2> QED
    BY <2>1, <2>2, <1>2, MinusCases
<1>6. Slot(Plus(a, 1)) = Slot(Slot(a) + 1)
  <2> DEFINE q == a \div Capacity
  <2>1. Slot(a) \in Int /\ q \in Int /\ a = Capacity * q + Slot(a)
    BY DivMod, Constants, <1>2 DEF Slot
  <2> HIDE DEF q
  <2>2. a + 1 = (Slot(a) + 1) + Capacity * q
    BY <2>1, Constants, SMT
  <2>3. Slot(a + 1) = Slot(Slot(a) + 1)
    BY <2>1, <2>2, SameSlot
  <2>4. Slot(a + 1 - Wrap) = Slot(a + 1)
    <3>1. (a + 1) + Capacity * (-k) = a + 1 - Wrap
      BY <1>2, <1>3, Constants, SMT
    <3>2. a + 1 \in Int
      BY <1>2
    <3> QED
      BY <1>3, <3>1, <3>2, SameSlot
  <2> QED
    BY <2>3, <2>4, <1>2, PlusCases
<1> QED
  BY <1>4, <1>5, <1>6

\* The last Capacity indices before one fill the ring.
LEMMA SlotsCovered ==
  ASSUME NEW e \in Index, NEW s \in Slots
  PROVE  \E i \in Index : Minus(e, i) \in 1 .. Capacity /\ Slot(i) = s
<1> DEFINE d == (e - 1 - s) % Capacity
           q == (e - 1 - s) \div Capacity
<1>1. d \in 0 .. Capacity - 1 /\ q \in Int /\ e - 1 - s = Capacity * q + d
  BY DivMod, Constants, SMT DEF Index, Slots
<1> HIDE DEF d, q
<1>2. d + 1 \in Index /\ s \in Int /\ e \in Int
  BY <1>1, Constants, SMTT(60) DEF Index, Slots
<1> DEFINE i == Minus(e, d + 1)
<1>3. i \in Index
  BY <1>2, IndexClosed, Zenon
<1>4. i = IF e >= d + 1 THEN e - (d + 1) ELSE e - (d + 1) + Wrap
  BY <1>2, MinusCases, Zenon
<1> HIDE DEF i
<1>5. Minus(e, i) = d + 1
  <2>1. Minus(e, i) = IF e >= i THEN e - i ELSE e - i + Wrap
    BY <1>3, MinusCases
  <2> QED
    BY <2>1, <1>2, <1>3, <1>4, <1>1, Constants, SMT DEF Index
<1>6. Slot(s) = s
  BY Constants, SMT, ModUnique DEF Slot, Slots
<1>7. e - (d + 1) = s + Capacity * q
  BY <1>1, <1>2, Constants, SMT
<1>8. Slot(e - (d + 1)) = s
  BY <1>7, <1>6, <1>1, <1>2, SameSlot
<1>9. Slot(e - (d + 1) + Wrap) = s
  <2>1. PICK k \in 1 .. Wrap : Wrap = k * Capacity
    BY CapacityAssumption
  <2>2. k \in Int /\ e - (d + 1) \in Int
    BY <1>1, <1>2, Constants
  <2>3. Wrap = Capacity * k
    BY <2>1, <2>2, Constants, SMT
  <2> QED
    BY <2>2, <2>3, <1>8, SameSlot
<1>10. Slot(i) = s
  BY <1>4, <1>8, <1>9
<1>11. Minus(e, i) \in 1 .. Capacity
  BY <1>1, <1>5, Constants, SMT
<1> QED
  BY <1>3, <1>10, <1>11

-----------------------------------------------------------------------------
(***************************************************************************)
(* Tickets: indices issued to producers up to e and to consumers up to d.  *)
(* The last Capacity of the former, one for each slot, are filled from d   *)
(* on and vacated before it.                                               *)
(***************************************************************************)
FilledIn(e, d, i) == Minus(i, d) < Minus(e, d)

VacatedIn(e, d, i) == Minus(d, i) \in 1 .. Capacity - Minus(e, d)

\* The sequence numbers a cell goes through are different.
LEMMA TurnsDiffer ==
  ASSUME NEW i \in Index
  PROVE  /\ Plus(i, 1) \in Index /\ Plus(i, Capacity) \in Index
         /\ Minus(i, Capacity) \in Index
         /\ i # Plus(i, 1) /\ i # Plus(i, Capacity) /\ Plus(i, 1) # Plus(i, Capacity)
         /\ Plus(Minus(i, Capacity), Capacity) = i
         /\ Plus(Minus(i, Capacity), 1) # i
         /\ Plus(Minus(i, Capacity), 1) # Plus(i, 1)
<1>1. 1 \in Index /\ Capacity \in Index
  BY Constants, SMT DEF Index
<1>2. Plus(i, 1) \in Index /\ Plus(i, Capacity) \in Index /\ Minus(i, Capacity) \in Index
  BY <1>1, IndexClosed
<1>3. /\ Plus(i, 1) = IF i + 1 < Wrap THEN i + 1 ELSE i + 1 - Wrap
      /\ Plus(i, Capacity) = IF i + Capacity < Wrap THEN i + Capacity ELSE i + Capacity - Wrap
      /\ Minus(i, Capacity) = IF i >= Capacity THEN i - Capacity ELSE i - Capacity + Wrap
  BY <1>1, PlusCases, MinusCases
<1> DEFINE j == Minus(i, Capacity)
<1>4. /\ Plus(j, 1) = IF j + 1 < Wrap THEN j + 1 ELSE j + 1 - Wrap
      /\ Plus(j, Capacity) = IF j + Capacity < Wrap THEN j + Capacity ELSE j + Capacity - Wrap
  BY <1>1, <1>2, PlusCases
<1> QED
  BY <1>2, <1>3, <1>4, Constants, SMT DEF Index

\* Different tickets among the last Capacity ones have different cells.
LEMMA ZonesApart ==
  ASSUME NEW e \in Index, NEW d \in Index, Minus(e, d) <= Capacity,
         NEW i \in Index, NEW j \in Index, i # j,
         FilledIn(e, d, i) \/ VacatedIn(e, d, i),
         FilledIn(e, d, j) \/ VacatedIn(e, d, j)
  PROVE  Slot(i) # Slot(j)
<1>1. /\ Minus(e, d) = IF e >= d THEN e - d ELSE e - d + Wrap
      /\ Minus(i, d) = IF i >= d THEN i - d ELSE i - d + Wrap
      /\ Minus(j, d) = IF j >= d THEN j - d ELSE j - d + Wrap
      /\ Minus(d, i) = IF d >= i THEN d - i ELSE d - i + Wrap
      /\ Minus(d, j) = IF d >= j THEN d - j ELSE d - j + Wrap
      /\ Minus(i, j) = IF i >= j THEN i - j ELSE i - j + Wrap
      /\ Minus(j, i) = IF j >= i THEN j - i ELSE j - i + Wrap
  BY MinusCases
<1>2. \/ 0 < Minus(i, j) /\ Minus(i, j) < Capacity
      \/ 0 < Minus(j, i) /\ Minus(j, i) < Capacity
  BY <1>1, Constants, SMT DEF Index, FilledIn, VacatedIn
<1> QED
  BY <1>2, SlotsDistinctInWindow

\* No ticket is both filled and vacated, and the next ticket of producers is
\* neither.
LEMMA ZonesDisjoint ==
  ASSUME NEW e \in Index, NEW d \in Index, Minus(e, d) <= Capacity, NEW i \in Index
  PROVE  /\ ~(FilledIn(e, d, i) /\ VacatedIn(e, d, i))
         /\ ~FilledIn(e, d, e)
         /\ ~VacatedIn(e, d, d)
<1>1. /\ Minus(e, d) = IF e >= d THEN e - d ELSE e - d + Wrap
      /\ Minus(i, d) = IF i >= d THEN i - d ELSE i - d + Wrap
      /\ Minus(d, i) = IF d >= i THEN d - i ELSE d - i + Wrap
      /\ Minus(d, d) = 0
  BY MinusCases, MinusZero
<1> QED
  BY <1>1, Constants, SMT DEF Index, FilledIn, VacatedIn

\* A producer claims the next ticket: it is filled, and its cell is the one of
\* the oldest vacated ticket.
LEMMA PushShift ==
  ASSUME NEW e \in Index, NEW d \in Index, Minus(e, d) < Capacity
  PROVE  /\ Plus(e, 1) \in Index
         /\ Minus(Plus(e, 1), d) = Minus(e, d) + 1
         /\ VacatedIn(e, d, Minus(e, Capacity))
         /\ \A i \in Index :
              /\ FilledIn(Plus(e, 1), d, i) <=> FilledIn(e, d, i) \/ i = e
              /\ VacatedIn(Plus(e, 1), d, i) <=> VacatedIn(e, d, i) /\ i # Minus(e, Capacity)
<1>1. Capacity \in Index /\ 1 \in Index
  BY Constants, SMT DEF Index
<1>2. Plus(e, 1) \in Index /\ Minus(e, Capacity) \in Index
  BY <1>1, IndexClosed
<1>3. Minus(Plus(e, 1), d) = Minus(e, d) + 1
  <2>1. Minus(e, d) < Wrap - 1
    BY IndexClosed, Constants, SMT DEF Index
  <2> QED
    BY <2>1, MinusAdvance
<1>4. /\ Minus(e, d) = IF e >= d THEN e - d ELSE e - d + Wrap
      /\ Minus(e, Capacity) = IF e >= Capacity THEN e - Capacity ELSE e - Capacity + Wrap
  BY <1>1, MinusCases
<1>5. Minus(d, Minus(e, Capacity)) = Capacity - Minus(e, d)
  <2>1. Minus(d, Minus(e, Capacity)) =
          IF d >= Minus(e, Capacity) THEN d - Minus(e, Capacity) ELSE d - Minus(e, Capacity) + Wrap
    BY <1>2, MinusCases
  <2> QED
    BY <2>1, <1>2, <1>4, Constants, SMT DEF Index
<1>6. ASSUME NEW i \in Index
      PROVE  /\ FilledIn(Plus(e, 1), d, i) <=> FilledIn(e, d, i) \/ i = e
             /\ VacatedIn(Plus(e, 1), d, i) <=> VacatedIn(e, d, i) /\ i # Minus(e, Capacity)
  <2>1. /\ Minus(i, d) = IF i >= d THEN i - d ELSE i - d + Wrap
        /\ Minus(d, i) = IF d >= i THEN d - i ELSE d - i + Wrap
    BY MinusCases
  <2>2. FilledIn(Plus(e, 1), d, i) <=> FilledIn(e, d, i) \/ i = e
    BY <2>1, <1>3, <1>4, Constants, SMT DEF Index, FilledIn
  <2>3. i = Minus(e, Capacity) <=> Minus(d, i) = Capacity - Minus(e, d)
    BY <2>1, <1>4, Constants, SMT DEF Index
  <2>4. VacatedIn(Plus(e, 1), d, i) <=> VacatedIn(e, d, i) /\ i # Minus(e, Capacity)
    BY <2>1, <2>3, <1>3, <1>4, Constants, SMT DEF Index, VacatedIn
  <2> QED
    BY <2>2, <2>4
<1>7. VacatedIn(e, d, Minus(e, Capacity))
  BY <1>4, <1>5, Constants, SMT DEF Index, VacatedIn
<1> QED
  BY <1>2, <1>3, <1>6, <1>7

\* A consumer claims the oldest filled ticket: it is vacated.
LEMMA PopShift ==
  ASSUME NEW e \in Index, NEW d \in Index, 0 < Minus(e, d), Minus(e, d) <= Capacity
  PROVE  /\ Plus(d, 1) \in Index
         /\ Minus(e, Plus(d, 1)) = Minus(e, d) - 1
         /\ FilledIn(e, d, d)
         /\ \A i \in Index :
              /\ FilledIn(e, Plus(d, 1), i) <=> FilledIn(e, d, i) /\ i # d
              /\ VacatedIn(e, Plus(d, 1), i) <=> VacatedIn(e, d, i) \/ i = d
<1>1. 1 \in Index
  BY Constants, SMT DEF Index
<1>2. Plus(d, 1) \in Index /\ Minus(d, d) = 0
  BY <1>1, IndexClosed, MinusZero
<1>3. Minus(e, Plus(d, 1)) = Minus(e, d) - 1
  BY MinusAdvance
<1>4. /\ Minus(e, d) = IF e >= d THEN e - d ELSE e - d + Wrap
      /\ Plus(d, 1) = IF d + 1 < Wrap THEN d + 1 ELSE d + 1 - Wrap
  BY <1>1, MinusCases, PlusCases
<1>5. ASSUME NEW i \in Index
      PROVE  /\ FilledIn(e, Plus(d, 1), i) <=> FilledIn(e, d, i) /\ i # d
             /\ VacatedIn(e, Plus(d, 1), i) <=> VacatedIn(e, d, i) \/ i = d
  <2>1. /\ Minus(i, d) = IF i >= d THEN i - d ELSE i - d + Wrap
        /\ Minus(d, i) = IF d >= i THEN d - i ELSE d - i + Wrap
        /\ Minus(i, Plus(d, 1)) = IF i >= Plus(d, 1) THEN i - Plus(d, 1) ELSE i - Plus(d, 1) + Wrap
        /\ Minus(Plus(d, 1), i) = IF Plus(d, 1) >= i THEN Plus(d, 1) - i ELSE Plus(d, 1) - i + Wrap
    BY <1>2, MinusCases
  <2>2. FilledIn(e, Plus(d, 1), i) <=> FilledIn(e, d, i) /\ i # d
    BY <2>1, <1>3, <1>4, Constants, SMT DEF Index, FilledIn
  <2>3. VacatedIn(e, Plus(d, 1), i) <=> VacatedIn(e, d, i) \/ i = d
    BY <2>1, <1>3, <1>4, Constants, SMTT(60) DEF Index, VacatedIn
  <2> QED
    BY <2>2, <2>3
<1> QED
  BY <1>2, <1>3, <1>5 DEF FilledIn

\* The filled tickets are the ones the destructor and size_approx count; with
\* the vacated ones they are the last Capacity tickets.
LEMMA ZonesCover ==
  ASSUME NEW e \in Index, NEW d \in Index, Minus(e, d) <= Capacity, NEW i \in Index
  PROVE  /\ FilledIn(e, d, i) <=> \E k \in 0 .. Minus(e, d) - 1 : i = Plus(d, k)
         /\ Minus(e, i) \in 1 .. Capacity => FilledIn(e, d, i) \/ VacatedIn(e, d, i)
<1>1. Minus(e, d) \in Index /\ Minus(i, d) \in Index
  BY IndexClosed
<1>2. /\ Minus(e, d) = IF e >= d THEN e - d ELSE e - d + Wrap
      /\ Minus(i, d) = IF i >= d THEN i - d ELSE i - d + Wrap
      /\ Minus(d, i) = IF d >= i THEN d - i ELSE d - i + Wrap
      /\ Minus(e, i) = IF e >= i THEN e - i ELSE e - i + Wrap
  BY MinusCases
<1>3. Minus(e, i) \in 1 .. Capacity => FilledIn(e, d, i) \/ VacatedIn(e, d, i)
  BY <1>2, Constants, SMT DEF Index, FilledIn, VacatedIn
<1>4. ASSUME FilledIn(e, d, i)
      PROVE  \E k \in 0 .. Minus(e, d) - 1 : i = Plus(d, k)
  <2>1. Plus(d, Minus(i, d)) =
          IF d + Minus(i, d) < Wrap THEN d + Minus(i, d) ELSE d + Minus(i, d) - Wrap
    BY <1>1, PlusCases
  <2>2. i = Plus(d, Minus(i, d))
    BY <2>1, <1>2, Constants, SMT DEF Index
  <2>3. Minus(i, d) \in 0 .. Minus(e, d) - 1
    BY <1>1, <1>4, SMT DEF Index, FilledIn
  <2> QED
    BY <2>2, <2>3
<1>5. ASSUME NEW k \in 0 .. Minus(e, d) - 1, i = Plus(d, k)
      PROVE  FilledIn(e, d, i)
  <2>1. k \in Index
    BY <1>1, Constants, SMT DEF Index
  <2>2. i = IF d + k < Wrap THEN d + k ELSE d + k - Wrap
    BY <1>5, <2>1, PlusCases
  <2>3. Minus(i, d) = k
    BY <1>2, <2>1, <2>2, Constants, SMT DEF Index
  <2> QED
    BY <2>3, <1>1, SMT DEF Index, FilledIn
<1> QED
  BY <1>3, <1>4, <1>5

\* Adding nothing, and the distance over nothing.
LEMMA PlusZero ==
  ASSUME NEW i \in Index
  PROVE  Plus(i, 0) = i /\ Minus(i, i) = 0
<1>1. 0 \in Index
  BY Constants DEF Index
<1>2. Plus(i, 0) = IF i + 0 < Wrap THEN i + 0 ELSE i + 0 - Wrap
  BY <1>1, PlusCases
<1> QED
  BY <1>2, MinusZero, Constants, SMT DEF Index

(***************************************************************************)
(* The filled tickets are the ones at the distances 0 .. Minus(e, d) - 1   *)
(* from d, each at one distance.                                           *)
(***************************************************************************)
LEMMA Positions ==
  ASSUME NEW e \in Index, NEW d \in Index
  PROVE  /\ \A k \in 1 .. Minus(e, d) : /\ Plus(d, k - 1) \in Index
                                        /\ FilledIn(e, d, Plus(d, k - 1))
                                        /\ Minus(Plus(d, k - 1), d) = k - 1
         /\ \A i \in Index : FilledIn(e, d, i) =>
              /\ Minus(i, d) + 1 \in 1 .. Minus(e, d)
              /\ Plus(d, Minus(i, d)) = i
         /\ Plus(d, Minus(e, d)) = e
<1>1. Minus(e, d) \in Index
  BY IndexClosed
<1>2. ASSUME NEW k \in 1 .. Minus(e, d)
      PROVE  /\ Plus(d, k - 1) \in Index
             /\ FilledIn(e, d, Plus(d, k - 1))
             /\ Minus(Plus(d, k - 1), d) = k - 1
  <2>1. k - 1 \in Index /\ k - 1 < Minus(e, d)
    BY <1>1, Constants, SMT DEF Index
  <2>2. /\ Plus(d, k - 1) \in Index
        /\ Plus(d, k - 1) = IF d + (k - 1) < Wrap THEN d + (k - 1) ELSE d + (k - 1) - Wrap
    BY <2>1, IndexClosed, PlusCases
  <2>3. Minus(Plus(d, k - 1), d) =
          IF Plus(d, k - 1) >= d THEN Plus(d, k - 1) - d ELSE Plus(d, k - 1) - d + Wrap
    BY <2>2, MinusCases
  <2>4. Minus(Plus(d, k - 1), d) = k - 1
    BY <2>1, <2>2, <2>3, Constants, SMT DEF Index
  <2> QED
    BY <2>1, <2>2, <2>4 DEF FilledIn
<1>3. ASSUME NEW i \in Index
      PROVE  Plus(d, Minus(i, d)) = i /\ Minus(i, d) \in Index
  <2>1. Minus(i, d) \in Index /\ Minus(i, d) = IF i >= d THEN i - d ELSE i - d + Wrap
    BY IndexClosed, MinusCases
  <2>2. Plus(d, Minus(i, d)) =
          IF d + Minus(i, d) < Wrap THEN d + Minus(i, d) ELSE d + Minus(i, d) - Wrap
    BY <2>1, PlusCases
  <2> QED
    BY <2>1, <2>2, Constants, SMT DEF Index
<1>4. ASSUME NEW i \in Index, FilledIn(e, d, i)
      PROVE  Minus(i, d) + 1 \in 1 .. Minus(e, d)
  BY <1>1, <1>3, <1>4, SMT DEF FilledIn, Index
<1> QED
  BY <1>2, <1>3, <1>4

\* The positions after the oldest ticket has left.
LEMMA NextPosition ==
  ASSUME NEW d \in Index, NEW k \in Nat, 0 < k, k < Wrap
  PROVE  Plus(Plus(d, 1), k - 1) = Plus(d, k)
<1>1. k \in Index /\ k - 1 \in Index /\ 1 \in Index /\ Plus(d, 1) \in Index
  BY TurnsDiffer, Constants, SMT DEF Index
<1>2. /\ Plus(d, 1) = IF d + 1 < Wrap THEN d + 1 ELSE d + 1 - Wrap
      /\ Plus(d, k) = IF d + k < Wrap THEN d + k ELSE d + k - Wrap
      /\ Plus(Plus(d, 1), k - 1) = IF Plus(d, 1) + (k - 1) < Wrap THEN Plus(d, 1) + (k - 1)
                                   ELSE Plus(d, 1) + (k - 1) - Wrap
  BY <1>1, PlusCases, Zenon
<1> QED
  BY <1>1, <1>2, Constants, SMT DEF Index

-----------------------------------------------------------------------------
\* The contents of a ring as a sequence.

\* A function on 1 .. n is a sequence of length n.
LEMMA FunctionIsSeq ==
  ASSUME NEW S, NEW n \in Nat, NEW s \in [1 .. n -> S]
  PROVE  s \in Seq(S) /\ Len(s) = n
<1>1. s \in Seq(S)
  OBVIOUS
<1>2. DOMAIN s = 1 .. Len(s) /\ Len(s) \in Nat /\ DOMAIN s = 1 .. n
  BY <1>1
<1> QED
  BY <1>1, <1>2, SMT

\* Sequences are equal position by position.
LEMMA SameSeq ==
  ASSUME NEW S, NEW s \in Seq(S), NEW t \in Seq(S), Len(s) = Len(t),
         \A k \in 1 .. Len(s) : s[k] = t[k]
  PROVE  s = t
OBVIOUS

LEMMA AppendIs ==
  ASSUME NEW S, NEW s \in Seq(S), NEW x \in S, NEW f \in Seq(S), Len(f) = Len(s) + 1,
         \A k \in 1 .. Len(s) : f[k] = s[k], f[Len(s) + 1] = x
  PROVE  f = Append(s, x)
<1>1. /\ Append(s, x) \in Seq(S) /\ Len(Append(s, x)) = Len(s) + 1 /\ Len(s) \in Nat
      /\ \A k \in 1 .. Len(s) : Append(s, x)[k] = s[k]
      /\ Append(s, x)[Len(s) + 1] = x
  OBVIOUS
<1>2. \A k \in 1 .. Len(s) + 1 : k \in 1 .. Len(s) \/ k = Len(s) + 1
  BY <1>1, SMTT(60)
<1>3. \A k \in 1 .. Len(f) : f[k] = Append(s, x)[k]
  BY <1>1, <1>2, SMTT(60)
<1> QED
  BY <1>1, <1>3, SameSeq

LEMMA TailIs ==
  ASSUME NEW S, NEW s \in Seq(S), Len(s) > 0, NEW f \in Seq(S), Len(f) = Len(s) - 1,
         \A k \in 1 .. Len(f) : f[k] = s[k + 1]
  PROVE  s # <<>> /\ Head(s) = s[1] /\ f = Tail(s)
<1>1. /\ s # <<>> /\ Head(s) = s[1]
      /\ Tail(s) \in Seq(S) /\ Len(Tail(s)) = Len(s) - 1
      /\ \A k \in 1 .. Len(s) - 1 : Tail(s)[k] = s[k + 1]
  OBVIOUS
<1> QED
  BY <1>1, SameSeq, SMTT(60)

=============================================================================
