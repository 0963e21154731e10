-------------------------- MODULE AtomicHandleProofs --------------------------
(***************************************************************************)
(* Proofs about AtomicHandle for every set of threads, every capacity and  *)
(* every number of generations.                                            *)
(*                                                                         *)
(* The argument names the list the head leads to: a sequence of slots with *)
(* no repetition, each free and linked to the one after it.  A thread that *)
(* is about to swap the head holds a handle; when the head is still that   *)
(* handle, its generation says that the slot has not left the list since   *)
(* the thread read its link, and the link is the rest of the list.  That   *)
(* generations do not come round meanwhile is MaxRecycles < HalfGens.      *)
(***************************************************************************)
EXTENDS Integers, Sequences, TLAPS
CONSTANTS Threads, Capacity, HalfGens, MaxRecycles, Nobody
VARIABLES cell, next_, generation, owner, cell_call, recycled, sole

Cell == INSTANCE AtomicHandle WITH value_ <- cell, call <- cell_call

\* Handles are odd generations; a thread does not sleep for a whole turn of them.
CellConstants ==
  /\ Capacity \in Nat \ {0} /\ HalfGens \in Nat \ {0}
  /\ MaxRecycles \in Nat /\ MaxRecycles < HalfGens
  /\ Nobody \notin Threads

\* The generations of a handle: give_back adds two to an odd one.
OddGens == {g \in Cell!Gens : g % 2 = 1}

\* Division with remainder has one answer.
LEMMA Divided ==
  ASSUME NEW m \in Nat, m > 0, NEW p \in Int, NEW q \in Int,
         NEW r \in 0 .. m - 1, NEW s \in 0 .. m - 1, m * p + r = m * q + s
  PROVE  p = q /\ r = s
<1>1. m * (p - q) = s - r
  OBVIOUS
<1>2. ~(p - q >= 1)
  <2>1. ASSUME p - q >= 1 PROVE m * (p - q) >= m
    BY <2>1
  <2> QED
    BY <1>1, <2>1
<1>3. ~(p - q <= -1)
  <2>1. ASSUME p - q <= -1 PROVE m * (p - q) <= -m
    BY <2>1
  <2> QED
    BY <1>1, <2>1
<1> QED
  BY <1>1, <1>2, <1>3

\* Generations are integers.
LEMMA OddFacts ==
  ASSUME CellConstants
  PROVE  /\ 0 <= MaxRecycles
         /\ \A g \in OddGens : g \in Int /\ g = g + 2 * 0
BY DEF CellConstants, OddGens, Cell!Gens

\* A packed handle is not null, unpacks to its slot and survives from_packed.
LEMMA PackFacts ==
  ASSUME CellConstants, NEW i \in Cell!Slots, NEW g \in OddGens
  PROVE  /\ Cell!pack(i, g) \in Int /\ Cell!pack(i, g) # Cell!null
         /\ Cell!index(Cell!pack(i, g)) = i
         /\ Cell!from_packed(Cell!pack(i, g)) = Cell!pack(i, g)
         /\ Cell!pack(i, g) \in 0 .. Capacity * 2 * HalfGens
         /\ \A j \in Cell!Slots, h \in OddGens :
              Cell!pack(i, g) = Cell!pack(j, h) => i = j /\ g = h
<1> DEFINE n == g * Capacity + i
<1>1. /\ Capacity \in Nat /\ Capacity > 0 /\ i \in 0 .. Capacity - 1 /\ HalfGens \in Nat
      /\ g \in Int /\ g >= 1 /\ g <= 2 * HalfGens - 1 /\ HalfGens > 0
  BY DEF CellConstants, Cell!Slots, OddGens, Cell!Gens
<1>2. n \in Int /\ n >= Capacity /\ n <= Capacity * 2 * HalfGens
  <2>1. g * Capacity >= Capacity
    BY <1>1
  <2>2. g * Capacity <= (2 * HalfGens - 1) * Capacity
    BY <1>1
  <2>3. (2 * HalfGens - 1) * Capacity = Capacity * 2 * HalfGens - Capacity
    BY <1>1
  <2> QED
    BY <1>1, <2>1, <2>2, <2>3
<1>3. n % Capacity \in 0 .. Capacity - 1 /\ n \div Capacity \in Int
      /\ n = Capacity * (n \div Capacity) + (n % Capacity)
  BY <1>1, <1>2
<1>4. n = Capacity * g + i
  BY <1>1
<1>5. n \div Capacity = g /\ n % Capacity = i
  BY <1>1, <1>3, <1>4, Divided
<1>6. ASSUME NEW j \in Cell!Slots, NEW h \in OddGens, h * Capacity + j = n
      PROVE  i = j /\ g = h
  <2>1. j \in 0 .. Capacity - 1 /\ h \in Int
    BY DEF Cell!Slots, OddGens, Cell!Gens
  <2>2. Capacity * h + j = Capacity * g + i
    BY <1>1, <1>4, <1>6, <2>1
  <2> QED
    BY <1>1, <2>1, <2>2, Divided
<1>7. Cell!pack(i, g) = n
  BY Zenon DEF Cell!pack
<1>8. n # 0 /\ n \in 0 .. Capacity * 2 * HalfGens
  BY <1>1, <1>2
<1> HIDE DEF n
<1>9. Cell!index(n) = i
  BY <1>5, Zenon DEF Cell!index
<1>10. Cell!from_packed(n) = n
  BY <1>1, <1>5 DEF Cell!from_packed, Cell!canonical
<1>11. \A j \in Cell!Slots, h \in OddGens : n = Cell!pack(j, h) => i = j /\ g = h
  BY <1>6, Zenon DEF Cell!pack
<1> QED
  BY <1>2, <1>7, <1>8, <1>9, <1>10, <1>11, Zenon DEF Cell!null

\* The generation after g is odd too.
LEMMA NextGen ==
  ASSUME CellConstants, NEW g \in OddGens
  PROVE  /\ (g + 2) % (2 * HalfGens) \in OddGens
         /\ \/ (g + 2) % (2 * HalfGens) = g + 2
            \/ (g + 2) % (2 * HalfGens) = g + 2 - 2 * HalfGens
<1>1. PICK w \in Nat : w = 2 * HalfGens
  BY DEF CellConstants
<1>2. /\ HalfGens \in Nat \ {0} /\ w >= 2
      /\ g \in Int /\ g >= 1 /\ g <= w - 1 /\ g % 2 = 1
  BY <1>1 DEF CellConstants, OddGens, Cell!Gens
<1>3. PICK m : m = (g + 2) % w
  OBVIOUS
<1>4. (m = g + 2 /\ g + 2 < w) \/ (m = g + 2 - w /\ g + 2 >= w)
  <2>1. CASE g + 2 < w
    BY <1>2, <1>3, <2>1
  <2>2. CASE g + 2 >= w
    <3>1. /\ m \in 0 .. w - 1 /\ (g + 2) \div w \in Int
          /\ g + 2 = w * ((g + 2) \div w) + m
      BY <1>2, <1>3
    <3>2. CASE g + 2 - w \in 0 .. w - 1
      <4>1. w * ((g + 2) \div w) + m = w * 1 + (g + 2 - w)
        BY <1>2, <3>1
      <4> QED
        BY <1>2, <2>2, <3>1, <3>2, <4>1, Divided
    <3>3. CASE ~(g + 2 - w \in 0 .. w - 1)
      <4>1. w = 2 /\ g = 1
        BY <1>2, <2>2, <3>3
      <4> QED
        BY <1>3, <2>2, <4>1
    <3> QED
      BY <3>2, <3>3, Zenon
  <2> QED
    BY <1>2, <2>1, <2>2
<1>5. m \in 0 .. w - 1 /\ m % 2 = 1
  BY <1>1, <1>2, <1>4
<1>6. m \in OddGens
  BY <1>1, <1>5 DEF OddGens, Cell!Gens
<1> QED
  BY <1>1, <1>3, <1>4, <1>6, Zenon

\* What a cell or a link says of the rest of list f from its k-th slot on.
Link(f, k) == IF k \in 1 .. Len(f) THEN Cell!pack(f[k], generation[f[k]]) ELSE Cell!null

\* The free slots are exactly those of f, linked in its order.
OnList(f) ==
  /\ f \in Seq(Cell!Slots)
  /\ \A j, k \in 1 .. Len(f) : f[j] = f[k] => j = k
  /\ \A i \in Cell!Slots : owner[i] = Nobody <=> \E k \in 1 .. Len(f) : f[k] = i
  /\ cell = Link(f, 1)
  /\ \A k \in 1 .. Len(f) : next_[f[k]] = Link(f, k + 1)

\* Where a call may be.
CellSteps == {"idle", "taking", "take exchange", "giving", "give exchange"}

\* Types of the state.
CellTypes ==
  /\ cell \in Int /\ next_ \in [Cell!Slots -> Int]
  /\ generation \in [Cell!Slots -> OddGens]
  /\ owner \in [Cell!Slots -> Threads \cup {Nobody}]
  /\ cell_call \in [Threads -> [at : CellSteps, observed : Int, desired : Int]]
  /\ recycled \in [Threads -> Nat]
  /\ sole = TRUE

\* A link is null past the end of the list, and leads to its slot before.
LEMMA LinkFacts ==
  ASSUME CellConstants, CellTypes, NEW f, OnList(f), NEW k \in Nat \ {0}
  PROVE  /\ Link(f, k) \in Int
         /\ Link(f, k) # Cell!null <=> k <= Len(f)
         /\ k <= Len(f) => /\ k \in 1 .. Len(f) /\ f[k] \in Cell!Slots
                           /\ generation[f[k]] \in OddGens
                           /\ Link(f, k) = Cell!pack(f[k], generation[f[k]])
                           /\ Cell!index(Link(f, k)) = f[k]
                           /\ next_[Cell!index(Link(f, k))] = Link(f, k + 1)
<1>1. Len(f) \in Nat /\ (k <= Len(f) <=> k \in 1 .. Len(f))
  BY DEF OnList
<1>2. CASE k \in 1 .. Len(f)
  <2>1. f[k] \in Cell!Slots
    BY <1>2 DEF OnList
  <2>2. generation[f[k]] \in OddGens
    BY <2>1 DEF CellTypes
  <2>3. Link(f, k) = Cell!pack(f[k], generation[f[k]])
    BY <1>2, Zenon DEF Link
  <2>4. next_[f[k]] = Link(f, k + 1)
    BY <1>2, Zenon DEF OnList
  <2>5. /\ Cell!pack(f[k], generation[f[k]]) \in Int
        /\ Cell!pack(f[k], generation[f[k]]) # Cell!null
        /\ Cell!index(Cell!pack(f[k], generation[f[k]])) = f[k]
    BY <2>1, <2>2, PackFacts, Zenon
  <2> QED
    BY <1>1, <1>2, <2>1, <2>2, <2>3, <2>4, <2>5, Zenon
<1>3. CASE k \notin 1 .. Len(f)
  BY <1>1, <1>3 DEF Link, Cell!null
<1> QED
  BY <1>2, <1>3, Zenon

-----------------------------------------------------------------------------
\* A thread that means to take slot i saw it at generation g; since then the
\* slot was given back recycled[u] times.
Observes(u, i, g) ==
  /\ cell_call[u].observed = Cell!pack(i, g)
  /\ recycled[u] <= MaxRecycles
  /\ generation[i] \in {g + 2 * recycled[u], g + 2 * recycled[u] - 2 * HalfGens}
  /\ (cell_call[u].at = "take exchange" /\ recycled[u] = 0 /\ owner[i] = Nobody)
        => cell_call[u].desired = next_[i]

\* A thread that takes knows the slot it observed.
TakerOK(u) ==
  /\ cell_call[u].at = "take exchange" => cell_call[u].observed # Cell!null
  /\ (cell_call[u].at \in {"taking", "take exchange"} /\ cell_call[u].observed # Cell!null)
        => \E i \in Cell!Slots, g \in OddGens : Observes(u, i, g)

\* A thread that gives slot i back owns it, and who meant to take it is late.
Gives(t, i) ==
  /\ owner[i] = t
  /\ cell_call[t].desired = Cell!pack(i, generation[i])
  /\ cell_call[t].at = "give exchange" => next_[i] = cell_call[t].observed
  /\ \A u \in Cell!Taking(i) : recycled[u] >= 1

\* A thread that gives back has a slot to give.
GiverOK(t) ==
  cell_call[t].at \in {"giving", "give exchange"} => \E i \in Cell!Slots : Gives(t, i)

TakersInv == \A u \in Threads : TakerOK(u)
GiversInv == \A t \in Threads : GiverOK(t)

\* The inductive invariant.
CellInv == CellTypes /\ (\E f : OnList(f)) /\ TakersInv /\ GiversInv

\* Initially the list has every slot in order, and no call is under way.
LEMMA CellInit ==
  ASSUME CellConstants, Cell!Init
  PROVE  CellInv
<1> DEFINE f == [k \in 1 .. Capacity |-> k - 1]
<1>1. /\ cell = Cell!pack(0, 1)
      /\ next_ = [i \in Cell!Slots |-> IF i + 1 \in Cell!Slots THEN Cell!pack(i + 1, 1) ELSE Cell!null]
      /\ generation = [i \in Cell!Slots |-> 1]
      /\ owner = [i \in Cell!Slots |-> Nobody]
      /\ cell_call = [t \in Threads |-> Cell!Idle]
      /\ recycled = [t \in Threads |-> 0] /\ sole = TRUE
  BY Zenon DEF Cell!Init
<1>2. Capacity \in Nat /\ Capacity > 0 /\ HalfGens \in Nat /\ HalfGens > 0
  BY DEF CellConstants
<1>3. 1 \in OddGens
  BY <1>2 DEF OddGens, Cell!Gens
<1>4. \A i \in Cell!Slots : Cell!pack(i, 1) \in Int
  BY <1>3, PackFacts, Zenon
<1>5. CellTypes
  <2>1. cell \in Int
    BY <1>1, <1>2, <1>4 DEF Cell!Slots
  <2>2. next_ \in [Cell!Slots -> Int]
    BY <1>1, <1>4 DEF Cell!null
  <2>3. cell_call \in [Threads -> [at : CellSteps, observed : Int, desired : Int]]
    BY <1>1 DEF Cell!Idle, Cell!null, CellSteps
  <2>4. /\ generation \in [Cell!Slots -> OddGens] /\ recycled \in [Threads -> Nat]
        /\ owner \in [Cell!Slots -> Threads \cup {Nobody}]
    BY <1>1, <1>3
  <2> QED
    BY <1>1, <2>1, <2>2, <2>3, <2>4, Zenon DEF CellTypes
<1>6. f \in Seq(Cell!Slots) /\ Len(f) = Capacity /\ \A k \in 1 .. Capacity : f[k] = k - 1
  BY <1>2 DEF Cell!Slots
<1> HIDE DEF f
<1>7. OnList(f)
  <2>1. \A j, k \in 1 .. Len(f) : f[j] = f[k] => j = k
    BY <1>2, <1>6
  <2>2. ASSUME NEW i \in Cell!Slots
        PROVE  owner[i] = Nobody /\ \E k \in 1 .. Len(f) : f[k] = i
    <3>1. i + 1 \in 1 .. Len(f) /\ f[i + 1] = i
      BY <1>2, <1>6 DEF Cell!Slots
    <3> QED
      BY <1>1, <3>1, Zenon
  <2>3. ASSUME NEW k \in 1 .. Len(f)
        PROVE  generation[f[k]] = 1 /\ Link(f, k) = Cell!pack(k - 1, 1)
    <3>1. f[k] \in Cell!Slots /\ f[k] = k - 1
      BY <1>6
    <3> QED
      BY <1>1, <3>1, Zenon DEF Link
  <2>4. cell = Link(f, 1)
    <3>1. 1 \in 1 .. Len(f) /\ 1 - 1 = 0
      BY <1>2, <1>6
    <3> QED
      BY <1>1, <2>3, <3>1
  <2>5. ASSUME NEW k \in 1 .. Len(f)
        PROVE  next_[f[k]] = Link(f, k + 1)
    <3>1. f[k] \in Cell!Slots /\ f[k] = k - 1 /\ f[k] + 1 = k /\ (k + 1) - 1 = k
      BY <1>6
    <3>2. next_[f[k]] = IF k \in Cell!Slots THEN Cell!pack(k, 1) ELSE Cell!null
      BY <1>1, <3>1
    <3>3. CASE k + 1 \in 1 .. Len(f)
      <4>1. k \in Cell!Slots
        BY <1>2, <1>6, <3>3 DEF Cell!Slots
      <4>2. Link(f, k + 1) = Cell!pack(k, 1)
        BY <2>3, <3>1, <3>3
      <4> QED
        BY <3>2, <4>1, <4>2, Zenon
    <3>4. CASE k + 1 \notin 1 .. Len(f)
      <4>1. k \notin Cell!Slots
        BY <1>2, <1>6, <3>4 DEF Cell!Slots
      <4> QED
        BY <3>2, <3>4, <4>1, Zenon DEF Link
    <3> QED
      BY <3>3, <3>4, Zenon
  <2> QED
    BY <1>6, <2>1, <2>2, <2>4, <2>5, Zenon DEF OnList
<1>8. \A t \in Threads : cell_call[t].at = "idle"
  BY <1>1 DEF Cell!Idle
<1>9. TakersInv /\ GiversInv
  BY <1>8, Zenon DEF TakersInv, GiversInv, TakerOK, GiverOK
<1> QED
  BY <1>5, <1>7, <1>9, Zenon DEF CellInv

\* What a thread reads from the cell.
LEMMA HeadSeen ==
  ASSUME CellConstants, CellInv
  PROVE  /\ cell \in Int /\ Cell!from_packed(cell) = cell
         /\ cell # Cell!null => \E i \in Cell!Slots : /\ owner[i] = Nobody
                                                      /\ cell = Cell!pack(i, generation[i])
<1>1. PICK f : OnList(f)
  BY Zenon DEF CellInv
<1>2. CellTypes /\ cell = Link(f, 1) /\ Len(f) \in Nat /\ 1 \in Nat \ {0}
  BY <1>1 DEF CellInv, OnList
<1>3. CASE 1 <= Len(f)
  <2>1. /\ 1 \in 1 .. Len(f) /\ f[1] \in Cell!Slots /\ generation[f[1]] \in OddGens
        /\ cell = Cell!pack(f[1], generation[f[1]])
    BY <1>1, <1>2, <1>3, LinkFacts, Zenon
  <2>2. owner[f[1]] = Nobody
    BY <1>1, <2>1, Zenon DEF OnList
  <2> QED
    BY <2>1, <2>2, PackFacts, ZenonT(60)
<1>4. CASE ~(1 <= Len(f))
  <2>1. cell = 0
    BY <1>1, <1>2, <1>4, LinkFacts, Zenon DEF Cell!null
  <2>2. Cell!from_packed(0) = 0
    BY DEF Cell!from_packed, Cell!canonical
  <2> QED
    BY <2>1, <2>2 DEF Cell!null
<1> QED
  BY <1>3, <1>4, Zenon

\* The threads that only watch keep what they know, unless slots are given back.
LEMMA TakersKept ==
  ASSUME CellInv, CellConstants, NEW t \in Threads, TakerOK(t)',
         \A u \in Threads \ {t} : cell_call'[u] = cell_call[u] /\ recycled'[u] = recycled[u],
         generation' = generation,
         \A i \in Cell!Slots : owner'[i] = Nobody =>
           \/ owner[i] = Nobody /\ next_'[i] = next_[i]
           \/ \A u \in Cell!Taking(i) : recycled[u] >= 1
  PROVE  TakersInv'
<1>1. ASSUME NEW u \in Threads, u # t
      PROVE  TakerOK(u)'
  <2>1. cell_call'[u] = cell_call[u] /\ recycled'[u] = recycled[u] /\ recycled[u] \in Nat
    BY <1>1 DEF CellInv, CellTypes
  <2>2. TakerOK(u)
    BY Zenon DEF CellInv, TakersInv
  <2>3. ASSUME NEW i \in Cell!Slots, NEW g \in OddGens, Observes(u, i, g),
               cell_call[u].at \in {"taking", "take exchange"}, cell_call[u].observed # Cell!null
        PROVE  Observes(u, i, g)'
    <3>1. /\ cell_call[u].observed = Cell!pack(i, g) /\ recycled[u] <= MaxRecycles
          /\ generation[i] \in {g + 2 * recycled[u], g + 2 * recycled[u] - 2 * HalfGens}
          /\ (cell_call[u].at = "take exchange" /\ recycled[u] = 0 /\ owner[i] = Nobody)
                => cell_call[u].desired = next_[i]
      BY <2>3, Zenon DEF Observes
    <3>2. Cell!index(cell_call[u].observed) = i
      BY <3>1, PackFacts, Zenon
    <3>3. u \in Cell!Taking(i)
      BY <2>3, <3>2, Zenon DEF Cell!Taking
    <3>4. ASSUME recycled[u] = 0, owner'[i] = Nobody
          PROVE  owner[i] = Nobody /\ next_'[i] = next_[i]
      <4>1. ~(recycled[u] >= 1)
        BY <3>4
      <4> QED
        BY <3>3, <3>4, <4>1, Zenon
    <3> QED
      BY <2>1, <3>1, <3>4, Zenon DEF Observes, Cell!pack
  <2> QED
    BY <2>1, <2>2, <2>3, Zenon DEF TakerOK, Cell!null
<1> QED
  BY <1>1, Zenon DEF TakersInv

\* So do the threads that give slots back.
LEMMA GiversKept ==
  ASSUME CellInv, CellConstants, NEW t \in Threads, GiverOK(t)',
         \A u \in Threads \ {t} : cell_call'[u] = cell_call[u] /\ recycled'[u] = recycled[u],
         generation' = generation,
         \A i \in Cell!Slots : owner[i] \in Threads \ {t} =>
           /\ owner'[i] = owner[i] /\ next_'[i] = next_[i]
           /\ t \in Cell!Taking(i)' => t \in Cell!Taking(i) /\ recycled'[t] = recycled[t]
  PROVE  GiversInv'
<1>1. ASSUME NEW u \in Threads, u # t
      PROVE  GiverOK(u)'
  <2>1. cell_call'[u] = cell_call[u]
    BY <1>1, Zenon
  <2>2. GiverOK(u)
    BY Zenon DEF CellInv, GiversInv
  <2>3. ASSUME NEW i \in Cell!Slots, Gives(u, i)
        PROVE  Gives(u, i)'
    <3>1. /\ owner[i] = u /\ cell_call[u].desired = Cell!pack(i, generation[i])
          /\ cell_call[u].at = "give exchange" => next_[i] = cell_call[u].observed
          /\ \A v \in Cell!Taking(i) : recycled[v] >= 1
      BY <2>3, Zenon DEF Gives
    <3>2. /\ owner'[i] = owner[i] /\ next_'[i] = next_[i]
          /\ t \in Cell!Taking(i)' => t \in Cell!Taking(i) /\ recycled'[t] = recycled[t]
      BY <1>1, <3>1, Zenon
    <3>3. ASSUME NEW v \in Cell!Taking(i)'
          PROVE  recycled'[v] >= 1
      <4>1. CASE v = t
        BY <3>1, <3>2, <3>3, <4>1, Zenon
      <4>2. CASE v # t
        <5>1. v \in Threads
          BY <3>3, Zenon DEF Cell!Taking
        <5>2. cell_call'[v] = cell_call[v] /\ recycled'[v] = recycled[v]
          BY <4>2, <5>1, Zenon
        <5>3. v \in Cell!Taking(i)
          BY <3>3, <5>1, <5>2, Zenon DEF Cell!Taking, Cell!null, Cell!index
        <5> QED
          BY <3>1, <5>2, <5>3, Zenon
      <4> QED
        BY <4>1, <4>2, Zenon
    <3> QED
      BY <2>1, <3>1, <3>2, <3>3, Zenon DEF Gives, Cell!pack
  <2> QED
    BY <2>1, <2>2, <2>3, Zenon DEF GiverOK
<1> QED
  BY <1>1, Zenon DEF GiversInv

\* The list is left alone when its slots are.
LEMMA ListKept ==
  ASSUME CellInv, cell' = cell, generation' = generation, owner' = owner,
         \A i \in Cell!Slots : owner[i] = Nobody => next_'[i] = next_[i]
  PROVE  (\E f : OnList(f))'
<1>1. PICK f : OnList(f)
  BY Zenon DEF CellInv
<1>2. \A k : Link(f, k)' = Link(f, k)
  BY Zenon DEF Link, Cell!pack, Cell!null
<1>3. ASSUME NEW k \in 1 .. Len(f)
      PROVE  next_'[f[k]] = Link(f, k + 1)
  <2>1. f[k] \in Cell!Slots
    BY <1>1 DEF OnList
  <2>2. owner[f[k]] = Nobody /\ next_[f[k]] = Link(f, k + 1)
    BY <1>1, <2>1, Zenon DEF OnList
  <2> QED
    BY <2>1, <2>2, Zenon
<1>4. OnList(f)'
  BY <1>1, <1>2, <1>3, ZenonT(60) DEF OnList, Cell!Slots
<1> QED
  BY <1>4, Zenon

\* The cell holds a word that from_packed leaves alone.
LEMMA CellCanonical ==
  ASSUME CellConstants, CellInv
  PROVE  Cell!from_packed(cell) = cell
<1>1. CASE cell = Cell!null
  <2>1. Capacity \in Nat /\ Capacity > 0
    BY DEF CellConstants
  <2>2. 0 \div Capacity = 0
    BY <2>1
  <2> QED
    BY <1>1, <2>2, Zenon DEF Cell!null, Cell!from_packed, Cell!canonical
<1>2. CASE cell # Cell!null
  <2>1. PICK j \in Cell!Slots : cell = Cell!pack(j, generation[j])
    BY <1>2, HeadSeen, Zenon
  <2>2. generation[j] \in OddGens
    BY DEF CellInv, CellTypes
  <2> QED
    BY <2>1, <2>2, PackFacts, Zenon
<1> QED
  BY <1>1, <1>2, Zenon

\* The records of a call.
CellCalls == [at : CellSteps, observed : Int, desired : Int]

\* Fields of a call are set, as the whole record it becomes.
SetsDesired(t, n, a) == cell_call' = [cell_call EXCEPT ![t].desired = n, ![t].at = a]
SetsObserved(t, n, a) == cell_call' = [cell_call EXCEPT ![t].observed = n, ![t].at = a]
SetsStep(t, a) == cell_call' = [cell_call EXCEPT ![t].at = a]

\* The call becomes a record with these fields.
Becomes(t, a, o, d) ==
  \E c \in CellCalls : /\ c.at = a /\ c.observed = o /\ c.desired = d
                       /\ cell_call' = [cell_call EXCEPT ![t] = c]

\* The next three state what an update of two fields makes of the call.
LEMMA DesiredSet ==
  ASSUME cell_call \in [Threads -> CellCalls], NEW t \in Threads, NEW a \in CellSteps,
         NEW n \in Int, SetsDesired(t, n, a)
  PROVE  Becomes(t, a, cell_call[t].observed, n)
<1>1. PICK d : d = [at |-> a, observed |-> cell_call[t].observed, desired |-> n]
  BY Zenon
<1>2. d \in CellCalls /\ d.at = a /\ d.observed = cell_call[t].observed /\ d.desired = n
  BY <1>1 DEF CellCalls
<1>3. PICK c : c = cell_call[t]
  OBVIOUS
<1>4. DOMAIN c = {"at", "observed", "desired"}
  BY <1>3 DEF CellCalls
<1>5. PICK e : e = [at |-> c.at, observed |-> c.observed, desired |-> n]
  BY Zenon
<1>6. [c EXCEPT !.desired = n] = e
  BY <1>4, <1>5
<1>7. [e EXCEPT !.at = a] = d
  BY <1>1, <1>3, <1>5
<1>8. [cell_call EXCEPT ![t].desired = n, ![t].at = a] = [cell_call EXCEPT ![t] = d]
  BY <1>3, <1>6, <1>7, Zenon
<1>9. cell_call' = [cell_call EXCEPT ![t] = d]
  BY <1>8, Zenon DEF SetsDesired
<1> QED
  BY <1>2, <1>9, Zenon DEF Becomes

LEMMA ObservedSet ==
  ASSUME cell_call \in [Threads -> CellCalls], NEW t \in Threads, NEW a \in CellSteps,
         NEW n \in Int, SetsObserved(t, n, a)
  PROVE  Becomes(t, a, n, cell_call[t].desired)
<1>1. PICK d : d = [at |-> a, observed |-> n, desired |-> cell_call[t].desired]
  BY Zenon
<1>2. d \in CellCalls /\ d.at = a /\ d.observed = n /\ d.desired = cell_call[t].desired
  BY <1>1 DEF CellCalls
<1>3. PICK c : c = cell_call[t]
  OBVIOUS
<1>4. DOMAIN c = {"at", "observed", "desired"}
  BY <1>3 DEF CellCalls
<1>5. PICK e : e = [at |-> c.at, observed |-> n, desired |-> c.desired]
  BY Zenon
<1>6. [c EXCEPT !.observed = n] = e
  BY <1>4, <1>5
<1>7. [e EXCEPT !.at = a] = d
  BY <1>1, <1>3, <1>5
<1>8. [cell_call EXCEPT ![t].observed = n, ![t].at = a] = [cell_call EXCEPT ![t] = d]
  BY <1>3, <1>6, <1>7, Zenon
<1>9. cell_call' = [cell_call EXCEPT ![t] = d]
  BY <1>8, Zenon DEF SetsObserved
<1> QED
  BY <1>2, <1>9, Zenon DEF Becomes

LEMMA StepSet ==
  ASSUME cell_call \in [Threads -> CellCalls], NEW t \in Threads, NEW a \in CellSteps,
         SetsStep(t, a)
  PROVE  Becomes(t, a, cell_call[t].observed, cell_call[t].desired)
<1>1. PICK d : d = [at |-> a, observed |-> cell_call[t].observed, desired |-> cell_call[t].desired]
  BY Zenon
<1>2. d \in CellCalls /\ d.at = a /\ d.observed = cell_call[t].observed /\ d.desired = cell_call[t].desired
  BY <1>1 DEF CellCalls
<1>3. PICK c : c = cell_call[t]
  OBVIOUS
<1>4. DOMAIN c = {"at", "observed", "desired"}
  BY <1>3 DEF CellCalls
<1>5. [c EXCEPT !.at = a] = d
  BY <1>1, <1>3, <1>4
<1>8. [cell_call EXCEPT ![t].at = a] = [cell_call EXCEPT ![t] = d]
  BY <1>3, <1>5, Zenon
<1>9. cell_call' = [cell_call EXCEPT ![t] = d]
  BY <1>8, Zenon DEF SetsStep
<1> QED
  BY <1>2, <1>9, Zenon DEF Becomes

\* A call that has returned is one of the calls.
LEMMA IdleCell == Cell!Idle \in CellCalls /\ Cell!Idle.at = "idle"
BY DEF Cell!Idle, CellCalls, CellSteps, Cell!null

\* One thread's call moves on.
LEMMA CallMoves ==
  ASSUME CellInv, NEW t \in Threads, NEW c \in CellCalls,
         cell_call' = [cell_call EXCEPT ![t] = c]
  PROVE  /\ cell_call' \in [Threads -> CellCalls] /\ cell_call'[t] = c
         /\ \A u \in Threads \ {t} : cell_call'[u] = cell_call[u]
BY DEF CellInv, CellTypes, CellCalls

\* A load of the cell, alone or in an exchange that fails.
LEMMA LoadKeeps ==
  ASSUME CellConstants, CellInv, NEW t \in Threads, NEW c \in CellCalls,
         cell_call' = [cell_call EXCEPT ![t] = c],
         recycled' = [recycled EXCEPT ![t] = 0],
         UNCHANGED <<cell, next_, generation, owner, sole>>,
         \/ c.at = "taking" /\ c.observed = cell
         \/ c.at = "giving" /\ cell_call[t].at = "give exchange" /\ c.desired = cell_call[t].desired
  PROVE  CellInv'
<1>1. /\ cell_call' \in [Threads -> CellCalls] /\ cell_call'[t] = c
      /\ \A u \in Threads \ {t} : cell_call'[u] = cell_call[u]
  BY CallMoves, Zenon
<1>2. /\ recycled' \in [Threads -> Nat] /\ recycled'[t] = 0
      /\ \A u \in Threads \ {t} : recycled'[u] = recycled[u]
  BY Zenon DEF CellInv, CellTypes
<1>3. CellTypes'
  BY <1>1, <1>2, Zenon DEF CellInv, CellTypes, CellCalls, Cell!Slots, OddGens, Cell!Gens
<1>4. (\E f : OnList(f))'
  BY ListKept, Zenon
<1>5. CASE c.at = "taking" /\ c.observed = cell
  <2>1. TakerOK(t)'
    <3>1. ASSUME cell # Cell!null
          PROVE  \E i \in Cell!Slots, g \in OddGens : Observes(t, i, g)'
      <4>1. PICK i \in Cell!Slots : cell = Cell!pack(i, generation[i])
        BY <3>1, HeadSeen, Zenon
      <4>2. PICK g \in OddGens : g = generation[i]
        BY Zenon DEF CellInv, CellTypes
      <4>3. g = g + 2 * 0 /\ 0 <= MaxRecycles
        BY OddFacts, Zenon
      <4>4. Observes(t, i, g)'
        BY <1>1, <1>2, <1>5, <4>1, <4>2, <4>3, Zenon DEF Observes, Cell!pack
      <4> QED
        BY <4>4, Zenon
    <3> QED
      BY <1>1, <1>5, <3>1, Zenon DEF TakerOK, Cell!null, Cell!Slots, OddGens, Cell!Gens
  <2>2. GiverOK(t)'
    BY <1>1, <1>5, Zenon DEF GiverOK
  <2>3. ASSUME NEW i \in Cell!Slots, t \in Cell!Taking(i)'
        PROVE  owner[i] = Nobody
    <3>1. cell # Cell!null /\ Cell!index(cell) = i
      BY <1>1, <1>5, <2>3, Zenon DEF Cell!Taking, Cell!null, Cell!index
    <3>2. PICK j \in Cell!Slots : owner[j] = Nobody /\ cell = Cell!pack(j, generation[j])
      BY <3>1, HeadSeen, Zenon
    <3>3. generation[j] \in OddGens
      BY Zenon DEF CellInv, CellTypes
    <3> QED
      BY <3>1, <3>2, <3>3, PackFacts, Zenon
  <2>4. TakersInv'
    BY <1>1, <1>2, <2>1, TakersKept, Zenon
  <2>5. \A i \in Cell!Slots : owner[i] \in Threads \ {t} => t \notin Cell!Taking(i)'
    BY <2>3, Zenon DEF CellConstants
  <2>6. GiversInv'
    BY <1>1, <1>2, <2>2, <2>5, GiversKept, Zenon
  <2> QED
    BY <1>3, <1>4, <2>4, <2>6, Zenon DEF CellInv
<1>6. CASE c.at = "giving" /\ cell_call[t].at = "give exchange" /\ c.desired = cell_call[t].desired
  <2>1. TakerOK(t)'
    BY <1>1, <1>6, Zenon DEF TakerOK
  <2>2. \A i : t \notin Cell!Taking(i)'
    BY <1>1, <1>6, Zenon DEF Cell!Taking
  <2>3. GiverOK(t)'
    <3>1. PICK i \in Cell!Slots : Gives(t, i)
      BY <1>6, Zenon DEF CellInv, GiversInv, GiverOK
    <3>2. \A u \in Cell!Taking(i)' : u # t /\ u \in Cell!Taking(i)
      BY <1>1, <2>2, Zenon DEF Cell!Taking, Cell!null, Cell!index
    <3>3. ASSUME NEW u \in Cell!Taking(i)' PROVE recycled'[u] >= 1
      <4>1. u \in Threads \ {t} /\ recycled[u] >= 1
        BY <3>1, <3>2, <3>3, Zenon DEF Gives, Cell!Taking
      <4> QED
        BY <1>2, <4>1, Zenon
    <3>4. c.at # "give exchange"
      BY <1>6, Zenon
    <3>5. Gives(t, i)'
      BY <1>1, <1>6, <3>1, <3>3, <3>4, Zenon DEF Gives, Cell!pack
    <3> QED
      BY <3>5, Zenon DEF GiverOK
  <2>4. TakersInv'
    BY <1>1, <1>2, <2>1, TakersKept, Zenon
  <2>5. GiversInv'
    BY <1>1, <1>2, <2>2, <2>3, GiversKept, Zenon
  <2> QED
    BY <1>3, <1>4, <2>4, <2>5, Zenon DEF CellInv
<1> QED
  BY <1>5, <1>6, Zenon

\* The link of the slot observed is read.
LEMMA ReadKeeps ==
  ASSUME CellConstants, CellInv, NEW t \in Threads, Cell!read_next(t)
  PROVE  CellInv'
<1>1. /\ cell_call[t] \in CellCalls /\ cell_call[t].at = "taking" /\ cell_call[t].observed \in Int
      /\ UNCHANGED <<cell, next_, generation, owner, recycled, sole>>
  BY Zenon DEF CellInv, CellTypes, CellCalls, Cell!read_next
<1>2. (\E f : OnList(f))'
  BY <1>1, ListKept, Zenon
<1>3. ASSUME NEW c \in CellCalls, cell_call' = [cell_call EXCEPT ![t] = c],
             \/ c.at = "idle"
             \/ /\ c.at = "take exchange" /\ c.observed = cell_call[t].observed
                /\ c.observed # Cell!null /\ c.desired = next_[Cell!index(c.observed)]
      PROVE  CellInv'
  <2>1. /\ cell_call' \in [Threads -> CellCalls] /\ cell_call'[t] = c
        /\ \A u \in Threads \ {t} : cell_call'[u] = cell_call[u]
    BY <1>3, CallMoves, Zenon
  <2>2. CellTypes'
    BY <1>1, <2>1, Zenon DEF CellInv, CellTypes, CellCalls, Cell!Slots, OddGens, Cell!Gens
  <2>3. GiverOK(t)'
    BY <1>3, <2>1, Zenon DEF GiverOK
  <2>4. \A i : t \in Cell!Taking(i)' => t \in Cell!Taking(i)
    BY <1>1, <1>3, <2>1, Zenon DEF Cell!Taking
  <2>5. TakerOK(t)'
    <3>1. CASE c.at = "idle"
      BY <2>1, <3>1 DEF TakerOK
    <3>2. CASE /\ c.at = "take exchange" /\ c.observed = cell_call[t].observed
               /\ c.observed # Cell!null /\ c.desired = next_[Cell!index(c.observed)]
      <4>1. PICK i \in Cell!Slots, g \in OddGens : Observes(t, i, g)
        BY <1>1, <3>2, Zenon DEF CellInv, TakersInv, TakerOK
      <4>2. c.observed = Cell!pack(i, g) /\ Cell!index(c.observed) = i
        <5>1. Cell!index(Cell!pack(i, g)) = i
          BY PackFacts, Zenon
        <5>2. c.observed = Cell!pack(i, g)
          BY <3>2, <4>1, Zenon DEF Observes
        <5> QED
          BY <5>1, <5>2, Zenon
      <4>3. Observes(t, i, g)'
        BY <1>1, <2>1, <3>2, <4>1, <4>2, Zenon DEF Observes, Cell!pack
      <4> QED
        BY <2>1, <3>2, <4>3, Zenon DEF TakerOK, Cell!null, Cell!Slots, OddGens, Cell!Gens
    <3> QED
      BY <1>3, <3>1, <3>2, Zenon
  <2>6. TakersInv'
    BY <1>1, <2>1, <2>5, TakersKept, Zenon
  <2>7. GiversInv'
    BY <1>1, <2>1, <2>3, <2>4, GiversKept, Zenon
  <2> QED
    BY <1>2, <2>2, <2>6, <2>7, Zenon DEF CellInv
<1>4. CASE cell_call[t].observed = Cell!null
  <2>1. PICK c : c = Cell!Idle
    OBVIOUS
  <2>2. c \in CellCalls /\ c.at = "idle"
    BY <2>1 DEF Cell!Idle, CellCalls, CellSteps, Cell!null
  <2>3. cell_call' = [cell_call EXCEPT ![t] = c]
    BY <1>4, <2>1, Zenon DEF Cell!read_next
  <2> QED
    BY <1>3, <2>2, <2>3, Zenon
<1>5. CASE cell_call[t].observed # Cell!null
  <2>1. PICK n : n = next_[Cell!index(cell_call[t].observed)]
    OBVIOUS
  <2>2. n \in Int
    <3>1. PICK i \in Cell!Slots, g \in OddGens : Observes(t, i, g)
      BY <1>1, <1>5, Zenon DEF CellInv, TakersInv, TakerOK
    <3>2. Cell!index(cell_call[t].observed) = i
      BY <3>1, PackFacts, Zenon DEF Observes
    <3> QED
      BY <2>1, <3>2, Zenon DEF CellInv, CellTypes
  <2>3. SetsDesired(t, n, "take exchange")
    BY <1>5, <2>1, Zenon DEF Cell!read_next, SetsDesired
  <2>4. cell_call \in [Threads -> CellCalls] /\ "take exchange" \in CellSteps
    BY Zenon DEF CellInv, CellTypes, CellCalls, CellSteps
  <2>5. PICK c \in CellCalls : /\ c.at = "take exchange" /\ c.observed = cell_call[t].observed
                               /\ c.desired = n /\ cell_call' = [cell_call EXCEPT ![t] = c]
    <3>1. Becomes(t, "take exchange", cell_call[t].observed, n)
      BY <2>2, <2>3, <2>4, DesiredSet, Zenon
    <3> QED
      BY <3>1, Zenon DEF Becomes
  <2> QED
    BY <1>3, <1>5, <2>1, <2>5, Zenon
<1> QED
  BY <1>4, <1>5, Zenon

\* A compare-exchange that fails observes the cell.
LEMMA FailKeeps ==
  ASSUME CellConstants, CellInv, NEW t \in Threads, NEW a,
         a = "taking" \/ (a = "giving" /\ cell_call[t].at = "give exchange"),
         cell_call' = [cell_call EXCEPT ![t].observed = Cell!from_packed(cell), ![t].at = a],
         recycled' = [recycled EXCEPT ![t] = 0],
         UNCHANGED <<cell, next_, generation, owner, sole>>
  PROVE  CellInv'
<1>1. a \in CellSteps /\ cell \in Int /\ cell_call \in [Threads -> CellCalls]
  BY Zenon DEF CellSteps, CellInv, CellTypes, CellCalls
<1>2. Cell!from_packed(cell) = cell
  BY CellCanonical, Zenon
<1>3. SetsObserved(t, cell, a)
  BY <1>2, Zenon DEF SetsObserved
<1>4. PICK c \in CellCalls : /\ c.at = a /\ c.observed = cell /\ c.desired = cell_call[t].desired
                             /\ cell_call' = [cell_call EXCEPT ![t] = c]
  <2>1. Becomes(t, a, cell, cell_call[t].desired)
    BY <1>1, <1>3, ObservedSet, Zenon
  <2> QED
    BY <2>1, Zenon DEF Becomes
<1> QED
  BY <1>4, LoadKeeps, Zenon

\* A thread starts to take a slot.
LEMMA TakeKeeps ==
  ASSUME CellConstants, CellInv, NEW t \in Threads, Cell!take(t)
  PROVE  CellInv'
<1>1. Cell!from_packed(cell) = cell /\ cell \in Int
  BY CellCanonical, Zenon DEF CellInv, CellTypes
<1>2. PICK c : c = [at |-> "taking", observed |-> cell, desired |-> 0]
  BY Zenon
<1>3. c \in CellCalls /\ c.at = "taking" /\ c.observed = cell
  BY <1>1, <1>2 DEF CellCalls, CellSteps
<1>4. cell_call' = [cell_call EXCEPT ![t] = c] /\ recycled' = [recycled EXCEPT ![t] = 0]
  BY <1>1, <1>2, Zenon DEF Cell!take, Cell!load, Cell!null
<1>5. UNCHANGED <<cell, next_, generation, owner, sole>>
  BY Zenon DEF Cell!take
<1> QED
  BY <1>3, <1>4, <1>5, LoadKeeps, Zenon

\* An owner's link: no one reads it as the list's.
LEMMA LinkKeeps ==
  ASSUME CellConstants, CellInv, NEW t \in Threads, Cell!link(t)
  PROVE  CellInv'
<1>1. /\ cell_call[t].at = "giving" /\ UNCHANGED <<cell, generation, owner, recycled, sole>>
      /\ next_' = [next_ EXCEPT ![Cell!index(cell_call[t].desired)] = cell_call[t].observed]
      /\ cell_call' = [cell_call EXCEPT ![t].at = "give exchange"]
      /\ cell_call \in [Threads -> CellCalls]
  BY Zenon DEF Cell!link, CellInv, CellTypes, CellCalls
<1>2. PICK i \in Cell!Slots : Gives(t, i)
  BY <1>1, Zenon DEF CellInv, GiversInv, GiverOK
<1>3. generation[i] \in OddGens /\ owner[i] = t /\ owner[i] # Nobody
  BY <1>2, Zenon DEF CellInv, CellTypes, Gives, CellConstants
<1>4. Cell!index(cell_call[t].desired) = i
  BY <1>2, <1>3, PackFacts, Zenon DEF Gives
<1>5. SetsStep(t, "give exchange") /\ "give exchange" \in CellSteps
  BY <1>1, Zenon DEF SetsStep, CellSteps
<1>6. PICK c \in CellCalls : /\ c.at = "give exchange" /\ c.observed = cell_call[t].observed
                             /\ c.desired = cell_call[t].desired
                             /\ cell_call' = [cell_call EXCEPT ![t] = c]
  <2>1. Becomes(t, "give exchange", cell_call[t].observed, cell_call[t].desired)
    BY <1>1, <1>5, StepSet, Zenon
  <2> QED
    BY <2>1, Zenon DEF Becomes
<1>7. c.observed \in Int
  BY DEF CellCalls
<1>8. /\ cell_call' \in [Threads -> CellCalls] /\ cell_call'[t] = c
      /\ \A u \in Threads \ {t} : cell_call'[u] = cell_call[u]
  BY <1>6, CallMoves, Zenon
<1>9. /\ next_' \in [Cell!Slots -> Int] /\ next_'[i] = c.observed
      /\ \A j \in Cell!Slots \ {i} : next_'[j] = next_[j]
  BY <1>1, <1>4, <1>6, <1>7, Zenon DEF CellInv, CellTypes
<1>10. CellTypes'
  BY <1>1, <1>8, <1>9, Zenon DEF CellInv, CellTypes, CellCalls, Cell!Slots, OddGens, Cell!Gens
<1>11. (\E f : OnList(f))'
  <2>1. PICK f : OnList(f)
    BY Zenon DEF CellInv
  <2>2. \A k \in 1 .. Len(f) : next_'[f[k]] = next_[f[k]]
    BY <1>3, <1>9, <2>1, SMTT(60) DEF OnList
  <2>3. OnList(f)'
    BY <1>1, <2>1, <2>2, Zenon DEF OnList, Link, Cell!Slots, Cell!pack, Cell!null
  <2> QED
    BY <2>3, Zenon
<1>12. \A j : t \notin Cell!Taking(j)' /\ t \notin Cell!Taking(j)
  BY <1>1, <1>6, <1>8, Zenon DEF Cell!Taking
<1>13. TakersInv'
  <2>1. TakerOK(t)'
    BY <1>6, <1>8, Zenon DEF TakerOK
  <2>2. \A j \in Cell!Slots : owner'[j] = Nobody => owner[j] = Nobody /\ next_'[j] = next_[j]
    BY <1>1, <1>3, <1>9, Zenon
  <2> QED
    BY <1>1, <1>8, <2>1, <2>2, TakersKept, Zenon
<1>14. GiversInv'
  <2>1. GiverOK(t)'
    <3>1. \A u \in Cell!Taking(i)' : u \in Cell!Taking(i)
      BY <1>8, <1>12, Zenon DEF Cell!Taking, Cell!null, Cell!index
    <3>2. Gives(t, i)'
      BY <1>1, <1>2, <1>6, <1>8, <1>9, <3>1, Zenon DEF Gives, Cell!pack
    <3> QED
      BY <3>2, Zenon DEF GiverOK
  <2>2. \A j \in Cell!Slots : owner[j] \in Threads \ {t} =>
           owner'[j] = owner[j] /\ next_'[j] = next_[j]
    BY <1>1, <1>3, <1>9, Zenon
  <2> QED
    BY <1>1, <1>8, <1>12, <2>1, <2>2, GiversKept, ZenonT(60)
<1> QED
  BY <1>10, <1>11, <1>13, <1>14, Zenon DEF CellInv

\* The head of list f is taken off.
HeadLeaves(f) ==
  /\ \A i \in Cell!Slots : owner'[i] = Nobody <=> owner[i] = Nobody /\ i # f[1]
  /\ cell' = Link(f, 2) /\ UNCHANGED <<next_, generation>>

\* The rest of the list is a list.
LEMMA HeadTaken ==
  ASSUME CellConstants, CellTypes, NEW f, OnList(f), Len(f) >= 1, HeadLeaves(f)
  PROVE  \E h : OnList(h)'
<1>0. cell' = Link(f, 2) /\ UNCHANGED <<next_, generation>>
  BY Zenon DEF HeadLeaves
<1>1. PICK h : h = [k \in 1 .. Len(f) - 1 |-> f[k + 1]]
  BY Zenon
<1>2. f \in Seq(Cell!Slots) /\ Len(f) \in Nat /\ f[1] \in Cell!Slots
  BY DEF OnList
<1>3. h \in Seq(Cell!Slots) /\ Len(h) = Len(f) - 1
  BY <1>1, <1>2
<1>4. \A k \in 1 .. Len(h) : k + 1 \in 1 .. Len(f) /\ h[k] = f[k + 1]
  BY <1>1, <1>2, <1>3
<1>5. \A j, k \in 1 .. Len(f) : f[j] = f[k] => j = k
  BY Zenon DEF OnList
<1>6. ASSUME NEW j \in 1 .. Len(h), NEW k \in 1 .. Len(h), h[j] = h[k] PROVE j = k
  <2>1. j + 1 = k + 1
    BY <1>4, <1>5, <1>6, Zenon
  <2> QED
    BY <2>1
<1>7. ASSUME NEW i \in Cell!Slots
      PROVE  owner'[i] = Nobody <=> \E k \in 1 .. Len(h) : h[k] = i
  <2>1. owner[i] = Nobody <=> \E k \in 1 .. Len(f) : f[k] = i
    BY Zenon DEF OnList
  <2>2. owner'[i] = Nobody <=> owner[i] = Nobody /\ i # f[1]
    BY Zenon DEF HeadLeaves
  <2>3. ASSUME NEW k \in 1 .. Len(f), f[k] = i, i # f[1] PROVE \E j \in 1 .. Len(h) : h[j] = i
    <3>1. k - 1 \in 1 .. Len(h) /\ (k - 1) + 1 = k
      BY <1>2, <1>3, <2>3, SMTT(60)
    <3> QED
      BY <1>4, <2>3, <3>1, ZenonT(60)
  <2>4. ASSUME NEW k \in 1 .. Len(h), h[k] = i PROVE i # f[1] /\ \E j \in 1 .. Len(f) : f[j] = i
    <3>1. k + 1 # 1 /\ 1 \in 1 .. Len(f)
      BY <1>2, <1>3
    <3> QED
      BY <1>4, <1>5, <2>4, <3>1, ZenonT(60)
  <2> QED
    BY <2>1, <2>2, <2>3, <2>4, Zenon
<1>8. ASSUME NEW k \in Nat \ {0} PROVE Link(h, k)' = Link(f, k + 1)
  <2>1. k \in 1 .. Len(h) <=> k + 1 \in 1 .. Len(f)
    BY <1>2, <1>3
  <2>2. CASE k \in 1 .. Len(h)
    BY <1>0, <1>4, <2>1, <2>2, Zenon DEF Link, Cell!pack
  <2>3. CASE k \notin 1 .. Len(h)
    BY <2>1, <2>3, Zenon DEF Link, Cell!null
  <2> QED
    BY <2>2, <2>3, Zenon
<1>9. cell' = Link(h, 1)'
  <2>1. Link(h, 1)' = Link(f, 1 + 1)
    <3>1. 1 \in Nat \ {0}
      OBVIOUS
    <3> QED
      BY <1>8, <3>1, Zenon
  <2>2. 1 + 1 = 2
    OBVIOUS
  <2> QED
    BY <1>0, <2>1, <2>2, Zenon
<1>10. ASSUME NEW k \in 1 .. Len(h) PROVE next_'[h[k]] = Link(h, k + 1)'
  <2>1. k + 1 \in Nat \ {0} /\ k + 1 \in 1 .. Len(f)
    BY <1>2, <1>3
  <2>2. next_[f[k + 1]] = Link(f, (k + 1) + 1)
    BY <2>1, Zenon DEF OnList
  <2> QED
    BY <1>0, <1>4, <1>8, <2>1, <2>2, ZenonT(60)
<1>11. OnList(h)'
  BY <1>3, <1>6, <1>7, <1>9, <1>10, Zenon DEF OnList, Cell!Slots
<1> QED
  BY <1>11, Zenon

\* Slot i goes in front of the list.
SlotEnters(i) ==
  /\ \A j \in Cell!Slots : owner'[j] = Nobody <=> owner[j] = Nobody \/ j = i
  /\ cell' = Cell!pack(i, generation[i]) /\ next_[i] = cell
  /\ UNCHANGED <<next_, generation>>

\* The list with a slot in front of it is a list.
LEMMA SlotGiven ==
  ASSUME CellConstants, CellTypes, NEW f, OnList(f), NEW i \in Cell!Slots, owner[i] # Nobody,
         SlotEnters(i)
  PROVE  \E h : OnList(h)'
<1>0. /\ cell' = Cell!pack(i, generation[i]) /\ next_[i] = cell
      /\ UNCHANGED <<next_, generation>>
  BY Zenon DEF SlotEnters
<1>1. PICK h : h = [k \in 1 .. Len(f) + 1 |-> IF k = 1 THEN i ELSE f[k - 1]]
  BY Zenon
<1>2. f \in Seq(Cell!Slots) /\ Len(f) \in Nat
  BY DEF OnList
<1>3. h \in Seq(Cell!Slots) /\ Len(h) = Len(f) + 1
  BY <1>1, <1>2, SMTT(60)
<1>4. 1 \in 1 .. Len(h) /\ h[1] = i
  BY <1>1, <1>2, <1>3, SMTT(60)
<1>5. \A k \in 1 .. Len(h) : k # 1 => k - 1 \in 1 .. Len(f) /\ h[k] = f[k - 1]
  BY <1>1, <1>2, <1>3, SMTT(60)
<1>6. \A k \in 1 .. Len(f) : k + 1 \in 1 .. Len(h) /\ k + 1 # 1 /\ (k + 1) - 1 = k
  BY <1>2, <1>3
<1>7. \A j, k \in 1 .. Len(f) : f[j] = f[k] => j = k
  BY Zenon DEF OnList
<1>8. \A k \in 1 .. Len(f) : f[k] # i
  BY Zenon DEF OnList
<1>9. ASSUME NEW j \in 1 .. Len(h), NEW k \in 1 .. Len(h), h[j] = h[k] PROVE j = k
  <2>1. CASE j = 1 \/ k = 1
    BY <1>4, <1>5, <1>8, <1>9, <2>1, ZenonT(60)
  <2>2. CASE j # 1 /\ k # 1
    <3>1. /\ j - 1 \in 1 .. Len(f) /\ h[j] = f[j - 1]
          /\ k - 1 \in 1 .. Len(f) /\ h[k] = f[k - 1]
      BY <1>5, <2>2, Zenon
    <3>2. j - 1 = k - 1
      BY <1>7, <1>9, <3>1, Zenon
    <3> QED
      BY <3>2
  <2> QED
    BY <2>1, <2>2, Zenon
<1>10. ASSUME NEW j \in Cell!Slots
       PROVE  owner'[j] = Nobody <=> \E k \in 1 .. Len(h) : h[k] = j
  <2>1. owner[j] = Nobody <=> \E k \in 1 .. Len(f) : f[k] = j
    BY Zenon DEF OnList
  <2>2. owner'[j] = Nobody <=> owner[j] = Nobody \/ j = i
    BY Zenon DEF SlotEnters
  <2>3. ASSUME NEW k \in 1 .. Len(f), f[k] = j PROVE \E l \in 1 .. Len(h) : h[l] = j
    BY <1>5, <1>6, <2>3, ZenonT(60)
  <2>4. ASSUME NEW k \in 1 .. Len(h), h[k] = j, j # i PROVE \E l \in 1 .. Len(f) : f[l] = j
    BY <1>4, <1>5, <2>4, Zenon
  <2> QED
    BY <1>4, <2>1, <2>2, <2>3, <2>4, Zenon
<1>11. ASSUME NEW k \in Nat \ {0} PROVE Link(h, k + 1)' = Link(f, k)
  <2>1. /\ k + 1 \in 1 .. Len(h) <=> k \in 1 .. Len(f)
        /\ k + 1 # 1 /\ (k + 1) - 1 = k
    BY <1>2, <1>3
  <2>2. CASE k \in 1 .. Len(f)
    BY <1>0, <1>5, <2>1, <2>2, Zenon DEF Link, Cell!pack
  <2>3. CASE k \notin 1 .. Len(f)
    BY <2>1, <2>3, Zenon DEF Link, Cell!null
  <2> QED
    BY <2>2, <2>3, Zenon
<1>12. cell' = Link(h, 1)'
  BY <1>0, <1>4, Zenon DEF Link, Cell!pack
<1>13. ASSUME NEW k \in 1 .. Len(h) PROVE next_'[h[k]] = Link(h, k + 1)'
  <2>1. k \in Nat \ {0} /\ (k = 1 \/ k - 1 \in 1 .. Len(f)) /\ (k - 1) + 1 = k
    BY <1>2, <1>3
  <2>2. CASE k = 1
    <3>1. Link(h, k + 1)' = Link(f, 1)
      BY <1>11, <2>1, <2>2, Zenon
    <3>2. cell = Link(f, 1)
      BY Zenon DEF OnList
    <3> QED
      BY <1>0, <1>4, <2>2, <3>1, <3>2, Zenon
  <2>3. CASE k # 1
    <3>1. next_[f[k - 1]] = Link(f, (k - 1) + 1)
      BY <2>1, <2>3, Zenon DEF OnList
    <3>2. Link(h, k + 1)' = Link(f, k)
      BY <1>11, <2>1, Zenon
    <3> QED
      BY <1>0, <1>5, <2>1, <2>3, <3>1, <3>2, Zenon
  <2> QED
    BY <2>2, <2>3, Zenon
<1>14. OnList(h)'
  BY <1>3, <1>9, <1>10, <1>12, <1>13, Zenon DEF OnList, Cell!Slots
<1> QED
  BY <1>14, Zenon

\* compare_exchange_weak takes the head off, or fails.
LEMMA WeakKeeps ==
  ASSUME CellConstants, CellInv, NEW t \in Threads, NEW spurious,
         Cell!compare_exchange_weak(t, spurious)
  PROVE  CellInv'
<1>1. CASE ~(cell = cell_call[t].observed /\ ~spurious)
  <2>1. /\ cell_call' = [cell_call EXCEPT ![t].observed = Cell!from_packed(cell), ![t].at = "taking"]
        /\ recycled' = [recycled EXCEPT ![t] = 0]
        /\ UNCHANGED <<cell, next_, generation, owner, sole>>
    BY <1>1, Zenon DEF Cell!compare_exchange_weak, Cell!CompareExchange, Cell!Exchanges
  <2> QED
    BY <2>1, FailKeeps, Zenon
<1>2. CASE cell = cell_call[t].observed /\ ~spurious
  <2>1. /\ cell_call[t].at = "take exchange" /\ cell' = cell_call[t].desired
        /\ sole' = (sole /\ owner[Cell!index(cell_call[t].observed)] = Nobody)
        /\ owner' = [owner EXCEPT ![Cell!index(cell_call[t].observed)] = t]
        /\ cell_call' = [cell_call EXCEPT ![t] = Cell!Idle]
        /\ recycled' = [recycled EXCEPT ![t] = 0]
        /\ UNCHANGED <<next_, generation>>
    BY <1>2, Zenon DEF Cell!compare_exchange_weak, Cell!CompareExchange, Cell!Exchanges
  <2>2. PICK i \in Cell!Slots, g \in OddGens : Observes(t, i, g)
    BY <2>1, Zenon DEF CellInv, TakersInv, TakerOK
  <2>3. PICK f : OnList(f)
    BY Zenon DEF CellInv
  <2>4. cell = Cell!pack(i, g) /\ cell = Link(f, 1)
    BY <1>2, <2>2, <2>3, Zenon DEF Observes, OnList
  <2>5. Cell!index(cell) = i /\ cell # Cell!null
    BY <2>4, PackFacts, Zenon
  <2>6. Len(f) >= 1 /\ f[1] = i /\ generation[i] = g /\ 1 \in 1 .. Len(f)
    <3>1. 1 \in Nat \ {0} /\ Len(f) \in Nat /\ CellTypes
      BY <2>3 DEF OnList, CellInv
    <3>2. 1 <= Len(f)
      BY <2>3, <2>4, <2>5, <3>1, LinkFacts, Zenon
    <3>3. /\ f[1] \in Cell!Slots /\ generation[f[1]] \in OddGens /\ 1 \in 1 .. Len(f)
          /\ Link(f, 1) = Cell!pack(f[1], generation[f[1]])
      BY <2>3, <3>1, <3>2, LinkFacts, Zenon
    <3>4. i = f[1] /\ g = generation[f[1]]
      <4>1. \A j \in Cell!Slots, h \in OddGens : Cell!pack(i, g) = Cell!pack(j, h) => i = j /\ g = h
        BY PackFacts, Zenon
      <4> QED
        BY <2>4, <3>3, <4>1, Zenon
    <3> QED
      BY <3>1, <3>2, <3>3, <3>4, SMTT(60)
  <2>7. recycled[t] = 0
    <3>1. PICK r \in Nat : r = recycled[t]
      BY Zenon DEF CellInv, CellTypes
    <3>2. r <= MaxRecycles /\ g \in {g + 2 * r, g + 2 * r - 2 * HalfGens}
      BY <2>2, <2>6, <3>1, Zenon DEF Observes
    <3>3. r = 0
      BY <3>2, OddFacts DEF CellConstants
    <3> QED
      BY <3>1, <3>3, Zenon
  <2>8. owner[i] = Nobody
    BY <2>3, <2>6, Zenon DEF OnList
  <2>9. cell' = Link(f, 2)
    <3>1. next_[i] = Link(f, 1 + 1)
      BY <2>3, <2>6, Zenon DEF OnList
    <3>2. cell_call[t].desired = next_[i]
      BY <2>1, <2>2, <2>7, <2>8, Zenon DEF Observes
    <3>3. 1 + 1 = 2
      OBVIOUS
    <3> QED
      BY <2>1, <3>1, <3>2, <3>3, Zenon
  <2>10. owner' = [owner EXCEPT ![i] = t] /\ sole' = TRUE
    BY <1>2, <2>1, <2>5, <2>8, ZenonT(60) DEF CellInv, CellTypes
  <2>11. (\E h : OnList(h))'
    <3>1. \A j \in Cell!Slots : owner'[j] = Nobody <=> owner[j] = Nobody /\ j # f[1]
      BY <2>6, <2>10, SMTT(60) DEF CellInv, CellTypes, CellConstants
    <3>2. CellTypes
      BY Zenon DEF CellInv
    <3>3. HeadLeaves(f)
      BY <2>1, <2>9, <3>1, Zenon DEF HeadLeaves
    <3> QED
      BY <2>3, <2>6, <3>2, <3>3, HeadTaken, Zenon
  <2>12. PICK c \in CellCalls : c = Cell!Idle /\ c.at = "idle"
    BY IdleCell, Zenon
  <2>13. /\ cell_call' \in [Threads -> CellCalls] /\ cell_call'[t] = c
         /\ \A u \in Threads \ {t} : cell_call'[u] = cell_call[u]
    BY <2>1, <2>12, CallMoves, Zenon
  <2>14. /\ recycled' \in [Threads -> Nat]
         /\ \A u \in Threads \ {t} : recycled'[u] = recycled[u]
    BY <2>1, Zenon DEF CellInv, CellTypes
  <2>15. /\ owner' \in [Cell!Slots -> Threads \cup {Nobody}] /\ owner'[i] = t
         /\ \A j \in Cell!Slots \ {i} : owner'[j] = owner[j]
    BY <2>10 DEF CellInv, CellTypes
  <2>16. cell' \in Int
    BY <2>1, Zenon DEF CellInv, CellTypes
  <2>17. CellTypes'
    BY <2>1, <2>10, <2>13, <2>14, <2>15, <2>16, ZenonT(60)
       DEF CellInv, CellTypes, CellCalls, Cell!Slots, OddGens, Cell!Gens
  <2>18. TakerOK(t)' /\ GiverOK(t)' /\ \A j : t \notin Cell!Taking(j)'
    BY <2>12, <2>13, Zenon DEF TakerOK, GiverOK, Cell!Taking
  <2>19. \A j \in Cell!Slots : owner'[j] = Nobody => owner[j] = Nobody /\ next_'[j] = next_[j]
    BY <2>1, <2>8, <2>15, Zenon
  <2>20. \A j \in Cell!Slots : owner[j] \in Threads \ {t} => owner'[j] = owner[j] /\ next_'[j] = next_[j]
    BY <2>1, <2>8, <2>15, Zenon DEF CellConstants
  <2>21. TakersInv'
    BY <2>1, <2>13, <2>14, <2>18, <2>19, TakersKept, ZenonT(60)
  <2>22. GiversInv'
    BY <2>1, <2>13, <2>14, <2>18, <2>20, GiversKept, Zenon
  <2> QED
    BY <2>11, <2>17, <2>21, <2>22, Zenon DEF CellInv
<1> QED
  BY <1>1, <1>2, Zenon

\* compare_exchange_strong puts the slot on the list, or fails.
LEMMA StrongKeeps ==
  ASSUME CellConstants, CellInv, NEW t \in Threads, Cell!compare_exchange_strong(t)
  PROVE  CellInv'
<1>1. CASE cell # cell_call[t].observed
  <2>1. /\ cell_call' = [cell_call EXCEPT ![t].observed = Cell!from_packed(cell), ![t].at = "giving"]
        /\ recycled' = [recycled EXCEPT ![t] = 0] /\ cell_call[t].at = "give exchange"
        /\ UNCHANGED <<cell, next_, generation, owner, sole>>
    BY <1>1, Zenon DEF Cell!compare_exchange_strong, Cell!CompareExchange, Cell!Exchanges
  <2> QED
    BY <2>1, FailKeeps, Zenon
<1>2. CASE cell = cell_call[t].observed
  <2>1. /\ cell_call[t].at = "give exchange" /\ cell' = cell_call[t].desired
        /\ owner' = [owner EXCEPT ![Cell!index(cell_call[t].desired)] = Nobody]
        /\ cell_call' = [cell_call EXCEPT ![t] = Cell!Idle]
        /\ UNCHANGED <<next_, generation, recycled, sole>>
    BY <1>2, Zenon DEF Cell!compare_exchange_strong, Cell!CompareExchange, Cell!Exchanges
  <2>2. PICK i \in Cell!Slots : Gives(t, i)
    BY <2>1, Zenon DEF CellInv, GiversInv, GiverOK
  <2>3. /\ generation[i] \in OddGens /\ owner[i] = t /\ owner[i] # Nobody /\ next_[i] = cell
        /\ cell_call[t].desired = Cell!pack(i, generation[i])
        /\ \A u \in Cell!Taking(i) : recycled[u] >= 1
    BY <1>2, <2>1, <2>2, Zenon DEF CellInv, CellTypes, Gives, CellConstants
  <2>4. Cell!index(cell_call[t].desired) = i
    BY <2>3, PackFacts, Zenon
  <2>5. owner' = [owner EXCEPT ![i] = Nobody] /\ cell' = Cell!pack(i, generation[i])
    BY <2>1, <2>3, <2>4, Zenon
  <2>6. (\E h : OnList(h))'
    <3>1. PICK f : OnList(f)
      BY Zenon DEF CellInv
    <3>2. \A j \in Cell!Slots : owner'[j] = Nobody <=> owner[j] = Nobody \/ j = i
      BY <2>5 DEF CellInv, CellTypes
    <3>3. CellTypes
      BY Zenon DEF CellInv
    <3>4. SlotEnters(i)
      BY <2>1, <2>3, <2>5, <3>2, Zenon DEF SlotEnters
    <3> QED
      BY <2>3, <3>1, <3>3, <3>4, SlotGiven, Zenon
  <2>7. PICK c \in CellCalls : c = Cell!Idle /\ c.at = "idle"
    BY IdleCell, Zenon
  <2>8. /\ cell_call' \in [Threads -> CellCalls] /\ cell_call'[t] = c
        /\ \A u \in Threads \ {t} : cell_call'[u] = cell_call[u]
    BY <2>1, <2>7, CallMoves, Zenon
  <2>9. /\ owner' \in [Cell!Slots -> Threads \cup {Nobody}]
        /\ \A j \in Cell!Slots \ {i} : owner'[j] = owner[j]
    BY <2>5 DEF CellInv, CellTypes
  <2>10. cell' \in Int
    BY <2>1, Zenon DEF CellInv, CellTypes
  <2>11. CellTypes'
    BY <2>1, <2>8, <2>9, <2>10, Zenon
       DEF CellInv, CellTypes, CellCalls, Cell!Slots, OddGens, Cell!Gens
  <2>12. TakerOK(t)' /\ GiverOK(t)' /\ \A j : t \notin Cell!Taking(j)'
    BY <2>7, <2>8, Zenon DEF TakerOK, GiverOK, Cell!Taking
  <2>13. \A j \in Cell!Slots : owner'[j] = Nobody =>
            \/ owner[j] = Nobody /\ next_'[j] = next_[j]
            \/ \A u \in Cell!Taking(j) : recycled[u] >= 1
    BY <2>1, <2>3, <2>9, ZenonT(60)
  <2>14. \A j \in Cell!Slots : owner[j] \in Threads \ {t} => owner'[j] = owner[j] /\ next_'[j] = next_[j]
    BY <2>1, <2>3, <2>9, Zenon
  <2>15. TakersInv'
    BY <2>1, <2>8, <2>12, <2>13, TakersKept, ZenonT(60)
  <2>16. GiversInv'
    BY <2>1, <2>8, <2>12, <2>14, GiversKept, ZenonT(60)
  <2> QED
    BY <2>6, <2>11, <2>15, <2>16, ZenonT(60) DEF CellInv
<1> QED
  BY <1>1, <1>2, Zenon

\* The owner of slot i advances its generation.
Advances(i) ==
  /\ \A j \in Cell!Slots \ {i} : generation'[j] = generation[j]
  /\ \/ generation'[i] = generation[i] + 2
     \/ generation'[i] = generation[i] + 2 - 2 * HalfGens
  /\ \A u \in Threads : u \notin Cell!Taking(i) => recycled'[u] = recycled[u]
  /\ \A u \in Cell!Taking(i) : /\ recycled'[u] = recycled[u] + 1
                               /\ recycled'[u] <= MaxRecycles
  /\ generation' \in [Cell!Slots -> OddGens] /\ recycled' \in [Threads -> Nat]

\* What give_back does to the generations.
LEMMA GivenBack ==
  ASSUME CellConstants, CellInv, NEW t \in Threads, NEW i \in Cell!Slots, Cell!give_back(t, i)
  PROVE  Advances(i)
<1>1. /\ generation' = [generation EXCEPT ![i] = (generation[i] + 2) % (2 * HalfGens)]
      /\ recycled' = [u \in Threads |-> recycled[u] + IF u \in Cell!Taking(i) THEN 1 ELSE 0]
      /\ \A u \in Cell!Taking(i) : recycled[u] < MaxRecycles
  BY Zenon DEF Cell!give_back
<1>2. PICK g \in OddGens : g = generation[i]
  BY Zenon DEF CellInv, CellTypes
<1>3. PICK m : m = (g + 2) % (2 * HalfGens)
  OBVIOUS
<1>4. m \in OddGens /\ (m = g + 2 \/ m = g + 2 - 2 * HalfGens)
  BY <1>3, NextGen, Zenon
<1>5. generation' = [generation EXCEPT ![i] = m]
  BY <1>1, <1>2, <1>3, Zenon
<1>6. /\ generation' \in [Cell!Slots -> OddGens] /\ generation'[i] = m
      /\ \A j \in Cell!Slots \ {i} : generation'[j] = generation[j]
  BY <1>4, <1>5, Zenon DEF CellInv, CellTypes
<1>7. recycled \in [Threads -> Nat] /\ MaxRecycles \in Nat /\ Cell!Taking(i) \subseteq Threads
  BY Zenon DEF CellInv, CellTypes, CellConstants, Cell!Taking
<1>8. ASSUME NEW u \in Threads
      PROVE  /\ recycled'[u] \in Nat
             /\ u \notin Cell!Taking(i) => recycled'[u] = recycled[u]
             /\ u \in Cell!Taking(i) => recycled'[u] = recycled[u] + 1 /\ recycled'[u] <= MaxRecycles
  <2>1. PICK r \in Nat : r = recycled[u]
    BY <1>7, Zenon
  <2>2. CASE u \in Cell!Taking(i)
    <3>1. recycled'[u] = r + 1 /\ r < MaxRecycles
      BY <1>1, <2>1, <2>2, Zenon
    <3> QED
      BY <1>7, <2>1, <2>2, <3>1
  <2>3. CASE u \notin Cell!Taking(i)
    <3>1. recycled'[u] = r + 0
      BY <1>1, <2>1, <2>3, Zenon
    <3> QED
      BY <2>1, <2>3, <3>1
  <2> QED
    BY <2>2, <2>3, Zenon
<1>9. recycled' \in [Threads -> Nat]
  <2>1. PICK R : R = recycled'
    OBVIOUS
  <2>2. R = [u \in Threads |-> R[u]]
    BY <1>1, <2>1, Zenon
  <2> QED
    BY <1>8, <2>1, <2>2, Zenon
<1>10. generation'[i] = generation[i] + 2 \/ generation'[i] = generation[i] + 2 - 2 * HalfGens
  BY <1>2, <1>4, <1>6, ZenonT(60)
<1> QED
  BY <1>6, <1>7, <1>8, <1>9, <1>10, ZenonT(60) DEF Advances

\* Who saw the slot before sees it one turn later.
LEMMA TurnSeen ==
  ASSUME CellConstants, NEW g \in OddGens, NEW r \in Nat, r + 1 <= MaxRecycles,
         NEW h \in Int, h \in {g + 2 * r, g + 2 * r - 2 * HalfGens},
         NEW n \in OddGens, n \in {h + 2, h + 2 - 2 * HalfGens}
  PROVE  n \in {g + 2 * (r + 1), g + 2 * (r + 1) - 2 * HalfGens}
<1>1. /\ HalfGens \in Nat /\ MaxRecycles \in Nat /\ MaxRecycles < HalfGens
      /\ g \in Int /\ g <= 2 * HalfGens - 1 /\ n \in Int /\ n >= 0
  BY DEF CellConstants, OddGens, Cell!Gens
<1> QED
  BY <1>1, SMTT(60)

\* An owner starts to give its slot back.
LEMMA GiveBackKeeps ==
  ASSUME CellConstants, CellInv, NEW t \in Threads, NEW i \in Cell!Slots, Cell!give_back(t, i)
  PROVE  CellInv'
<1>1. /\ cell_call[t].at = "idle" /\ owner[i] = t /\ owner[i] # Nobody
      /\ UNCHANGED <<cell, next_, owner, sole>>
  BY Zenon DEF Cell!give_back, CellConstants
<1>2. Advances(i)
  BY GivenBack, Zenon
<1>3. /\ \A j \in Cell!Slots \ {i} : generation'[j] = generation[j]
      /\ generation'[i] = generation[i] + 2 \/ generation'[i] = generation[i] + 2 - 2 * HalfGens
      /\ generation' \in [Cell!Slots -> OddGens] /\ recycled' \in [Threads -> Nat]
  BY <1>2, Zenon DEF Advances
<1>4. PICK m \in OddGens : m = generation'[i]
  BY <1>3, Zenon
<1>5. cell \in Int /\ Cell!from_packed(cell) = cell
  BY CellCanonical, Zenon DEF CellInv, CellTypes
<1>6. PICK c : c = [at |-> "giving", observed |-> cell, desired |-> Cell!pack(i, m)]
  BY Zenon
<1>7. c \in CellCalls /\ c.at = "giving" /\ c.desired = Cell!pack(i, m)
  <2>1. Cell!pack(i, m) \in Int
    BY PackFacts, Zenon
  <2> QED
    BY <1>5, <1>6, <2>1 DEF CellCalls, CellSteps
<1>8. cell_call' = [cell_call EXCEPT ![t] = c]
  BY <1>4, <1>5, <1>6, Zenon DEF Cell!give_back, Cell!pack
<1>9. /\ cell_call' \in [Threads -> CellCalls] /\ cell_call'[t] = c
      /\ \A u \in Threads \ {t} : cell_call'[u] = cell_call[u]
  BY <1>7, <1>8, CallMoves, Zenon
<1>10. CellTypes'
  BY <1>1, <1>3, <1>9, Zenon DEF CellInv, CellTypes, CellCalls, Cell!Slots, OddGens, Cell!Gens
<1>11. (\E f : OnList(f))'
  <2>1. PICK f : OnList(f)
    BY Zenon DEF CellInv
  <2>2. \A k \in 1 .. Len(f) : f[k] \in Cell!Slots /\ f[k] # i
    BY <1>1, <2>1 DEF OnList
  <2>3. \A k \in 1 .. Len(f) : generation'[f[k]] = generation[f[k]]
    BY <1>3, <2>2, Zenon
  <2>4. \A k : Link(f, k)' = Link(f, k)
    BY <2>3, Zenon DEF Link, Cell!pack, Cell!null
  <2>5. OnList(f)'
    BY <1>1, <2>1, <2>4, ZenonT(60) DEF OnList, Cell!Slots
  <2> QED
    BY <2>5, Zenon
<1>12. \A j : t \notin Cell!Taking(j)'
  BY <1>7, <1>9, Zenon DEF Cell!Taking
<1>13. \A j, u : u \in Cell!Taking(j)' => u \in Cell!Taking(j) /\ u \in Threads \ {t}
  BY <1>9, <1>12, Zenon DEF Cell!Taking, Cell!null, Cell!index
<1>14. ASSUME NEW u \in Threads, u # t PROVE TakerOK(u)'
  <2>1. cell_call'[u] = cell_call[u] /\ TakerOK(u)
    BY <1>9, <1>14, Zenon DEF CellInv, TakersInv
  <2>2. ASSUME cell_call[u].at \in {"taking", "take exchange"}, cell_call[u].observed # Cell!null
        PROVE  \E j \in Cell!Slots, g \in OddGens : Observes(u, j, g)'
    <3>1. PICK j \in Cell!Slots, g \in OddGens : Observes(u, j, g)
      BY <2>1, <2>2, Zenon DEF TakerOK
    <3>2. cell_call[u].observed = Cell!pack(j, g)
      BY <3>1, Zenon DEF Observes
    <3>3. Cell!index(cell_call[u].observed) = j
      BY <3>2, PackFacts, Zenon
    <3>4. u \in Cell!Taking(i) <=> j = i
      BY <2>2, <3>3, Zenon DEF Cell!Taking
    <3>5. CASE j = i
      <4>1. PICK r \in Nat : r = recycled[u]
        BY Zenon DEF CellInv, CellTypes
      <4>2. recycled'[u] = r + 1 /\ r + 1 <= MaxRecycles
        BY <1>2, <3>4, <3>5, <4>1, Zenon DEF Advances
      <4>3. PICK h \in Int : h = generation[i]
        BY OddFacts, Zenon DEF CellInv, CellTypes
      <4>4. h \in {g + 2 * r, g + 2 * r - 2 * HalfGens} /\ m \in {h + 2, h + 2 - 2 * HalfGens}
        BY <1>3, <1>4, <3>1, <3>5, <4>1, <4>3, Zenon DEF Observes
      <4>5. m \in {g + 2 * (r + 1), g + 2 * (r + 1) - 2 * HalfGens}
        BY <4>2, <4>4, TurnSeen, Zenon
      <4>6. r + 1 # 0
        OBVIOUS
      <4>7. Observes(u, j, g)'
        BY <1>4, <2>1, <3>2, <3>5, <4>2, <4>5, <4>6, Zenon DEF Observes, Cell!pack
      <4> QED
        BY <4>7, Zenon
    <3>6. CASE j # i
      <4>1. recycled'[u] = recycled[u] /\ generation'[j] = generation[j]
        BY <1>2, <1>3, <3>4, <3>6, Zenon DEF Advances
      <4>2. Observes(u, j, g)'
        BY <1>1, <2>1, <3>1, <4>1, Zenon DEF Observes, Cell!pack
      <4> QED
        BY <4>2, Zenon
    <3> QED
      BY <3>5, <3>6, Zenon
  <2> QED
    BY <2>1, <2>2, Zenon DEF TakerOK, Cell!null, Cell!Slots, OddGens, Cell!Gens
<1>15. TakerOK(t)'
  BY <1>7, <1>9, Zenon DEF TakerOK
<1>16. TakersInv'
  BY <1>14, <1>15, Zenon DEF TakersInv
<1>17. ASSUME NEW u \in Threads, NEW r \in Nat, r = recycled[u], NEW j, u \in Cell!Taking(j)
       PROVE  recycled'[u] = r \/ recycled'[u] = r + 1
  BY <1>2, <1>17, Zenon DEF Advances
<1>18. GiverOK(t)'
  <2>1. ASSUME NEW u \in Cell!Taking(i)' PROVE recycled'[u] >= 1
    <3>1. u \in Cell!Taking(i) /\ u \in Threads
      BY <1>13, <2>1, Zenon
    <3>2. PICK r \in Nat : r = recycled[u]
      BY <3>1, Zenon DEF CellInv, CellTypes
    <3>3. recycled'[u] = r + 1
      BY <1>2, <3>1, <3>2, Zenon DEF Advances
    <3> QED
      BY <3>3
  <2>2. c.at # "give exchange"
    BY <1>7
  <2>3. Gives(t, i)'
    BY <1>1, <1>4, <1>7, <1>9, <2>1, <2>2, Zenon DEF Gives, Cell!pack
  <2> QED
    BY <2>3, Zenon DEF GiverOK
<1>19. ASSUME NEW u \in Threads, u # t PROVE GiverOK(u)'
  <2>1. cell_call'[u] = cell_call[u] /\ GiverOK(u)
    BY <1>9, <1>19, Zenon DEF CellInv, GiversInv
  <2>2. ASSUME NEW j \in Cell!Slots, Gives(u, j) PROVE Gives(u, j)'
    <3>1. j # i /\ generation'[j] = generation[j]
      BY <1>1, <1>3, <1>19, <2>2, Zenon DEF Gives
    <3>2. ASSUME NEW v \in Cell!Taking(j)' PROVE recycled'[v] >= 1
      <4>1. v \in Cell!Taking(j) /\ v \in Threads /\ recycled[v] >= 1
        BY <1>13, <2>2, <3>2, Zenon DEF Gives
      <4>2. PICK r \in Nat : r = recycled[v]
        BY <4>1, Zenon DEF CellInv, CellTypes
      <4>3. recycled'[v] = r \/ recycled'[v] = r + 1
        BY <1>17, <4>1, <4>2, Zenon
      <4> QED
        BY <4>1, <4>2, <4>3
    <3> QED
      BY <1>1, <2>1, <2>2, <3>1, <3>2, Zenon DEF Gives, Cell!pack
  <2> QED
    BY <2>1, <2>2, Zenon DEF GiverOK, Cell!Slots
<1>20. GiversInv'
  BY <1>18, <1>19, Zenon DEF GiversInv
<1> QED
  BY <1>10, <1>11, <1>16, <1>20, Zenon DEF CellInv

\* The whole list is taken.
LEMMA ExchangeKeeps ==
  ASSUME CellConstants, CellInv, NEW t \in Threads, Cell!exchange(t), OnList(Cell!Chain(cell))
  PROVE  CellInv'
<1>1. PICK f : OnList(f) /\ CellTypes /\ f = Cell!Chain(cell)
  BY Zenon DEF CellInv
<1>2. Cell!from_packed(cell) = cell /\ Cell!Chain(cell) = f
  BY <1>1, CellCanonical, Zenon
<1>3. PICK F : F = {Cell!Chain(Cell!from_packed(cell))[k] :
                      k \in DOMAIN Cell!Chain(Cell!from_packed(cell))}
  BY Zenon
<1>4. /\ cell_call[t].at = "idle" /\ cell' = Cell!null
      /\ sole' = (sole /\ \A i \in F : owner[i] = Nobody)
      /\ owner' = [i \in Cell!Slots |-> IF i \in F THEN t ELSE owner[i]]
      /\ UNCHANGED <<next_, generation, cell_call, recycled>>
  BY <1>3, Zenon DEF Cell!exchange
<1>5. \A i \in Cell!Slots : i \in F <=> owner[i] = Nobody
  <2>1. DOMAIN f = 1 .. Len(f)
    BY <1>1 DEF OnList
  <2>2. \A i : i \in F <=> \E k \in 1 .. Len(f) : f[k] = i
    BY <1>2, <1>3, <2>1
  <2>3. \A i \in Cell!Slots : owner[i] = Nobody <=> \E k \in 1 .. Len(f) : f[k] = i
    BY <1>1, Zenon DEF OnList
  <2> QED
    BY <2>2, <2>3, Zenon
<1>6. F \subseteq Cell!Slots
  BY <1>1, <1>2, <1>3 DEF OnList
<1>7. sole' = TRUE
  BY <1>1, <1>4, <1>5, <1>6, Zenon DEF CellTypes
<1>8. ASSUME NEW i \in Cell!Slots
      PROVE  /\ owner'[i] \in Threads \cup {Nobody} /\ owner'[i] # Nobody
             /\ owner[i] # Nobody => owner'[i] = owner[i]
  <2>1. owner[i] \in Threads \cup {Nobody}
    BY <1>1, Zenon DEF CellTypes
  <2> QED
    BY <1>4, <1>5, <2>1, Zenon DEF CellConstants
<1>9. owner' \in [Cell!Slots -> Threads \cup {Nobody}]
  <2>1. PICK O : O = owner'
    OBVIOUS
  <2>2. O = [i \in Cell!Slots |-> O[i]]
    BY <1>4, <2>1, Zenon
  <2> QED
    BY <1>8, <2>1, <2>2, Zenon
<1>10. CellTypes'
  <2>1. cell' \in Int
    BY <1>4 DEF Cell!null
  <2> QED
    BY <1>1, <1>4, <1>7, <1>9, <2>1, Zenon DEF CellTypes, Cell!Slots, OddGens, Cell!Gens
<1>11. (\E h : OnList(h))'
  <2>1. PICK h : h = << >>
    OBVIOUS
  <2>2. h \in Seq(Cell!Slots) /\ Len(h) = 0 /\ \A k : k \notin 1 .. Len(h)
    BY <2>1
  <2>3. OnList(h)'
    BY <1>4, <1>8, <2>2, Zenon DEF OnList, Link, Cell!Slots, Cell!null
  <2> QED
    BY <2>3, Zenon
<1>12. TakerOK(t)' /\ GiverOK(t)' /\ \A j : t \notin Cell!Taking(j)'
  BY <1>4, Zenon DEF TakerOK, GiverOK, Cell!Taking
<1>13. TakersInv'
  BY <1>4, <1>8, <1>12, TakersKept, Zenon
<1>14. \A i \in Cell!Slots : owner[i] \in Threads \ {t} => owner'[i] = owner[i]
  BY <1>8, Zenon DEF CellConstants
<1>15. GiversInv'
  BY <1>4, <1>12, <1>14, GiversKept, Zenon
<1> QED
  BY <1>10, <1>11, <1>13, <1>15, Zenon DEF CellInv

\* The invariant implies the property.
LEMMA CellSound ==
  ASSUME CellConstants, CellInv, OnList(Cell!Chain(cell))
  PROVE  Cell!TypeOK /\ Cell!FreeListSound
<1> DEFINE f == Cell!Chain(cell)
<1>1. OnList(f) /\ CellTypes
  BY Zenon DEF CellInv
<1> HIDE DEF f
<1>3. /\ f \in Seq(Cell!Slots) /\ Len(f) \in Nat /\ DOMAIN f = 1 .. Len(f)
      /\ f # << >> => Len(f) \in 1 .. Len(f)
  BY <1>1 DEF OnList
<1>4. Cell!TypeOK
  <2>1. cell \in 0 .. Capacity * 2 * HalfGens
    <3>1. CASE cell = Cell!null
      <4>1. Capacity * 2 * HalfGens \in Nat
        BY DEF CellConstants
      <4> QED
        BY <3>1, <4>1 DEF Cell!null
    <3>2. CASE cell # Cell!null
      <4>1. PICK j \in Cell!Slots : cell = Cell!pack(j, generation[j])
        BY <3>2, HeadSeen, Zenon
      <4>2. generation[j] \in OddGens
        BY <1>1, Zenon DEF CellTypes
      <4>3. Cell!pack(j, generation[j]) \in 0 .. Capacity * 2 * HalfGens
        BY <4>2, PackFacts, Zenon
      <4> QED
        BY <4>1, <4>3, Zenon
    <3> QED
      BY <3>1, <3>2, Zenon
  <2>2. generation \in [Cell!Slots -> Cell!Gens]
    BY <1>1, Zenon DEF CellTypes, OddGens
  <2>3. \A t \in Threads : cell_call[t].at \in CellSteps
    BY <1>1 DEF CellTypes
  <2>4. sole \in BOOLEAN /\ owner \in [Cell!Slots -> Threads \cup {Nobody}]
    BY <1>1, Zenon DEF CellTypes
  <2> QED
    BY <2>1, <2>2, <2>3, <2>4, Zenon DEF Cell!TypeOK, CellSteps
<1>5. {f[k] : k \in DOMAIN f} = {i \in Cell!Slots : owner[i] = Nobody}
  <2>1. \A i \in Cell!Slots : owner[i] = Nobody <=> \E k \in 1 .. Len(f) : f[k] = i
    BY <1>1, Zenon DEF OnList
  <2>2. \A k \in 1 .. Len(f) : f[k] \in Cell!Slots
    BY <1>3
  <2>3. \A i : i \in {f[k] : k \in DOMAIN f} <=> \E k \in 1 .. Len(f) : f[k] = i
    BY <1>3
  <2> QED
    BY <2>1, <2>2, <2>3, ZenonT(60)
<1>6. ASSUME NEW k \in 1 .. Len(f)
      PROVE  (IF k = 1 THEN cell ELSE next_[f[k - 1]]) = Cell!pack(f[k], generation[f[k]])
  <2>1. Link(f, k) = Cell!pack(f[k], generation[f[k]])
    BY Zenon DEF Link
  <2>2. CASE k = 1
    BY <1>1, <2>1, <2>2, Zenon DEF OnList
  <2>3. CASE k # 1
    <3>1. k - 1 \in 1 .. Len(f) /\ (k - 1) + 1 = k
      BY <1>3, <2>3
    <3>2. next_[f[k - 1]] = Link(f, (k - 1) + 1)
      BY <1>1, <3>1, Zenon DEF OnList
    <3> QED
      BY <2>1, <2>3, <3>1, <3>2, Zenon
  <2> QED
    BY <2>2, <2>3, Zenon
<1>7. f # << >> => next_[f[Len(f)]] = Cell!null
  <2>1. Len(f) + 1 \notin 1 .. Len(f)
    BY <1>3
  <2>2. Link(f, Len(f) + 1) = Cell!null
    BY <2>1, Zenon DEF Link
  <2> QED
    BY <1>1, <1>3, <2>2, Zenon DEF OnList
<1>8. \A s : Cell!Len(s) = Len(s)
  BY Zenon DEF Cell!Len, Len
<1>9. sole /\ \A j, k \in DOMAIN f : j # k => f[j] # f[k]
  BY <1>1, <1>3, ZenonT(60) DEF OnList, CellTypes
<1>10. \A k \in DOMAIN f : [l \in DOMAIN f |-> IF l = 1 THEN cell ELSE next_[f[l - 1]]][k]
                               = Cell!pack(f[k], generation[f[k]])
  BY <1>3, <1>6
<1>11. f # << >> => next_[f[Cell!Len(f)]] = Cell!null
  BY <1>7, <1>8, Zenon
<1>12. Cell!FreeListSound
  BY <1>5, <1>9, <1>10, <1>11, Zenon DEF Cell!FreeListSound, f
<1> QED
  BY <1>4, <1>12, Zenon

\* Every step keeps the invariant.
LEMMA CellKept ==
  ASSUME CellConstants, CellInv, [Cell!Next]_Cell!vars, OnList(Cell!Chain(cell))
  PROVE  CellInv'
<1>1. CASE Cell!Next
  <2>1. PICK t \in Threads :
          \/ Cell!take(t) \/ Cell!read_next(t) \/ Cell!link(t) \/ Cell!compare_exchange_strong(t)
          \/ Cell!exchange(t)
          \/ \E spurious \in BOOLEAN : Cell!compare_exchange_weak(t, spurious)
          \/ \E i \in Cell!Slots : Cell!give_back(t, i)
    BY <1>1, Zenon DEF Cell!Next
  <2>2. CASE Cell!take(t)
    BY <2>2, TakeKeeps, Zenon
  <2>3. CASE Cell!read_next(t)
    BY <2>3, ReadKeeps, Zenon
  <2>4. CASE Cell!link(t)
    BY <2>4, LinkKeeps, Zenon
  <2>5. CASE Cell!compare_exchange_strong(t)
    BY <2>5, StrongKeeps, Zenon
  <2>6. CASE Cell!exchange(t)
    BY <2>6, ExchangeKeeps, Zenon
  <2>7. CASE \E spurious \in BOOLEAN : Cell!compare_exchange_weak(t, spurious)
    BY <2>7, WeakKeeps, Zenon
  <2>8. CASE \E i \in Cell!Slots : Cell!give_back(t, i)
    BY <2>8, GiveBackKeeps, Zenon
  <2> QED
    BY <2>1, <2>2, <2>3, <2>4, <2>5, <2>6, <2>7, <2>8, Zenon
<1>2. CASE UNCHANGED Cell!vars
  <2>1. UNCHANGED <<cell, next_, generation, owner, cell_call, recycled, sole>>
    BY <1>2, Zenon DEF Cell!vars
  <2>2. CellTypes'
    BY <2>1, Zenon DEF CellInv, CellTypes, Cell!Slots, OddGens, Cell!Gens
  <2>3. (\E f : OnList(f))'
    BY <2>1, ListKept, Zenon
  <2>4. TakersInv'
    BY <2>1, ZenonT(60) DEF CellInv, TakersInv, TakerOK, Observes, Cell!Slots, OddGens, Cell!Gens,
                       Cell!pack, Cell!null
  <2>5. GiversInv'
    <3>1. \A i : Cell!Taking(i)' = Cell!Taking(i)
      BY <2>1, Zenon DEF Cell!Taking, Cell!null, Cell!index
    <3>2. \A t, i : Gives(t, i)' <=> Gives(t, i)
      BY <2>1, <3>1, Zenon DEF Gives, Cell!pack
    <3> QED
      BY <2>1, <3>2, Zenon DEF CellInv, GiversInv, GiverOK, Cell!Slots
  <2> QED
    BY <2>2, <2>3, <2>4, <2>5, Zenon DEF CellInv
<1> QED
  BY <1>1, <1>2, Zenon

-----------------------------------------------------------------------------
W == INSTANCE WellFoundedInduction
INSTANCE FiniteSetTheorems

\* A non-empty set of natural numbers has a least one.
LEMMA LeastNat ==
  ASSUME NEW T, T \subseteq Nat, T # {}
  PROVE  \E n \in T : \A m \in T : n <= m
<1> DEFINE R == W!OpToRel(<, Nat)
<1>1. W!IsWellFoundedOn(R, Nat)
  BY W!NatLessThanWellFounded, Zenon
<1>2. PICK x \in T : \A y \in T : ~(<<y, x>> \in R)
  BY <1>1, W!WFMin, ZenonT(60)
<1>3. ASSUME NEW y \in T, y < x PROVE <<y, x>> \in R
  BY <1>3, SMTT(60) DEF W!OpToRel
<1>4. \A y \in T : ~(y < x)
  BY <1>2, <1>3, ZenonT(60)
<1> QED
  BY <1>4

\* What an interval of integers counts.
LEMMA Counted ==
  ASSUME NEW n \in Nat
  PROVE  /\ IsFiniteSet(0 .. n - 1) /\ Cardinality(0 .. n - 1) = n
         /\ IsFiniteSet(1 .. n) /\ Cardinality(1 .. n) = n
<1>1. /\ 0 \in Int /\ 1 \in Int /\ n \in Int /\ n - 1 \in Int
      /\ (IF 0 > n - 1 THEN 0 ELSE (n - 1) - 0 + 1) = n
      /\ (IF 1 > n THEN 0 ELSE n - 1 + 1) = n
  BY SMTT(60)
<1> QED
  BY <1>1, FS_Interval, ZenonT(60)

\* A list longer than there are slots has one of them twice.
LEMMA ListFits ==
  ASSUME CellConstants, NEW f \in Seq(Cell!Slots), Len(f) > Capacity
  PROVE  \E j, k \in 1 .. Len(f) : j # k /\ f[j] = f[k]
<1>1. Len(f) \in Nat /\ Capacity \in Nat /\ Cell!Slots = 0 .. Capacity - 1
  BY SMTT(60) DEF CellConstants, Cell!Slots
<1>2. PICK S : S = 1 .. Len(f)
  BY SMTT(60)
<1>3. PICK T : T = Cell!Slots
  BY SMTT(60)
<1>4. f \in [S -> T]
  BY <1>2, <1>3, SMTT(60)
<1>5. IsFiniteSet(S) /\ Cardinality(S) = Len(f)
  BY <1>1, <1>2, Counted, ZenonT(60)
<1>6. IsFiniteSet(T) /\ Cardinality(T) = Capacity
  BY <1>1, <1>3, Counted, ZenonT(60)
<1>7. Cardinality(T) < Cardinality(S)
  BY <1>1, <1>5, <1>6, SMTT(60)
<1>8. \E j, k \in S : j # k /\ f[j] = f[k]
  BY <1>4, <1>5, <1>6, <1>7, FS_PigeonHole, ZenonT(60)
<1> QED
  BY <1>2, <1>8, ZenonT(60)

\* The walk finds the list.
LEMMA ChainIs ==
  ASSUME CellConstants, CellTypes, NEW f, OnList(f)
  PROVE  Cell!Chain(cell) = f
<1> DEFINE D == 0 .. Capacity
           walk[k \in D] ==
             IF k = 0 THEN cell
             ELSE IF walk[k - 1] = Cell!null THEN Cell!null
                  ELSE next_[Cell!index(walk[k - 1])]
           g == [k \in D |-> Link(f, k + 1)]
<1>1. Capacity \in Nat /\ Len(f) \in Nat /\ Len(f) <= Capacity /\ f \in [1 .. Len(f) -> Cell!Slots]
  <2>1. Capacity \in Nat /\ f \in Seq(Cell!Slots) /\ Len(f) \in Nat
    BY SMTT(60) DEF CellConstants, OnList
  <2>2. ASSUME Len(f) > Capacity PROVE FALSE
    <3>1. \E j, k \in 1 .. Len(f) : j # k /\ f[j] = f[k]
      BY <2>1, <2>2, ListFits, ZenonT(60)
    <3> QED
      BY <3>1, ZenonT(60) DEF OnList
  <2> QED
    BY <2>1, <2>2, SMTT(60)
<1>2. g = [k \in D |-> IF k = 0 THEN cell
                       ELSE IF g[k - 1] = Cell!null THEN Cell!null
                            ELSE next_[Cell!index(g[k - 1])]]
  <2>1. ASSUME NEW k \in D
        PROVE  Link(f, k + 1) = IF k = 0 THEN cell
                                ELSE IF g[k - 1] = Cell!null THEN Cell!null
                                     ELSE next_[Cell!index(g[k - 1])]
    <3>1. CASE k = 0
      <4>1. cell = Link(f, 1)
        BY ZenonT(60) DEF OnList
      <4> QED
        BY <3>1, <4>1, SMTT(60)
    <3>2. CASE k # 0
      <4>1. k \in Nat \ {0} /\ k - 1 \in D /\ k + 1 \in Nat \ {0} /\ (k - 1) + 1 = k
        BY <1>1, <3>2, SMTT(60)
      <4>2. g[k - 1] = Link(f, k)
        BY <4>1, ZenonT(60)
      <4>3. CASE k <= Len(f)
        <5>1. Link(f, k) # Cell!null /\ next_[Cell!index(Link(f, k))] = Link(f, k + 1)
          BY <4>1, <4>3, LinkFacts, ZenonT(60)
        <5> QED
          BY <3>2, <4>2, <5>1, ZenonT(60)
      <4>4. CASE ~(k <= Len(f))
        <5>1. ~(k + 1 <= Len(f))
          BY <1>1, <4>1, <4>4, SMTT(60)
        <5> QED
          BY <3>2, <4>1, <4>2, <4>4, <5>1, LinkFacts, ZenonT(60)
      <4> QED
        BY <4>3, <4>4, ZenonT(60)
    <3> QED
      BY <3>1, <3>2, ZenonT(60)
  <2> QED
    BY <2>1, SMTT(60)
<1>3. walk = [k \in D |-> IF k = 0 THEN cell
                          ELSE IF walk[k - 1] = Cell!null THEN Cell!null
                               ELSE next_[Cell!index(walk[k - 1])]]
  <2> HIDE DEF g, D
  <2> QED
    BY <1>2, ZenonT(60) DEF walk
<1>4. Cell!Chain(cell) =
        [k \in 1 .. Cardinality({j \in 0 .. Capacity - 1 : walk[j] # Cell!null})
           |-> Cell!index(walk[k - 1])]
  <2>1. \A S : Cell!Cardinality(S) = Cardinality(S)
    BY ZenonT(60) DEF Cell!Cardinality, Cardinality
  <2> QED
    BY <2>1, ZenonT(60) DEF Cell!Chain
<1> HIDE DEF walk, g
<1>5. ASSUME NEW k \in D PROVE walk[k] = g[k]
  <2> DEFINE T == {j \in D : walk[j] # g[j]}
  <2>1. SUFFICES ASSUME T # {} PROVE FALSE
    BY ZenonT(60)
  <2>2. T \subseteq Nat
    BY <1>1, SMTT(60)
  <2>3. PICK n \in T : \A m \in T : n <= m
    <3> HIDE DEF T
    <3> QED
      BY <2>1, <2>2, LeastNat, ZenonT(60)
  <2>4. n \in D /\ walk[n] # g[n]
    BY <2>3, ZenonT(60)
  <2>5. CASE n = 0
    BY <1>2, <1>3, <2>4, <2>5, ZenonT(60)
  <2>6. CASE n # 0
    <3>1. n - 1 \in D /\ ~(n <= n - 1)
      BY <1>1, <2>4, <2>6
    <3>2. walk[n - 1] = g[n - 1]
      BY <2>3, <3>1, Zenon
    <3> QED
      BY <1>2, <1>3, <2>4, <2>6, <3>2, ZenonT(60)
  <2> QED
    BY <2>5, <2>6, ZenonT(60)
<1>6. {j \in 0 .. Capacity - 1 : walk[j] # Cell!null} = 0 .. Len(f) - 1
  <2>1. ASSUME NEW j \in 0 .. Capacity - 1
        PROVE  walk[j] # Cell!null <=> j \in 0 .. Len(f) - 1
    <3>1. j \in D /\ j + 1 \in Nat \ {0} /\ (j + 1 <= Len(f) <=> j \in 0 .. Len(f) - 1)
      BY <1>1, SMTT(60)
    <3>2. walk[j] = Link(f, j + 1)
      BY <1>5, <3>1, ZenonT(60) DEF g
    <3> QED
      BY <3>1, <3>2, LinkFacts, ZenonT(60)
  <2>2. 0 .. Len(f) - 1 \subseteq 0 .. Capacity - 1
    BY <1>1, SMTT(60)
  <2> QED
    BY <2>1, <2>2, ZenonT(60)
<1>7. Cardinality(0 .. Len(f) - 1) = Len(f)
  BY <1>1, Counted, ZenonT(60)
<1>8. ASSUME NEW k \in 1 .. Len(f) PROVE Cell!index(walk[k - 1]) = f[k]
  <2>1. k - 1 \in D /\ k \in Nat \ {0} /\ k <= Len(f) /\ (k - 1) + 1 = k
    BY <1>1, SMTT(60)
  <2>2. walk[k - 1] = Link(f, k)
    BY <1>5, <2>1, ZenonT(60) DEF g
  <2> QED
    BY <2>1, <2>2, LinkFacts, ZenonT(60)
<1>9. f = [k \in 1 .. Len(f) |-> f[k]]
  BY <1>1, ZenonT(60)
<1> QED
  BY <1>4, <1>6, <1>7, <1>8, <1>9, ZenonT(60)

\* The walk from the head finds the list of the invariant.
LEMMA ListWalked ==
  ASSUME CellConstants, CellInv
  PROVE  OnList(Cell!Chain(cell))
BY ChainIs, ZenonT(60) DEF CellInv

(***************************************************************************)
(* The free list headed by an atomic_handle is sound, whatever threads     *)
(* take, give back and empty it in whatever order: it holds each free slot *)
(* once, and no slot is taken by two, as long as a thread does not sleep   *)
(* for a whole turn of a slot's generations (atomic_handle.hpp:17-25).     *)
(***************************************************************************)
THEOREM FreeListSafe ==
  ASSUME CellConstants
  PROVE  Cell!Spec => [](Cell!TypeOK /\ Cell!FreeListSound)
<1>1. Cell!Init => CellInv
  BY CellInit, SMTT(60)
<1>2. CellInv /\ [Cell!Next]_Cell!vars => CellInv'
  BY ListWalked, CellKept, SMTT(60)
<1>3. CellInv => Cell!TypeOK /\ Cell!FreeListSound
  BY ListWalked, CellSound, SMTT(60)
<1> QED
  BY <1>1, <1>2, <1>3, PTL DEF Cell!Spec

===============================================================================
