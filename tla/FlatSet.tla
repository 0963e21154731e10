------------------------------- MODULE FlatSet -------------------------------
(***************************************************************************)
(* metl::flat_set (flat_set.hpp): a sorted array of unique keys.  Every    *)
(* operation that changes a set is a program of element operations, any of *)
(* which, the comparator included, may throw; the handlers that restore    *)
(* the order are modelled.  metl::flat_map (flat_map.hpp) is the same      *)
(* array of entries, so an entry here has a key, KeyOf.  A map's entry is  *)
(* a plain aggregate, whose move is two: the key's, then the value's.      *)
(***************************************************************************)
EXTENDS Lifetimes, FiniteSets, FiniteSetsExt

CONSTANTS
  Sets, Capacity,
  Entries,      \* what may be inserted
  KeyOf(_),     \* an entry's key, an integer
  Assignable,   \* the element type has a move assignment
  Paired        \* an entry is a key and a value, as in flat_map

VARIABLES
  cells, size_, ok, kept,   \* as in FixedVector
  torn    \* the sets that a throw left with moved-from keys: sources of a move,
          \* and maps an entry of which lost its key before the shift began

vars == <<cells, size_, ok, kept, torn>>

Keys == {KeyOf(e) : e \in Entries}
Slots == Sets \X (0 .. Capacity - 1)

Init ==
  /\ cells = [c \in Slots |-> Raw]
  /\ size_ = [s \in Sets |-> 0]
  /\ ok = TRUE /\ kept = TRUE /\ torn = {}

\* Cells outside the sets: arguments, and the locals `entry` and `leaving`.
Arg(e) == <<"arg", e>>
Entry == <<"local", "entry">>
Leaving == <<"local", "leaving">>
Temp == <<"local", "swap">>
Locals == {Entry, Leaving, Temp}

Before ==
  [cells |-> [c \in Slots \cup Locals \cup {Arg(e) : e \in Entries} |->
      IF c \in Slots THEN cells[c] ELSE IF c \in Locals THEN Raw ELSE c[2]],
   fields |-> size_, ok |-> TRUE]

Items(st, s) == {st.cells[<<s, i>>] : i \in 0 .. st.fields[s] - 1}
Old(s) == {cells[<<s, i>>] : i \in 0 .. size_[s] - 1}

\* The cells that lose their key when the step throws: none, or what a map's
\* entry was moved from, when the value's move is what threw.  (What it was
\* assigned to has the new key then; every such step is in a try that clears.)
LostKeys(i) ==
  {{}} \cup IF Paired /\ i.op \in {"move", "assign"} THEN {{i.from}} ELSE {}

WithoutKeys(st, lost) ==
  [st EXCEPT !.cells = [c \in DOMAIN st.cells |-> IF c \in lost THEN Moved ELSE st.cells[c]]]

\* The outcomes of a call, those with a throw with the state before the step
\* that threw and the keys lost in it.
Endings(program, Unwound(_, _)) ==
  {[threw |-> FALSE, st |-> RunAll(Before, program)]} \cup
  UNION {LET before == Run(Before, program, k - 1)
         IN  {[threw |-> TRUE, before |-> before, lost |-> lost,
               st |-> Unwound(WithoutKeys(before, lost), program[k])] :
                lost \in LostKeys(program[k])} :
         k \in {j \in 1 .. Len(program) : Throwing(program[j])}}

CallThen(program, Unwound(_, _), Promised(_), Torn(_)) ==
  \E o \in Endings(program, Unwound) :
    /\ cells' = [c \in Slots |-> o.st.cells[c]]
    /\ size_' = o.st.fields
    /\ ok' = o.st.ok
    /\ kept' = Promised(o)
    /\ torn' = Torn(o)

-----------------------------------------------------------------------------
\* The binary search.
lower_bound_index(s, key) ==
  LET search[first \in 0 .. Capacity, count \in 0 .. Capacity] ==
        IF count = 0 THEN first
        ELSE LET step == count \div 2
             IN  IF KeyOf(cells[<<s, first + step>>]) < key
                 THEN search[first + step + 1, count - step - 1]
                 ELSE search[first, step]
  IN  search[0, size_[s]]

upper_bound_index_from(s, key, lo) ==
  LET search[first \in 0 .. Capacity, count \in 0 .. Capacity] ==
        IF count = 0 THEN first
        ELSE LET step == count \div 2
             IN  IF ~(key < KeyOf(cells[<<s, first + step>>]))
                 THEN search[first + step + 1, count - step - 1]
                 ELSE search[first, step]
  IN  search[lo, size_[s] - lo]

upper_bound_index(s, key) == upper_bound_index_from(s, key, 0)

equal_range(s, key) ==
  LET lo == lower_bound_index(s, key)
  IN  <<lo, upper_bound_index_from(s, key, lo)>>

\* find, contains: the key is there.
Found(s, key) ==
  LET i == lower_bound_index(s, key)
  IN  i < size_[s] /\ ~(key < KeyOf(cells[<<s, i>>]))

\* The lookups with a transparent comparator, by a probe that compares
\* equivalent to the keys lo .. hi.
equal_range_like(s, lo, hi) ==
  LET first == lower_bound_index(s, lo)
  IN  <<first, upper_bound_index_from(s, hi, first)>>

\* The position found, if any.
find_like(s, lo, hi) ==
  {i \in {lower_bound_index(s, lo)} : i < size_[s] /\ ~(hi < KeyOf(cells[<<s, i>>]))}

-----------------------------------------------------------------------------
\* The relational operators.
Equal(s, t) ==
  size_[s] = size_[t] /\ \A i \in 0 .. size_[s] - 1 : cells[<<s, i>>] = cells[<<t, i>>]

\* Lexicographic, by an order of the elements.
LessBy(Less(_, _), s, t) ==
  LET At(u, i) == cells[<<u, i>>]
      common == 0 .. Min({size_[s], size_[t]}) - 1
      differ == {i \in common : Less(At(s, i), At(t, i)) \/ Less(At(t, i), At(s, i))}
  IN  IF differ = {} THEN size_[s] < size_[t]
      ELSE Less(At(s, Min(differ)), At(t, Min(differ)))

KeyLess(e, f) == KeyOf(e) < KeyOf(f)
LessSet(s, t) == LessBy(KeyLess, s, t)

\* flat_map's: the key, then the value.
EntryLess(e, f) == e[1] < f[1] \/ (e[1] = f[1] /\ e[2] < f[2])
LessMap(m, n) == LessBy(EntryLess, m, n)

-----------------------------------------------------------------------------
\* The programs, on a set s of n elements, and their handlers.
ClearFrom(s, n, m) ==
  FlattenSeq([k \in 1 .. n - m |-> <<Set(s, n - k), Destroy(<<s, n - k>>)>>])

Cleared(st, s) == RunAll(st, ClearFrom(s, st.fields[s], 0))

\* A handler that empties s, of whose slots 0 .. last all but i are alive.
Emptied(st, s, i, last) ==
  RunAll(st, [j \in 1 .. i |-> Destroy(<<s, j - 1>>)]
             \o [j \in 1 .. last - i |-> Destroy(<<s, i + j>>)] \o <<Set(s, 0)>>)

\* insert_shifting, and shift_right_from when elements cannot be assigned.
InsertShifting(s, n, i) ==
  IF Assignable /\ i = n THEN <<Move(<<s, n>>, Entry), Set(s, n + 1)>>
  ELSE IF Assignable
  THEN <<Move(<<s, n>>, <<s, n - 1>>), Set(s, n + 1)>>
       \o [k \in 1 .. n - 1 - i |-> AssignMove(<<s, n - k>>, <<s, n - k - 1>>)]
       \o <<AssignMove(<<s, i>>, Entry)>>
  ELSE FlattenSeq([k \in 1 .. n - i |-> <<Move(<<s, n - k + 1>>, <<s, n - k>>),
                                          Destroy(<<s, n - k>>)>>])
       \o <<Move(<<s, i>>, Entry), Set(s, n + 1)>>

\* Fault: an exception from the shift passes through.
InsertHandler_Missing(st, s, i) == st

InsertHandler(st, s, i) ==
  IF i.op = "assign" THEN Cleared(st, s)
  ELSE IF ~Assignable /\ i.op = "move" THEN Emptied(st, s, i.to[2], st.fields[s])
  ELSE st

EraseAt(s, n, i) ==
  <<Move(Leaving, <<s, i>>), Destroy(<<s, i>>)>>
  \o FlattenSeq([k \in 1 .. n - 1 - i |-> <<Move(<<s, i + k - 1>>, <<s, i + k>>),
                                            Destroy(<<s, i + k>>)>>])
  \o <<Set(s, n - 1), Destroy(Leaving)>>

EraseHandler(st, s, i) ==
  IF i.op = "move" /\ i.to # Leaving
  THEN Emptied(st, s, i.to[2], st.fields[s] - 1) ELSE st

\* erase_if erases the elements not in `keep`, from the front.
EraseIf(s, n, keep) ==
  FlattenSeq([k \in 1 .. n |->
    LET gone == Cardinality({i \in 0 .. k - 2 : i \notin keep})
    IN  <<UserCall>> \o
        (IF k - 1 \in keep THEN <<>> ELSE EraseAt(s, n - gone, k - 1 - gone))])

\* append_copies_from and append_sorted_from, into an empty set.
AppendAll(s, how, t) ==
  FlattenSeq([k \in 1 .. size_[t] |->
    <<[op |-> how, to |-> <<s, k - 1>>, from |-> <<t, k - 1>>], Set(s, k)>>])

ExchangeCells(c, d) ==
  <<Move(Temp, c), AssignMove(c, d), AssignMove(d, Temp), Destroy(Temp)>>

\* swap_contents; s is the shorter set (n elements), t the longer (m).
SwapContents(s, t, n, m) ==
  <<UserCall>>
  \o FlattenSeq([k \in 1 .. n |-> ExchangeCells(<<s, k - 1>>, <<t, k - 1>>)])
  \o FlattenSeq([k \in 1 .. m - n |->
       <<Move(<<s, n + k - 1>>, <<t, n + k - 1>>), Set(s, n + k)>>])
  \o ClearFrom(t, m, n)

-----------------------------------------------------------------------------
\* All the elements of s are in place: no shift is under way.
Whole(st, s) == Items(st, s) \subseteq Entries

\* When a call on s throws, s is cleared, or no element had moved and all are
\* where they were, but for a map's entry that has lost its key.
KeptOrCleared(o, s) ==
  \/ o.st.fields[s] = 0
  \/ /\ Whole(o.before, s)
     /\ o.st.fields[s] = o.before.fields[s]
     /\ \A i \in 0 .. Capacity - 1 :
          o.st.cells[<<s, i>>] = IF <<s, i>> \in o.lost THEN Moved ELSE o.before.cells[<<s, i>>]

\* That entry is still in s.
LeftWithoutKey(o, s) ==
  /\ o.threw /\ Whole(o.before, s)
  /\ \E i \in 0 .. o.st.fields[s] - 1 : <<s, i>> \in o.lost

\* A call that shifts the elements of s.
Shifting(s, program, Unwound(_, _), Returned(_)) ==
  /\ s \notin torn
  /\ CallThen(program, Unwound,
       LAMBDA o : IF o.threw THEN KeptOrCleared(o, s) ELSE Returned(o.st),
       LAMBDA o : IF LeftWithoutKey(o, s) THEN torn \cup {s} ELSE torn)

\* try_emplace and emplace of a key that is absent, with room.
try_emplace(s, e) ==
  /\ s \notin torn /\ ~Found(s, KeyOf(e)) /\ size_[s] < Capacity
  /\ Shifting(s, <<UserCall, Copy(Entry, Arg(e))>>
                   \o InsertShifting(s, size_[s], lower_bound_index(s, KeyOf(e)))
                   \o <<Destroy(Entry)>>,
       LAMBDA st, i : InsertHandler(st, s, i),
       LAMBDA st : Items(st, s) = Old(s) \cup {e})

\* erase of a key that is present, or of a position.
erase(s, i) ==
  /\ i < size_[s]
  /\ Shifting(s, EraseAt(s, size_[s], i), LAMBDA st, j : EraseHandler(st, s, j),
       LAMBDA st : Items(st, s) = Old(s) \ {cells[<<s, i>>]})

erase_key(s, key) == /\ s \notin torn /\ Found(s, key)
                     /\ erase(s, lower_bound_index(s, key))

\* With a transparent comparator the first of the equivalent keys goes.
erase_like(s, lo, hi) == s \notin torn /\ \E i \in find_like(s, lo, hi) : erase(s, i)

erase_if(s, keep) ==
  Shifting(s, EraseIf(s, size_[s], keep), LAMBDA st, j : EraseHandler(st, s, j),
    LAMBDA st : Items(st, s) = {cells[<<s, i>>] : i \in keep})

clear(s) ==
  CallThen(ClearFrom(s, size_[s], 0), Neutral,
    LAMBDA o : Items(o.st, s) = {}, LAMBDA o : torn \ {s})

\* Assignment and construction.  A constructor that throws destroys its set.
copy_assign(s, t) ==
  /\ s # t /\ t \notin torn
  /\ CallThen(ClearFrom(s, size_[s], 0) \o AppendAll(s, "copy", t), Neutral,
       LAMBDA o : /\ Items(o.st, t) = Old(t)
                  /\ IF o.threw THEN Items(o.st, s) \subseteq Old(t) ELSE Items(o.st, s) = Old(t),
       LAMBDA o : torn \ {s})

copy_construct(s, t) ==
  /\ s # t /\ t \notin torn /\ size_[s] = 0
  /\ CallThen(AppendAll(s, "copy", t), LAMBDA st, i : Cleared(st, s),
       LAMBDA o : Items(o.st, s) = IF o.threw THEN {} ELSE Old(t), LAMBDA o : torn)

\* A move that throws leaves the source without the keys that were moved.
MoveFrom(s, t, Unwound(_, _)) ==
  /\ s # t /\ t \notin torn
  /\ CallThen(ClearFrom(s, size_[s], 0) \o AppendAll(s, "move", t)
                \o ClearFrom(t, size_[t], 0), Unwound,
       LAMBDA o : IF o.threw THEN Items(o.st, s) \subseteq Old(t)
                  ELSE Items(o.st, s) = Old(t) /\ Items(o.st, t) = {},
       LAMBDA o : IF Moved \in Items(o.st, t) THEN (torn \ {s}) \cup {t} ELSE torn \ {s})

move_assign(s, t) == MoveFrom(s, t, Neutral)
move_construct(s, t) == size_[s] = 0 /\ MoveFrom(s, t, LAMBDA st, i : Cleared(st, s))

SwapHandler(st, s, t) == Cleared(Cleared(st, s), t)

swap(s, t) ==
  /\ s # t /\ torn = {}
  /\ CallThen(IF size_[s] < size_[t] THEN SwapContents(s, t, size_[s], size_[t])
              ELSE SwapContents(t, s, size_[t], size_[s]),
       LAMBDA st, i : SwapHandler(st, s, t),
       LAMBDA o : IF o.threw THEN Items(o.st, s) = {} /\ Items(o.st, t) = {}
                  ELSE Items(o.st, s) = Old(t) /\ Items(o.st, t) = Old(s),
       LAMBDA o : torn)

Next == \E s \in Sets :
  \/ clear(s)
  \/ \E e \in Entries : try_emplace(s, e) \/ erase_key(s, KeyOf(e))
  \/ \E lo, hi \in Keys : lo <= hi /\ erase_like(s, lo, hi)
  \/ \E i \in 0 .. Capacity - 1 : erase(s, i)
  \/ \E keep \in SUBSET (0 .. size_[s] - 1) : erase_if(s, keep)
  \/ \E t \in Sets : \/ copy_assign(s, t) \/ move_assign(s, t) \/ swap(s, t)
                     \/ copy_construct(s, t) \/ move_construct(s, t)

Spec == Init /\ [][Next]_vars

-----------------------------------------------------------------------------
\* flat_map: entries are <<key, value>>, and Paired.
Mapped == {e[2] : e \in Entries}

\* The header repeats the set's searches, shifts and handlers for entries.
map_lower_bound_index(m, key) == lower_bound_index(m, key)
map_upper_bound_index_from(m, key, lo) == upper_bound_index_from(m, key, lo)

bounds(m, lo, hi) ==
  LET first == map_lower_bound_index(m, lo)
  IN  <<first, map_upper_bound_index_from(m, hi, first)>>

\* The value found, if any.
find(m, lo, hi) == {cells[<<m, i>>][2] : i \in find_like(m, lo, hi)}

\* A key is a probe that one key is equivalent to.
bounds_of_key(m, key) == bounds(m, key, key)
find_key(m, key) == find(m, key, key)

try_insert_at(m, key, x) == try_emplace(m, <<key, x>>)

try_emplace_value(m, key, x) == try_insert_at(m, key, x)

AssignValue(m, key, x) == <<AssignCopy(<<m, map_lower_bound_index(m, key)>>, Arg(<<key, x>>))>>

\* insert_or_assign: an existing key keeps its slot, a new one is inserted.
insert_or_assign(m, key, x) ==
  \/ /\ m \notin torn /\ Found(m, key)
     /\ CallThen(AssignValue(m, key, x), Neutral,
          LAMBDA o : Items(o.st, m) = IF o.threw THEN Old(m) ELSE
            {e \in Old(m) : KeyOf(e) # key} \cup {<<key, x>>},
          LAMBDA o : torn)
  \/ try_insert_at(m, key, x)

erase_at(m, i) == erase(m, i)

erase_entry(m, key) ==
  m \notin torn /\ find_key(m, key) # {} /\ erase_at(m, map_lower_bound_index(m, key))
erase_entry_like(m, lo, hi) ==
  m \notin torn /\ find(m, lo, hi) # {} /\ erase_at(m, map_lower_bound_index(m, lo))
erase_position(m, i) == erase_at(m, i)
erase_entries(m, keep) == erase_if(m, keep)
clear_map(m) == clear(m)
swap_maps(m, n) == swap(m, n)
copy_map(m, n) == copy_construct(m, n) \/ copy_assign(m, n)
move_map(m, n) == move_construct(m, n) \/ move_assign(m, n)

MapNext == \E m \in Sets :
  \/ clear_map(m)
  \/ \E key \in Keys, x \in Mapped : try_emplace_value(m, key, x) \/ insert_or_assign(m, key, x)
  \/ \E lo, hi \in Keys : erase_entry(m, lo) \/ (lo <= hi /\ erase_entry_like(m, lo, hi))
  \/ \E i \in 0 .. Capacity - 1 : erase_position(m, i)
  \/ \E keep \in SUBSET (0 .. size_[m] - 1) : erase_entries(m, keep)
  \/ \E n \in Sets : copy_map(m, n) \/ move_map(m, n) \/ swap_maps(m, n)

MapSpec == Init /\ [][MapNext]_vars

-----------------------------------------------------------------------------
TypeOK ==
  /\ cells \in [Slots -> Entries \cup {Raw, Moved}]
  /\ size_ \in [Sets -> 0 .. Capacity]
  /\ ok \in BOOLEAN /\ kept \in BOOLEAN /\ torn \subseteq Sets

(***************************************************************************)
(* As for fixed_vector: the objects in the storage are exactly the first   *)
(* size() slots after every call and every throw, with every handler       *)
(* destroying each live slot once (flat_set.hpp:615-622, 648-650, 671-676, *)
(* 700-705).                                                               *)
(***************************************************************************)
LifetimesExact ==
  ok /\ \A s \in Sets, i \in 0 .. Capacity - 1 : i < size_[s] <=> cells[<<s, i>>] # Raw

\* The slots whose key was not moved from.
Keyed(s) == {i \in 0 .. size_[s] - 1 : cells[<<s, i>>] # Moved}

(***************************************************************************)
(* The keys of every set are in order and without duplicates after any     *)
(* call, also one that threw, and none is moved-from (flat_set.hpp:50-54,  *)
(* 620-622; flat_map.hpp:693-695).  The exceptions hold moved-from keys    *)
(* and are otherwise in order: the source of a move that threw, and a map  *)
(* of which the move of one value threw while its array was still whole,   *)
(* outside any try (flat_map.hpp:703, 800).                                *)
(***************************************************************************)
SortedUnique == \A s \in Sets :
  /\ s \notin torn => Keyed(s) = 0 .. size_[s] - 1
  /\ \A i, j \in Keyed(s) : i < j => KeyOf(cells[<<s, i>>]) < KeyOf(cells[<<s, j>>])

(***************************************************************************)
(* The binary searches find, in every array that operations can leave, the *)
(* number of smaller keys, the number of keys not greater, and the keys    *)
(* that are there (flat_set.hpp:235-267, 276-290, 553-602).                *)
(***************************************************************************)
LookupsExact ==
  \A s \in Sets \ torn, key \in Keys :
    LET below == Cardinality({e \in Old(s) : KeyOf(e) < key})
        upto  == Cardinality({e \in Old(s) : KeyOf(e) <= key})
    IN  /\ lower_bound_index(s, key) = below
        /\ upper_bound_index(s, key) = upto
        /\ equal_range(s, key) = <<below, upto>>
        /\ Found(s, key) <=> key \in {KeyOf(e) : e \in Old(s)}

(***************************************************************************)
(* A transparent probe finds the run of the keys it is equivalent to, and  *)
(* find the first of them, for flat_map with its value                     *)
(* (flat_set.hpp:321-366, flat_map.hpp:264-299, 330-376).                  *)
(***************************************************************************)
ProbesExact(isMap) ==
  \A s \in Sets \ torn, lo, hi \in Keys : lo <= hi =>
    LET below == Cardinality({e \in Old(s) : KeyOf(e) < lo})
        like  == {e \in Old(s) : KeyOf(e) \in lo .. hi}
        first == {e \in like : \A f \in like : KeyOf(e) <= KeyOf(f)}
        range == <<below, below + Cardinality(like)>>
    IN  IF isMap
        THEN /\ bounds(s, lo, hi) = range /\ find(s, lo, hi) = {e[2] : e \in first}
             /\ lo = hi => /\ bounds_of_key(s, lo) = range
                           /\ find_key(s, lo) = {e[2] : e \in like}
        ELSE /\ equal_range_like(s, lo, hi) = range
             /\ {cells[<<s, i>>] : i \in find_like(s, lo, hi)} = first

(***************************************************************************)
(* Two sets or maps compare equal exactly when they hold the same entries, *)
(* and otherwise the one that has the least entry the other lacks is less, *)
(* unless the other has nothing after it (flat_set.hpp:801-852,            *)
(* flat_map.hpp:878-941).                                                  *)
(***************************************************************************)
ComparesContents(isMap) ==
  \A s, t \in Sets \ torn :
    LET Less(e, f) == IF isMap THEN EntryLess(e, f) ELSE KeyLess(e, f)
        differing  == (Old(s) \ Old(t)) \cup (Old(t) \ Old(s))
        least      == CHOOSE e \in differing : \A f \in differing \ {e} : Less(e, f)
        After(u)   == \E e \in Old(u) : Less(least, e)
        less       == IF isMap THEN LessMap(s, t) ELSE LessSet(s, t)
    IN  /\ Equal(s, t) <=> differing = {}
        /\ less <=> /\ differing # {}
                    /\ IF least \in Old(s) THEN After(t) ELSE ~After(s)

(***************************************************************************)
(* A returned call changed the set of entries as documented.  An insertion *)
(* or erasure that threw cleared the set, or left every element where it   *)
(* was: "a throw during the shift or `erase` clears the container"         *)
(* (CHOOSING.md:112) as soon as an element has moved, which the first move *)
(* has not when it throws (flat_set.hpp:630, 727).  But a map whose first  *)
(* move threw at the value is left with that entry's key moved from, and   *)
(* is not cleared (flat_map.hpp:703, 800).  A swap that threw cleared both *)
(* (flat_set.hpp:480-482).                                                 *)
(***************************************************************************)
CallsAsPromised == kept

=============================================================================
