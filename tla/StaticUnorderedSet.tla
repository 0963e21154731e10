-------------------------- MODULE StaticUnorderedSet --------------------------
(***************************************************************************)
(* metl::static_unordered_set (static_unordered_set.hpp): an open-         *)
(* addressing hash table with linear probing, tombstones, and a rebuild in *)
(* place.  The loops in which an element, the hasher or the key comparison *)
(* may throw (the rebuild, swap, copy and move) take one step per slot;    *)
(* `call` is the loop that is running.  metl::static_unordered_map         *)
(* (static_unordered_map.hpp) is the same table of entries, so an entry    *)
(* here has a key, KeyOf.                                                  *)
(***************************************************************************)
EXTENDS Integers, Sequences, FiniteSets, FiniteSetsExt

CONSTANTS
  Tables, Capacity,
  bucket_count,  \* as BucketCountOfCapacity says
  Entries,       \* what may be inserted
  KeyOf(_),      \* an entry's key
  Hashers,       \* hash functions, from Keys to naturals
  NothrowMove,   \* rebuild_cannot_throw: an element's move does not throw
  Raw, Moved,    \* the content of unused storage, and of a moved-from object
  None,          \* no loop is running, no slot
  Default        \* what a map's value-initialised value holds

Keys == {KeyOf(e) : e \in Entries}

\* The least power of two not below twice the capacity.
compute_bucket_count(capacity) ==
  CHOOSE p \in {2 ^ k : k \in 1 .. capacity + 1} : 2 * capacity <= p /\ p < 4 * capacity

\* What the constant must be.
BucketCountOfCapacity == bucket_count = compute_bucket_count(Capacity)

Buckets == 0 .. bucket_count - 1

VARIABLES
  cell,          \* each table's storage
  state,         \* "empty", "occupied" or "tombstone": the two bit sets
  size_, tombstones_, hasher_,
  call,          \* the loop in progress, with the contents before it
  ok             \* every construction was on raw storage, every other use on an object

vars == <<cell, state, size_, tombstones_, hasher_, call, ok>>

In(t, s) == {i \in Buckets : state[t][i] = s}
Contents(t) == {cell[t][i] : i \in In(t, "occupied")}
\* A move out of t threw half-way: it holds moved-from keys, and is not
\* followed until it is cleared or assigned to.
Torn(t) == Moved \in Contents(t)

Init ==
  /\ cell = [t \in Tables |-> [i \in Buckets |-> Raw]]
  /\ state = [t \in Tables |-> [i \in Buckets |-> "empty"]]
  /\ size_ = [t \in Tables |-> 0]
  /\ tombstones_ = [t \in Tables |-> 0]
  /\ hasher_ \in [Tables -> Hashers]
  /\ call = None /\ ok = TRUE

-----------------------------------------------------------------------------
\* Probing.
bucket_index(t, key) == hasher_[t][key] % bucket_count

Slot(t, key, probe) == (bucket_index(t, key) + probe) % bucket_count

Holds(t, i, key) == state[t][i] = "occupied" /\ KeyOf(cell[t][i]) = key

\* The probes at which a search for key ends.
Stops(t, key) ==
  {p \in Buckets : LET i == Slot(t, key, p) IN state[t][i] = "empty" \/ Holds(t, i, key)}

find_existing_index(t, key) ==
  LET stops == Stops(t, key)
  IN  IF stops = {} \/ ~Holds(t, Slot(t, key, Min(stops)), key) THEN None
      ELSE Slot(t, key, Min(stops))

contains(t, key) == find_existing_index(t, key) # None

\* Fault: the first tombstone is taken without looking for the key behind it.
locate_insert_index_FirstFree(t, key) ==
  LET free == {p \in Buckets : state[t][Slot(t, key, p)] # "occupied"}
  IN  IF free = {} THEN None ELSE Slot(t, key, Min(free))

locate_insert_index(t, key) ==
  LET stops == Stops(t, key)
      tombs == {p \in Buckets : /\ state[t][Slot(t, key, p)] = "tombstone"
                                /\ \A s \in stops : p < s}
  IN  IF stops # {} /\ Holds(t, Slot(t, key, Min(stops)), key) THEN Slot(t, key, Min(stops))
      ELSE IF tombs # {} THEN Slot(t, key, Min(tombs))
      ELSE IF stops # {} THEN Slot(t, key, Min(stops)) ELSE None

-----------------------------------------------------------------------------
\* place_at, but for the store of e itself.
place_at(t, i) ==
  /\ state' = [state EXCEPT ![t][i] = "occupied"]
  /\ size_' = [size_ EXCEPT ![t] = @ + 1]
  /\ tombstones_' = [tombstones_ EXCEPT ![t] = IF state[t][i] = "tombstone" THEN @ - 1 ELSE @]
  /\ ok' = (ok /\ cell[t][i] = Raw)

\* construct_at with the table's tombstones past an eighth: the element is
\* built, and every live slot is marked as not placed yet.
StartRebuild(t, e) ==
  /\ state' = [state EXCEPT ![t] = [i \in Buckets |->
                 IF state[t][i] = "occupied" THEN "tombstone" ELSE "empty"]]
  /\ tombstones_' = [tombstones_ EXCEPT ![t] = 0]
  /\ call' = [op |-> "rebuild", t |-> t, i |-> 0, carry |-> Raw, entry |-> e,
              was |-> Contents(t)]
  /\ UNCHANGED <<cell, size_, ok>>

TooManyTombstones(t) == NothrowMove /\ tombstones_[t] > bucket_count \div 8

construct_at(t, i, e) ==
  IF TooManyTombstones(t) THEN StartRebuild(t, e)
  ELSE place_at(t, i) /\ cell' = [cell EXCEPT ![t][i] = e] /\ UNCHANGED call

Full(t) == size_[t] >= Capacity

\* try_emplace and emplace of an absent key.  A throw by the hasher, the
\* comparison or the element's constructor before the rebuild changes nothing.
try_emplace(t, e) ==
  LET i == locate_insert_index(t, KeyOf(e))
  IN  /\ call = None /\ ~Torn(t)
      /\ i # None /\ state[t][i] # "occupied" /\ ~Full(t)
      /\ construct_at(t, i, e)
      /\ UNCHANGED hasher_

-----------------------------------------------------------------------------
\* rehash_in_place.
Rebuilding == call # None /\ call.op = "rebuild"

\* Fault: the loop starts at the second slot.
Unplaced_Later == {j \in In(call.t, "tombstone") : j > call.i}

Unplaced == {j \in In(call.t, "tombstone") : j >= call.i}

\* The next slot whose element is not placed: it goes to `carry`.
TakeNext ==
  /\ Rebuilding /\ call.carry = Raw /\ Unplaced # {}
  /\ LET t == call.t
         j == Min(Unplaced)
     IN  /\ call' = [call EXCEPT !.i = j + 1, !.carry = cell[t][j]]
         /\ cell' = [cell EXCEPT ![t][j] = Raw]
         /\ state' = [state EXCEPT ![t][j] = "empty"]
         /\ ok' = (ok /\ cell[t][j] # Raw)
  /\ UNCHANGED <<size_, tombstones_, hasher_>>

\* The first slot of carry's probe run that holds no placed element.
Target ==
  LET key  == KeyOf(call.carry)
      free == {p \in Buckets : state[call.t][Slot(call.t, key, p)] # "occupied"}
  IN  Slot(call.t, key, Min(free))

\* Fault: the displaced element's slot stays marked as not placed.
Settled_StaysUnplaced(s) == s

Settled(s) == "occupied"

\* Carry is placed there; an element it displaces is carried on.
Settle ==
  /\ Rebuilding /\ call.carry # Raw
  /\ LET t == call.t
         held == cell[t][Target]
     IN  /\ cell' = [cell EXCEPT ![t][Target] = call.carry]
         /\ IF state[t][Target] = "empty"
            THEN /\ state' = [state EXCEPT ![t][Target] = "occupied"]
                 /\ call' = [call EXCEPT !.carry = Raw]
                 /\ ok' = (ok /\ held = Raw)
            ELSE /\ state' = [state EXCEPT ![t][Target] = Settled(@)]
                 /\ call' = [call EXCEPT !.carry = held]
                 /\ ok' = (ok /\ held # Raw)
  /\ UNCHANGED <<size_, tombstones_, hasher_>>

\* The slots that hold an element during the rebuild.
Placed(t) == Buckets \ In(t, "empty")

\* bucket_during_rebuild: the hasher throws, and the table is emptied.
HasherThrows ==
  /\ Rebuilding /\ call.carry # Raw
  /\ LET t == call.t
     IN  /\ cell' = [cell EXCEPT ![t] = [i \in Buckets |->
                       IF i \in Placed(t) THEN Raw ELSE cell[t][i]]]
         /\ state' = [state EXCEPT ![t] = [i \in Buckets |-> "empty"]]
         /\ size_' = [size_ EXCEPT ![t] = 0]
         /\ tombstones_' = [tombstones_ EXCEPT ![t] = 0]
         /\ ok' = (ok /\ \A i \in Placed(t) : cell[t][i] # Raw)
  /\ call' = None
  /\ UNCHANGED hasher_

\* The rebuild is over: the new element is placed, or its search throws.
FinishRebuild ==
  /\ Rebuilding /\ call.carry = Raw /\ Unplaced = {}
  /\ LET i == locate_insert_index(call.t, KeyOf(call.entry))
     IN  \/ /\ cell' = [cell EXCEPT ![call.t][i] = call.entry]
            /\ place_at(call.t, i)
         \/ UNCHANGED <<cell, state, size_, tombstones_, ok>>
  /\ call' = None
  /\ UNCHANGED hasher_

-----------------------------------------------------------------------------
\* destroy_at for the slots D of table t.
destroy_at(t, D) ==
  /\ cell' = [cell EXCEPT ![t] = [i \in Buckets |-> IF i \in D THEN Raw ELSE cell[t][i]]]
  /\ state' = [state EXCEPT ![t] = [i \in Buckets |->
                 IF i \in D THEN "tombstone" ELSE state[t][i]]]
  /\ size_' = [size_ EXCEPT ![t] = @ - Cardinality(D)]
  /\ tombstones_' = [tombstones_ EXCEPT ![t] = @ + Cardinality(D)]
  /\ ok' = (ok /\ \A i \in D : cell[t][i] # Raw)
  /\ UNCHANGED <<hasher_, call>>

erase(t, key) ==
  /\ call = None /\ ~Torn(t) /\ find_existing_index(t, key) # None
  /\ destroy_at(t, {find_existing_index(t, key)})

erase_position(t, i) ==
  /\ call = None /\ ~Torn(t) /\ state[t][i] = "occupied"
  /\ destroy_at(t, {i})

\* erase_if, whose predicate throws at slot `upto` or, at the last, returns.
erase_if(t, pred, upto) ==
  /\ call = None /\ ~Torn(t)
  /\ destroy_at(t, {i \in In(t, "occupied") \cap pred : i < upto})

\* clear() of the tables T.
Cleared(T) ==
  /\ cell' = [t \in Tables |-> [i \in Buckets |->
       IF t \in T /\ state[t][i] = "occupied" THEN Raw ELSE cell[t][i]]]
  /\ state' = [t \in Tables |-> IF t \in T THEN [i \in Buckets |-> "empty"] ELSE state[t]]
  /\ tombstones_' = [t \in Tables |-> IF t \in T THEN 0 ELSE tombstones_[t]]
  /\ ok' = (ok /\ \A t \in T : \A i \in In(t, "occupied") : cell[t][i] # Raw)

SizesCleared(T) ==
  size_' = [t \in Tables |-> IF t \in T THEN size_[t] - Cardinality(In(t, "occupied")) ELSE size_[t]]

clear(t) ==
  /\ call = None /\ Cleared({t}) /\ SizesCleared({t}) /\ UNCHANGED <<hasher_, call>>

-----------------------------------------------------------------------------
\* swap.
Swapping == call # None /\ call.op = "swap"

Exchanged(f, s, t) == [f EXCEPT ![s] = f[t], ![t] = f[s]]

swap(s, t) ==
  /\ call = None /\ s # t /\ ~Torn(s) /\ ~Torn(t)
  /\ hasher_' = Exchanged(hasher_, s, t)
  /\ call' = [op |-> "swap", s |-> s, t |-> t, i |-> 0,
              was |-> <<Contents(s), Contents(t)>>]
  /\ UNCHANGED <<cell, state, size_, tombstones_, ok>>

\* The states that slot i of the two tables has afterwards.
SlotStates(s, t, i) == <<state[t][i], state[s][i]>>

SwapSlot ==
  /\ Swapping /\ call.i < bucket_count
  /\ LET s == call.s
         t == call.t
         i == call.i
     IN  /\ cell' = [cell EXCEPT ![s][i] = cell[t][i], ![t][i] = cell[s][i]]
         /\ state' = [state EXCEPT ![s][i] = SlotStates(s, t, i)[1],
                                   ![t][i] = SlotStates(s, t, i)[2]]
         /\ ok' = (ok /\ \A u \in {s, t} : state[u][i] = "occupied" <=> cell[u][i] # Raw)
  /\ call' = [call EXCEPT !.i = @ + 1]
  /\ UNCHANGED <<size_, tombstones_, hasher_>>

FinishSwap ==
  /\ Swapping /\ call.i = bucket_count
  /\ size_' = Exchanged(size_, call.s, call.t)
  /\ tombstones_' = Exchanged(tombstones_, call.s, call.t)
  /\ call' = None
  /\ UNCHANGED <<cell, state, hasher_, ok>>

ResetSizes(s, t) == size_' = [size_ EXCEPT ![s] = 0, ![t] = 0]

SwapThrows ==
  /\ Swapping /\ call.i < bucket_count
  /\ Cleared({call.s, call.t}) /\ ResetSizes(call.s, call.t)
  /\ call' = None /\ UNCHANGED hasher_

-----------------------------------------------------------------------------
\* Copy and move construction and assignment of s from t.
Copying == call # None /\ call.op \in {"copy", "move"}

StartCopy(s, t, op, fresh) ==
  /\ call = None /\ s # t /\ ~Torn(t)
  /\ Cleared({s}) /\ SizesCleared({s})
  /\ hasher_' = [hasher_ EXCEPT ![s] = hasher_[t]]
  /\ call' = [op |-> op, s |-> s, t |-> t, i |-> 0, fresh |-> fresh, was |-> Contents(t)]

copy_construct(s, t) == StartCopy(s, t, "copy", TRUE)
move_construct(s, t) == StartCopy(s, t, "move", TRUE)
copy_assign(s, t) == StartCopy(s, t, "copy", FALSE)
move_assign(s, t) == StartCopy(s, t, "move", FALSE)

\* The iterators: begin() and ++ go to the next occupied slot, or the end.
skip_to_occupied(t, i) == Min({j \in In(t, "occupied") : j >= i} \cup {bucket_count})

\* The slot of t that the iterator is at, if any, and whether its key is gone.
Current == skip_to_occupied(call.t, call.i)
Exhausted == Current = bucket_count
KeyLost == cell[call.t][Current] = Moved

\* The emplace of the element there.
CopyNext ==
  /\ Copying /\ ~Exhausted /\ ~KeyLost
  /\ LET s == call.s
         j == Current
         e == cell[call.t][j]
         i == locate_insert_index(s, KeyOf(e))
     IN  /\ place_at(s, i)
         /\ cell' = IF call.op = "move" THEN [cell EXCEPT ![s][i] = e, ![call.t][j] = Moved]
                    ELSE [cell EXCEPT ![s][i] = e]
         /\ call' = [call EXCEPT !.i = j + 1]
  /\ UNCHANGED hasher_

SourceAfter(op, t) ==
  IF op = "move" THEN Cleared({t}) /\ SizesCleared({t})
  ELSE UNCHANGED <<cell, state, size_, tombstones_, ok>>

FinishCopy ==
  /\ Copying /\ Exhausted
  /\ SourceAfter(call.op, call.t)
  /\ call' = None /\ UNCHANGED hasher_

\* An exception ends the loop; that of a constructor destroys s.
CopyThrows ==
  /\ Copying /\ ~Exhausted
  /\ IF call.fresh
     THEN /\ Cleared({call.s}) /\ SizesCleared({call.s})
     ELSE UNCHANGED <<cell, state, size_, tombstones_, ok>>
  /\ call' = None /\ UNCHANGED hasher_

\* A call runs on until it returns or throws.
Running == \/ TakeNext \/ Settle \/ HasherThrows \/ FinishRebuild
           \/ SwapSlot \/ FinishSwap \/ SwapThrows
           \/ CopyNext \/ FinishCopy \/ CopyThrows

Next ==
  \/ Running
  \/ \E t \in Tables :
       \/ clear(t)
       \/ \E e \in Entries : try_emplace(t, e) \/ erase(t, KeyOf(e))
       \/ \E i \in Buckets : erase_position(t, i)
       \/ \E pred \in SUBSET In(t, "occupied"), upto \in 1 .. bucket_count : erase_if(t, pred, upto)
       \/ \E s \in Tables : \/ swap(s, t)
                           \/ copy_construct(s, t) \/ move_construct(s, t)
                           \/ copy_assign(s, t) \/ move_assign(s, t)

Spec == Init /\ [][Next]_vars /\ WF_vars(Running)

-----------------------------------------------------------------------------
\* static_unordered_map: entries are <<key, value>>.

\* The header repeats the set's table code for entries.
find_entry_index(m, key) == find_existing_index(m, key)
locate_entry_index(m, key) == locate_insert_index(m, key)
construct_entry_at(m, i, e) == construct_at(m, i, e)

\* The value found, if any.
find(m, key) ==
  {cell[m][i][2] : i \in {find_entry_index(m, key)} \ {None}}

skip_to_entry(m, i) == skip_to_occupied(m, i)

Iterated(m) ==
  LET from[i \in 0 .. bucket_count] ==
        IF i = bucket_count THEN <<>> ELSE <<cell[m][i]>> \o from[skip_to_entry(m, i + 1)]
  IN  from[skip_to_entry(m, 0)]

try_emplace_value(m, key, x) ==
  LET i == locate_entry_index(m, key)
  IN  /\ call = None /\ ~Torn(m)
      /\ i # None /\ state[m][i] # "occupied" /\ ~Full(m)
      /\ construct_entry_at(m, i, <<key, x>>)
      /\ UNCHANGED hasher_

\* A key that is there has its value assigned (a throw leaves it), another
\* is inserted.
insert_or_assign_impl(m, key, x) ==
  /\ call = None /\ ~Torn(m)
  /\ LET i == find_entry_index(m, key)
     IN  \/ /\ i # None
            /\ cell' = [cell EXCEPT ![m][i] = <<key, x>>]
            /\ UNCHANGED <<state, size_, tombstones_, hasher_, call, ok>>
         \/ i = None /\ try_emplace_value(m, key, x)

insert_or_assign(m, key, x) == insert_or_assign_impl(m, key, x)

\* operator[] inserts a value-initialised value for an absent key.
subscript(m, key) ==
  /\ call = None /\ ~Torn(m) /\ find_entry_index(m, key) = None
  /\ try_emplace_value(m, key, Default)

erase_key(m, key) == erase(m, key)
erase_at(m, i) == erase_position(m, i)
erase_entries(m, pred, upto) == erase_if(m, pred, upto)
clear_map(m) == clear(m)
swap_maps(m, n) == swap(m, n)
copy_map(m, n) == copy_construct(m, n) \/ copy_assign(m, n)
move_map(m, n) == move_construct(m, n) \/ move_assign(m, n)

rehash_map == TakeNext \/ Settle \/ FinishRebuild
rehash_throws == HasherThrows
swap_map_slots == SwapSlot \/ FinishSwap
swap_map_throws == SwapThrows

\* emplace moves an entry's key before its value; when the value's move
\* throws, the source's entry is left without its key.
LoseKey ==
  /\ Copying /\ call.op = "move" /\ ~NothrowMove /\ ~Exhausted /\ ~KeyLost
  /\ cell' = [cell EXCEPT ![call.t][Current] = Moved]
  /\ UNCHANGED <<state, size_, tombstones_, hasher_, call, ok>>

copy_entries == CopyNext \/ LoseKey \/ FinishCopy \/ CopyThrows

MapNext ==
  \/ rehash_map \/ rehash_throws \/ swap_map_slots \/ swap_map_throws \/ copy_entries
  \/ \E m \in Tables :
       \/ clear_map(m)
       \/ \E e \in Entries :
            try_emplace_value(m, e[1], e[2]) \/ insert_or_assign(m, e[1], e[2])
       \/ \E key \in Keys : subscript(m, key) \/ erase_key(m, key)
       \/ \E i \in Buckets : erase_at(m, i)
       \/ \E pred \in SUBSET In(m, "occupied"), upto \in 1 .. bucket_count :
            erase_entries(m, pred, upto)
       \/ \E n \in Tables : swap_maps(m, n) \/ copy_map(m, n) \/ move_map(m, n)

MapSpec == Init /\ [][MapNext]_vars /\ WF_vars(Running)

-----------------------------------------------------------------------------
States == {"empty", "occupied", "tombstone"}

TypeOK ==
  /\ cell \in [Tables -> [Buckets -> Entries \cup {Raw, Moved}]]
  /\ state \in [Tables -> [Buckets -> States]]
  /\ size_ \in [Tables -> 0 .. Capacity]
  /\ tombstones_ \in [Tables -> 0 .. bucket_count]
  /\ hasher_ \in [Tables -> Hashers] /\ ok \in BOOLEAN
  /\ call # None => call.op \in {"rebuild", "swap", "copy", "move"}

(***************************************************************************)
(* Between calls the storage holds an object exactly where a slot is       *)
(* occupied, size() counts them, and no call, also one that threw, built   *)
(* over an object or used raw storage (static_unordered_set.hpp:606-614,   *)
(* 665-677, 820-849).                                                      *)
(***************************************************************************)
LifetimesExact ==
  /\ ok
  /\ call = None => \A t \in Tables :
       /\ \A i \in Buckets : state[t][i] = "occupied" <=> cell[t][i] # Raw
       /\ size_[t] = Cardinality(In(t, "occupied"))
       /\ tombstones_[t] = Cardinality(In(t, "tombstone"))

(***************************************************************************)
(* Every stored key is found in its own slot and no other key is found, so *)
(* none is stored twice or lost behind an empty slot, whatever the         *)
(* erasures, rebuilds, swaps and throws before, except in the source of a  *)
(* move that threw, which holds moved-from keys (Torn)                     *)
(* (static_unordered_set.hpp:735-751, 754-788).                            *)
(***************************************************************************)
Findable ==
  call = None => \A t \in Tables : ~Torn(t) =>
    /\ \A i \in In(t, "occupied") : find_existing_index(t, KeyOf(cell[t][i])) = i
    /\ \A key \in Keys : contains(t, key) => key \in {KeyOf(e) : e \in Contents(t)}

(***************************************************************************)
(* find gives the value last stored for a key, or none, and iteration      *)
(* meets every entry once, whatever was erased and rebuilt before, except  *)
(* in a Torn map (static_unordered_map.hpp:198-232, 411-478).              *)
(***************************************************************************)
EntriesRead ==
  call = None => \A m \in Tables : ~Torn(m) =>
    /\ \A key \in Keys : find(m, key) = {e[2] : e \in {f \in Contents(m) : f[1] = key}}
    /\ Len(Iterated(m)) = size_[m]
    /\ {Iterated(m)[k] : k \in 1 .. Len(Iterated(m))} = Contents(m)

(***************************************************************************)
(* "Tombstones past ~1/8 of the table: rebuild before placing the new key, *)
(* so negative lookups keep stopping early at an empty slot"               *)
(* (static_unordered_set.hpp:795-796): a table whose elements move without *)
(* throwing has an empty slot whenever it may be searched, which a swap    *)
(* does not do.                                                            *)
(***************************************************************************)
EmptySlotLeft == NothrowMove /\ ~Swapping => \A t \in Tables : In(t, "empty") # {}

(***************************************************************************)
(* During the rebuild the slots from a placed element's bucket up to its   *)
(* own are placed: what is settled need not move again, and the walk in    *)
(* its inner loop finds a slot (static_unordered_set.hpp:875-898).         *)
(***************************************************************************)
PlacedStays ==
  Rebuilding =>
    /\ In(call.t, "occupied") # Buckets
    /\ \A p, q \in Buckets, i \in In(call.t, "occupied") :
         LET key == KeyOf(cell[call.t][i])
         IN  Slot(call.t, key, p) = i /\ q < p => state[call.t][Slot(call.t, key, q)] = "occupied"

(***************************************************************************)
(* A call that returns did what it promises, and one that throws keeps to  *)
(* the documented outcome: a hasher that throws while the rebuild carries  *)
(* an element empties the table, a rebuild that ends has lost nothing, and *)
(* adds its element unless the search for its slot throws; swap exchanges  *)
(* or empties both, a copy or move leaves its target equal to the source,  *)
(* or a part of it (static_unordered_set.hpp:596-598, 652-657,             *)
(* CHOOSING.md:113).                                                       *)
(***************************************************************************)
CallEndsAsPromised ==
  \A c \in {call} : c # None /\ call' = None =>
     CASE c.op = "rebuild" -> IF c.carry = Raw
                              THEN Contents(c.t)' \in {c.was \cup {c.entry}, c.was}
                              ELSE Contents(c.t)' = {}
       [] c.op = "swap" -> <<Contents(c.s)', Contents(c.t)'>>
                             \in {<<c.was[2], c.was[1]>>, <<{}, {}>>}
       [] c.op = "copy" -> /\ Contents(c.t)' = c.was
                           /\ IF Exhausted THEN Contents(c.s)' = c.was
                              ELSE Contents(c.s)' \subseteq c.was
       [] c.op = "move" -> IF Exhausted
                           THEN Contents(c.s)' = c.was /\ Contents(c.t)' = {}
                           ELSE Contents(c.s)' \subseteq c.was

(***************************************************************************)
(* "the inner loops cannot spin" (static_unordered_set.hpp:860-861): every *)
(* call ends.                                                              *)
(***************************************************************************)
CallsEnd == call # None ~> call = None

=============================================================================
