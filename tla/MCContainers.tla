----------------------------- MODULE MCContainers -----------------------------
(***************************************************************************)
(* The value types, containers and algorithms, for TLC: those whose        *)
(* operations are programs of element operations, and what computes on     *)
(* text and bits (Spec); the hash tables, whose loops are steps            *)
(* (TableSpec).  A behaviour is about one subject; the others' state does  *)
(* not exist in it, but for the priority queues, which stay as they are.   *)
(***************************************************************************)
EXTENDS Integers, TLC

CONSTANTS Raw, Moved, Gone, Null, None, a, b, c, q, x, y, z, CopyConstructorThrows

VARIABLES
  subject,
  cells, ok, kept, unseen,   \* of the subject
  size_,                     \* its size_, has_value_, state_ or ops_
  extra,                     \* its head_, its torn sets, element types or class
  cell, state, tombstones_, hasher_, call,   \* of the hash tables
  heap, heap_comp,           \* one priority queue
  heaps, heaps_comp          \* two that are swapped

holder == <<cells, ok, kept, unseen, size_, extra>>
queues == <<heap, heap_comp, heaps, heaps_comp>>
tables == <<cell, state, tombstones_, hasher_, call>>
all == <<subject, holder, queues, tables>>

Itself(e) == e
First(e) == e[1]
MoveKinds == {"fixed", "nothrow", "throwing"}

Vectors == INSTANCE FixedVector WITH Vecs <- {a, b}, Capacity <- 3, Values <- {x, y}

\* Elements that can be assigned, and elements that can only be constructed.
FlatSets == INSTANCE FlatSet WITH
  Sets <- {a, b}, Capacity <- 4, Entries <- 1 .. 5, KeyOf <- Itself, Assignable <- TRUE,
  Paired <- FALSE, torn <- extra
ConstSets == INSTANCE FlatSet WITH
  Sets <- {a, b}, Capacity <- 3, Entries <- 1 .. 4, KeyOf <- Itself, Assignable <- FALSE,
  Paired <- FALSE, torn <- extra
Maps == INSTANCE FlatSet WITH
  Sets <- {a, b}, Capacity <- 3,
  Entries <- (1 .. 3) \X (0 .. 1), KeyOf <- First, Assignable <- TRUE,
  Paired <- TRUE, torn <- extra

Cores == INSTANCE RingCore WITH
  Rings <- {a, b}, Capacity <- 3, Values <- {x, y}, head_ <- extra

Options == INSTANCE Optional WITH
  Optionals <- {a, b, c}, Values <- 1 .. 3, T <- extra, has_value_ <- size_

Expects == INSTANCE Expected WITH
  Expecteds <- {a, b}, Values <- {x, y}, kinds <- extra, state_ <- size_,
  Kinds <- [{"value", "error"} -> MoveKinds]
Voids == INSTANCE Expected WITH
  Expecteds <- {a, b, c}, Values <- {x, y, z}, kinds <- extra, state_ <- size_,
  Kinds <- [value : {"nothrow"}, error : MoveKinds]

Calls == INSTANCE FixedFunction WITH
  Functions <- {a, b}, Targets <- {x, y}, ops_ <- size_, kind <- extra

\* Three levels of a heap, and two heaps of two.
Heap == INSTANCE FixedPriorityQueue WITH
  Queues <- {q}, Capacity <- 7, Keys <- 0 .. 2, storage_ <- heap, comp_ <- heap_comp
Heaps == INSTANCE FixedPriorityQueue WITH
  Queues <- {a, b}, Capacity <- 3, Keys <- 0 .. 2, storage_ <- heaps, comp_ <- heaps_comp

\* The characters -, /, 0, 1, 2, 5, 8, :, A, G and f: digits, and what is
\* next to them.
Arriving == {45, 47, 48, 49, 50, 53, 56, 58, 65, 71, 102}
Formatted == {-128, -100, -9, 0, 9, 10, 99, 127, 128, 255}

\* An eight-bit type folded in an accumulator as wide, and in a wider one.
Lines == INSTANCE Text WITH
  Bits <- 8, AccBits <- 8, MaxLine <- 4, MaxBuffer <- 4,
  Characters <- Arriving, Values <- Formatted, out <- cells, text <- kept, sent <- extra
Narrow == INSTANCE Text WITH
  Bits <- 8, AccBits <- 12, MaxLine <- 4, MaxBuffer <- 4,
  Characters <- Arriving, Values <- Formatted, out <- cells, text <- kept, sent <- extra

\* A character above 127 is a negative char; one text does not fit.
Fixed == INSTANCE FixedString WITH
  Strings <- {a, b}, Capacity <- 3, Chars <- {97, -56},
  Texts <- {<<>>, <<97>>, <<-56>>, <<97, -56>>, <<97, 97, -56, 97>>},
  storage_ <- cells, value <- kept

\* Three words, the last of two bits; types of two bytes.
Bits == INSTANCE Words WITH
  N <- 8, word_bits <- 3, byte_bits <- 4,
  Tails <- {<<>>, <<{0, 2, 7}, {6}>>, <<{}, 0 .. 7>>},
  Given <- [initial |-> {1, 6}, final_xor |-> {0, 3}],
  words_ <- cells, bits <- kept

\* Eight buckets, and every hash function that makes four keys cluster around
\* the end of the table.
HashSet == INSTANCE StaticUnorderedSet WITH
  Tables <- {a}, Capacity <- 3, bucket_count <- 8, NothrowMove <- TRUE, Default <- 0,
  Entries <- 1 .. 4, KeyOf <- Itself, Hashers <- [1 .. 4 -> {0, 6, 7}]

\* Two buckets each, and a key for each bucket.
SmallSets == INSTANCE StaticUnorderedSet WITH
  Tables <- {a, b}, Capacity <- 1, bucket_count <- 2, NothrowMove <- TRUE, Default <- 0,
  Entries <- 1 .. 2, KeyOf <- Itself, Hashers <- {[k \in 1 .. 2 |-> k]}

\* Four buckets each; all keys in the last, or spread.
HashMaps == INSTANCE StaticUnorderedSet WITH
  Tables <- {a, b}, Capacity <- 2, bucket_count <- 4, NothrowMove <- FALSE, Default <- 0,
  Entries <- {<<1, 0>>, <<1, 7>>, <<2, 0>>, <<3, 0>>}, KeyOf <- First,
  Hashers <- {[k \in 1 .. 3 |-> 3], [k \in 1 .. 3 |-> k]}

\* Elements whose move does not throw, so that the table is rebuilt.
RebuiltMap == INSTANCE StaticUnorderedSet WITH
  Tables <- {a}, Capacity <- 3, bucket_count <- 8, NothrowMove <- TRUE, Default <- 0,
  Entries <- {<<1, 0>>, <<1, 7>>, <<2, 0>>, <<3, 0>>}, KeyOf <- First,
  Hashers <- [1 .. 3 -> {0, 7}]

ASSUME \A fits \in {HashSet!BucketCountOfCapacity, SmallSets!BucketCountOfCapacity,
                    HashMaps!BucketCountOfCapacity, RebuiltMap!BucketCountOfCapacity} : fits

-----------------------------------------------------------------------------
\* Variables a subject has no use for.
Unused(v) == v = {}

HolderInit ==
  \/ subject = "vectors" /\ Vectors!Init /\ Unused(extra) /\ Unused(unseen)
  \/ subject = "sets" /\ FlatSets!Init /\ Unused(unseen)
  \/ subject = "const sets" /\ ConstSets!Init /\ Unused(unseen)
  \/ subject = "maps" /\ Maps!Init /\ Unused(unseen)
  \/ subject = "rings" /\ Cores!Init /\ Unused(unseen)
  \/ subject = "optionals" /\ Options!Init
  \/ subject = "expecteds" /\ Expects!Init
  \/ subject = "voids" /\ Voids!Init
  \/ subject = "functions" /\ Calls!Init
  \/ /\ subject = "lines" /\ Lines!Init
     /\ Unused(ok) /\ Unused(unseen) /\ Unused(size_)
  \/ /\ subject = "strings" /\ Fixed!Init
     /\ Unused(ok) /\ Unused(unseen) /\ Unused(extra)
  \/ /\ subject = "bits" /\ Bits!Init
     /\ Unused(ok) /\ Unused(unseen) /\ Unused(size_) /\ Unused(extra)
  \/ /\ subject \in {"heap", "heaps"}
     /\ Unused(cells) /\ Unused(ok) /\ Unused(kept) /\ Unused(unseen)
     /\ Unused(size_) /\ Unused(extra)

QueuesInit ==
  /\ Heap!Init /\ Heaps!Init
  /\ subject = "heap" \/ heap_comp[q] = "less"
  /\ subject = "heaps" \/ \A r \in {a, b} : heaps_comp[r] = "less"

Init ==
  /\ HolderInit /\ QueuesInit
  /\ Unused(cell) /\ Unused(state) /\ Unused(tombstones_) /\ Unused(hasher_) /\ Unused(call)

\* A step of subject s.
Of(s) == subject = s /\ UNCHANGED <<subject, queues, tables>>

Next ==
  \/ Of("vectors") /\ Vectors!Next /\ UNCHANGED <<extra, unseen>>
  \/ Of("sets") /\ FlatSets!Next /\ UNCHANGED unseen
  \/ Of("const sets") /\ ConstSets!Next /\ UNCHANGED unseen
  \/ Of("maps") /\ Maps!MapNext /\ UNCHANGED unseen
  \/ Of("rings") /\ Cores!Next /\ UNCHANGED unseen
  \/ Of("optionals") /\ Options!Next
  \/ Of("expecteds") /\ Expects!Next
  \/ Of("voids") /\ Voids!VoidNext
  \/ Of("functions") /\ Calls!Next
  \/ Of("lines") /\ Lines!Next /\ UNCHANGED <<ok, unseen, size_>>
  \/ Of("strings") /\ Fixed!Next /\ UNCHANGED <<ok, unseen, extra>>
  \/ Of("bits") /\ Bits!Next /\ UNCHANGED <<ok, unseen, size_, extra>>
  \/ subject = "heap" /\ Heap!Next /\ UNCHANGED <<subject, holder, tables, heaps, heaps_comp>>
  \/ subject = "heaps" /\ Heaps!Next /\ UNCHANGED <<subject, holder, tables, heap, heap_comp>>

Spec == Init /\ [][Next]_all

Symmetry == Permutations({a, b}) \cup Permutations({x, y})

TableInit ==
  /\ \/ subject = "hash set" /\ HashSet!Init
     \/ subject = "small sets" /\ SmallSets!Init
     \/ subject = "hash maps" /\ HashMaps!Init
     \/ subject = "rebuilt map" /\ RebuiltMap!Init
  /\ QueuesInit
  /\ Unused(cells) /\ Unused(kept) /\ Unused(unseen) /\ Unused(extra)

\* A step of subject s among the tables.
OfTables(s) == subject = s /\ UNCHANGED <<subject, queues, cells, kept, unseen, extra>>

TableRunning ==
  \/ OfTables("hash set") /\ HashSet!Running
  \/ OfTables("small sets") /\ SmallSets!Running
  \/ OfTables("hash maps") /\ HashMaps!Running
  \/ OfTables("rebuilt map") /\ RebuiltMap!Running

TableNext ==
  \/ OfTables("hash set") /\ HashSet!Next
  \/ OfTables("small sets") /\ SmallSets!Next
  \/ OfTables("hash maps") /\ HashMaps!MapNext
  \/ OfTables("rebuilt map") /\ RebuiltMap!MapNext

TableSpec == TableInit /\ [][TableNext]_all /\ WF_all(TableRunning)

-----------------------------------------------------------------------------
\* Each component's properties are stated, with their reasons, in its module.

TypeOK ==
  /\ Heap!TypeOK /\ Heaps!TypeOK
  /\ CASE subject = "vectors"    -> Vectors!TypeOK
       [] subject = "sets"       -> FlatSets!TypeOK
       [] subject = "const sets" -> ConstSets!TypeOK
       [] subject = "maps"       -> Maps!TypeOK
       [] subject = "rings"      -> Cores!TypeOK
       [] subject = "optionals"  -> Options!TypeOK
       [] subject = "expecteds"  -> Expects!TypeOK
       [] subject = "voids"      -> Voids!TypeOK
       [] subject = "functions"  -> Calls!TypeOK
       [] OTHER                  -> TRUE

(***************************************************************************)
(* An expected stores the member its discriminant names and no other,      *)
(* after every call and throw (expected.hpp:361-367, 1080-1084,            *)
(* 1211-1214).                                                             *)
(***************************************************************************)
ExpectedLifetimes == subject = "expecteds" => Expects!LifetimesExact

(***************************************************************************)
(* The state is well typed, and after every call, thrown out of or not,    *)
(* the objects in the storage are exactly the ones the container or value  *)
(* type says it holds, and no call built over, read or destroyed what was  *)
(* not there (fixed_vector.hpp:153-157, 712-730; flat_set.hpp:615-705;     *)
(* detail/ring_core.hpp:315-326, 405-413; optional.hpp:329-377;            *)
(* expected.hpp:325-331, 361-367; fixed_function.hpp:257-259, 292-321).    *)
(***************************************************************************)
LifetimesExact ==
  /\ TypeOK /\ ExpectedLifetimes
  /\ CASE subject = "vectors"    -> Vectors!LifetimesExact
       [] subject = "sets"       -> FlatSets!LifetimesExact
       [] subject = "const sets" -> ConstSets!LifetimesExact
       [] subject = "maps"       -> Maps!LifetimesExact
       [] subject = "rings"      -> Cores!LifetimesExact
       [] subject = "optionals"  -> Options!LifetimesExact
       [] subject = "voids"      -> Voids!ErrorStoredExactly
       [] subject = "functions"  -> Calls!LifetimesExact
       [] OTHER                  -> TRUE

(***************************************************************************)
(* A call that returns leaves what its documentation says, also when its   *)
(* argument is inside the container; one that throws leaves the old        *)
(* contents, none, or what is documented for it (but for the key that a    *)
(* flat_map may lose, FlatSet.tla); and the comparisons of optionals       *)
(* follow one order with empty least (fixed_vector.hpp:331-335,            *)
(* 484-513; CHOOSING.md:112; ring_buffer.hpp:80-98; optional.hpp:320-328,  *)
(* 381-383, 580-779; expected.hpp:535, 755-761, 1121-1122;                 *)
(* fixed_function.hpp:249-261, 344-363).                                   *)
(***************************************************************************)
CallsAsPromised ==
  CASE subject = "vectors"    -> Vectors!CallsAsPromised
    [] subject = "sets"       -> FlatSets!CallsAsPromised
    [] subject = "const sets" -> ConstSets!CallsAsPromised
    [] subject = "maps"       -> Maps!CallsAsPromised
    [] subject = "rings"      -> Cores!CallsAsPromised
    [] subject = "optionals"  -> Options!CallsAsPromised /\ Options!OneOrder
    [] subject = "expecteds"  -> Expects!CallsAsPromised
    [] subject = "voids"      -> Voids!CallsAsPromised
    [] subject = "functions"  -> Calls!CallsAsPromised
    [] OTHER                  -> TRUE

(***************************************************************************)
(* A flat_set or flat_map is sorted, without duplicates or moved-from      *)
(* keys, after any call and any throw, except the source of a move that    *)
(* threw and a flat_map of which the move of one value threw outside its   *)
(* try blocks (flat_map.hpp:703, 800), whose other keys are still in       *)
(* order; and on every array operations can leave, the binary searches     *)
(* agree with counting, also for a probe that many keys are equivalent to, *)
(* and the comparisons with the order of the contents (flat_set.hpp:50-54, *)
(* 235-290, 321-366, 620-622, 801-852; flat_map.hpp:264-299, 330-376,      *)
(* 693-695, 878-941).                                                      *)
(***************************************************************************)
FlatSorted ==
  CASE subject = "sets" ->
           /\ FlatSets!SortedUnique /\ FlatSets!LookupsExact
           /\ FlatSets!ProbesExact(FALSE) /\ FlatSets!ComparesContents(FALSE)
    [] subject = "const sets" ->
           /\ ConstSets!SortedUnique /\ ConstSets!LookupsExact
           /\ ConstSets!ProbesExact(FALSE) /\ ConstSets!ComparesContents(FALSE)
    [] subject = "maps" ->
           /\ Maps!SortedUnique /\ Maps!LookupsExact
           /\ Maps!ProbesExact(TRUE) /\ Maps!ComparesContents(TRUE)
    [] OTHER                  -> TRUE

(***************************************************************************)
(* A destructor that looks at the optional, function wrapper or expected   *)
(* it is destroyed in finds it empty, or neither value nor error, whichever*)
(* operation destroys it (optional.hpp:346-359; expected.hpp:159-163,      *)
(* 438-443; fixed_function.hpp:285-289), but for one exception: a function *)
(* wrapper's swap destroys targets while the wrapper is engaged            *)
(* (fixed_function.hpp:301, 305, 313, 318), all of them moved from.        *)
(***************************************************************************)
HiddenWhileDestroyed ==
  CASE subject = "optionals" -> Options!EmptyBeforeDestruction
    [] subject = "expecteds" -> Expects!SwitchingWhileDestroyed
    [] subject = "voids"     -> Voids!SwitchingWhileDestroyed
    [] subject = "functions" -> Calls!EmptyBeforeDestruction
    [] OTHER                 -> TRUE

(***************************************************************************)
(* The heaps are bounded bags of keys: no element is lost or duplicated    *)
(* and the greatest leaves first, after any mix of pushes, pops, erase_if, *)
(* swaps and throws; a pop removes a greatest key and nothing else, a push *)
(* adds its key and erase_if removes its victims                           *)
(* (fixed_priority_queue.hpp:121-128, 173-188, 227-245, 280-320).          *)
(***************************************************************************)
ImplementsPriorityQueue ==
  /\ Heap!BagInit /\ Heaps!BagInit
  /\ [][CASE subject = "heap"  -> Heap!BagStep /\ UNCHANGED <<heaps, heaps_comp>>
          [] subject = "heaps" -> Heaps!BagStep /\ UNCHANGED <<heap, heap_comp>>
          [] OTHER             -> UNCHANGED queues]_all

(***************************************************************************)
(* A line is read as the number its digits denote or refused as out of     *)
(* range; a formatted number reads back as itself, and a format call,      *)
(* refused or not, writes nothing past the text it returns                 *)
(* (parse.hpp:148-166, 223-233, 297-301; format.hpp:20-22, 129-130,        *)
(* 246-252).                                                               *)
(***************************************************************************)
TextExact ==
  /\ [](subject = "lines" =>
          Lines!TypeOK /\ Lines!ParsesExactly /\ Narrow!ParsesExactly /\ Lines!RoundTrip)
  /\ [][subject = "lines" => Lines!OnlyItsText]_<<cells, kept>>

(***************************************************************************)
(* A string holds what its calls gave it and a terminator, also when it    *)
(* was given part of itself; comparisons and hashes see those characters   *)
(* alone (fixed_string.hpp:153-165, 197-254, 353-368, 382-392, 404-462,    *)
(* 485-495).                                                               *)
(***************************************************************************)
StringsExact ==
  subject = "strings" => Fixed!TypeOK /\ Fixed!HoldsItsText /\ Fixed!ComparesItsText

(***************************************************************************)
(* A bitset holds the bits it stands for and answers for them, across word *)
(* boundaries; the functions on the number they spell, and checksums that  *)
(* begin with it, are what they promise (detail/bitset.hpp:58-159;         *)
(* bit.hpp:100-255; crc16.hpp:35-48).                                      *)
(***************************************************************************)
WordsExact ==
  subject = "bits" => Bits!BitsetExact /\ Bits!NumbersExact /\ Bits!ChecksumsExact

\* Those of the tables are StaticUnorderedSet's.

TableTypeOK ==
  CASE subject = "hash set"   -> HashSet!TypeOK
    [] subject = "small sets" -> SmallSets!TypeOK
    [] subject = "hash maps"  -> HashMaps!TypeOK
    [] subject = "rebuilt map" -> RebuiltMap!TypeOK

(***************************************************************************)
(* The state is well typed; objects are exactly in the occupied slots      *)
(* between calls, and no call uses raw storage, also after a throw.  Every *)
(* stored key is found in its own slot, a map's with its value, and no     *)
(* other key is, and iteration meets each entry once, except in a table    *)
(* that a move which threw has left with moved-from keys (Torn), until it  *)
(* is cleared or assigned to; a search always ends at                      *)
(* an empty slot where the rebuild is allowed; and what the rebuild has    *)
(* placed it never displaces (static_unordered_set.hpp:606-614, 665-677,   *)
(* 735-751, 754-788, 795-796, 820-849, 875-898;                            *)
(* static_unordered_map.hpp:198-232, 411-478).                             *)
(***************************************************************************)
TablesExact ==
  /\ TableTypeOK
  /\ CASE subject = "hash set" ->
              /\ HashSet!LifetimesExact /\ HashSet!Findable
              /\ HashSet!EmptySlotLeft /\ HashSet!PlacedStays
       [] subject = "small sets" ->
              /\ SmallSets!LifetimesExact /\ SmallSets!Findable
              /\ SmallSets!EmptySlotLeft /\ SmallSets!PlacedStays
       [] subject = "hash maps" ->
              /\ HashMaps!LifetimesExact /\ HashMaps!Findable /\ HashMaps!EntriesRead
              /\ HashMaps!EmptySlotLeft /\ HashMaps!PlacedStays
       [] subject = "rebuilt map" ->
              /\ RebuiltMap!LifetimesExact /\ RebuiltMap!Findable /\ RebuiltMap!EntriesRead
              /\ RebuiltMap!EmptySlotLeft /\ RebuiltMap!PlacedStays

(***************************************************************************)
(* A call that returns did what it promises, and one that throws keeps to  *)
(* the documented outcome (static_unordered_set.hpp:596-598, 652-657,      *)
(* CHOOSING.md:113).                                                       *)
(***************************************************************************)
TableCalls ==
  [][CASE subject = "hash set" -> HashSet!CallEndsAsPromised
       [] subject = "small sets" -> SmallSets!CallEndsAsPromised
       [] subject = "hash maps" -> HashMaps!CallEndsAsPromised
       [] subject = "rebuilt map" -> RebuiltMap!CallEndsAsPromised]_all

(***************************************************************************)
(* "the inner loops cannot spin" (static_unordered_set.hpp:860-861): every *)
(* call ends.                                                              *)
(***************************************************************************)
CallsEnd == call # None ~> call = None

=============================================================================
