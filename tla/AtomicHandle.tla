----------------------------- MODULE AtomicHandle -----------------------------
(***************************************************************************)
(* metl::atomic_handle (atomic_handle.hpp) over metl::versioned_handle     *)
(* (versioned_handle.hpp), under the structure it is made for: the head of *)
(* a lock-free free list.  Threads take slots from the list and give them  *)
(* back; a slot's generation advances when it is given back, as            *)
(* handle_pool advances it, by two and past zero.  A thread may sleep      *)
(* between its load and its exchange while others work, but not while one  *)
(* slot is given back MaxRecycles + 1 times (atomic_handle.hpp:20-25).     *)
(***************************************************************************)
EXTENDS Integers, Sequences, FiniteSets

CONSTANTS
  Threads,
  Capacity,      \* slots
  HalfGens,      \* the generation counts modulo 2 * HalfGens
  MaxRecycles,
  Nobody

Slots == 0 .. Capacity - 1
Gens == 0 .. 2 * HalfGens - 1

VARIABLES
  value_,        \* the packed word of the cell
  next_,         \* [slots -> packed word]: the rest of the list
  generation,    \* [slots -> odd generation]
  owner,         \* [slots -> thread or Nobody]
  call,          \* [threads -> the call in progress]
  recycled,      \* [threads -> how often the slot it observed was given back since]
  sole           \* no slot was taken that was not free

vars == <<value_, next_, generation, owner, call, recycled, sole>>

pack(i, g) == g * Capacity + i
canonical(raw) == IF raw \div Capacity = 0 THEN 0 ELSE raw
null == 0
index(h) == h % Capacity
from_packed(raw) == canonical(raw)

Idle == [at |-> "idle", observed |-> null, desired |-> null]

\* The slots are linked in order, all at their first generation.
Init ==
  /\ value_ = pack(0, 1)
  /\ next_ = [i \in Slots |-> IF i + 1 \in Slots THEN pack(i + 1, 1) ELSE null]
  /\ generation = [i \in Slots |-> 1]
  /\ owner = [i \in Slots |-> Nobody]
  /\ call = [t \in Threads |-> Idle]
  /\ recycled = [t \in Threads |-> 0]
  /\ sole = TRUE

\* Fault: only the index is compared.
Exchanges_IndexOnly(expected) == index(value_) = index(expected)

Exchanges(expected) == value_ = expected

\* The exchange happened, or expected holds what was observed.
CompareExchange(t, spurious, Then, Else) ==
  LET c == call[t]
  IN  IF Exchanges(c.observed) /\ ~spurious
      THEN value_' = c.desired /\ Then
      ELSE /\ call' = [call EXCEPT ![t].observed = from_packed(value_), ![t].at = Else]
           /\ recycled' = [recycled EXCEPT ![t] = 0]
           /\ UNCHANGED <<value_, next_, generation, owner, sole>>

load(t, at) ==
  /\ call' = [call EXCEPT ![t] = [at |-> at, observed |-> from_packed(value_), desired |-> null]]
  /\ recycled' = [recycled EXCEPT ![t] = 0]

-----------------------------------------------------------------------------
take(t) ==
  /\ call[t].at = "idle" /\ load(t, "taking")
  /\ UNCHANGED <<value_, next_, generation, owner, sole>>

\* The link of the slot observed; the slot may be someone's by now.
read_next(t) ==
  /\ call[t].at = "taking"
  /\ IF call[t].observed = null
     THEN call' = [call EXCEPT ![t] = Idle]
     ELSE call' = [call EXCEPT ![t].desired = next_[index(call[t].observed)],
                               ![t].at = "take exchange"]
  /\ UNCHANGED <<value_, next_, generation, owner, recycled, sole>>

\* compare_exchange_weak in a retry loop: it may fail for no reason.
compare_exchange_weak(t, spurious) ==
  /\ call[t].at = "take exchange"
  /\ CompareExchange(t, spurious,
       LET i == index(call[t].observed)
       IN  /\ sole' = (sole /\ owner[i] = Nobody)
           /\ owner' = [owner EXCEPT ![i] = t]
           /\ call' = [call EXCEPT ![t] = Idle]
           /\ recycled' = [recycled EXCEPT ![t] = 0]
           /\ UNCHANGED <<next_, generation>>,
       "taking")

\* The threads that mean to take slot i.
Taking(i) == {u \in Threads : /\ call[u].at \in {"taking", "take exchange"}
                              /\ call[u].observed # null /\ index(call[u].observed) = i}

\* The slot's handles become stale before it goes back.
give_back(t, i) ==
  /\ call[t].at = "idle" /\ owner[i] = t
  /\ \A u \in Taking(i) : recycled[u] < MaxRecycles
  /\ generation' = [generation EXCEPT ![i] = (@ + 2) % (2 * HalfGens)]
  /\ recycled' = [u \in Threads |-> recycled[u] + IF u \in Taking(i) THEN 1 ELSE 0]
  /\ call' = [call EXCEPT ![t] = [at |-> "giving", observed |-> from_packed(value_),
                                  desired |-> pack(i, generation'[i])]]
  /\ UNCHANGED <<value_, next_, owner, sole>>

link(t) ==
  /\ call[t].at = "giving"
  /\ next_' = [next_ EXCEPT ![index(call[t].desired)] = call[t].observed]
  /\ call' = [call EXCEPT ![t].at = "give exchange"]
  /\ UNCHANGED <<value_, generation, owner, recycled, sole>>

compare_exchange_strong(t) ==
  /\ call[t].at = "give exchange"
  /\ CompareExchange(t, FALSE,
       /\ owner' = [owner EXCEPT ![index(call[t].desired)] = Nobody]
       /\ call' = [call EXCEPT ![t] = Idle]
       /\ UNCHANGED <<next_, generation, recycled, sole>>,
       "giving")

\* The slots from handle h on.
Chain(h) ==
  LET walk[k \in 0 .. Capacity] ==
        IF k = 0 THEN h
        ELSE IF walk[k - 1] = null THEN null ELSE next_[index(walk[k - 1])]
  IN  [k \in 1 .. Cardinality({j \in 0 .. Capacity - 1 : walk[j] # null}) |-> index(walk[k - 1])]

\* The whole list is taken at once.
exchange(t) ==
  /\ call[t].at = "idle"
  /\ value_' = null
  /\ LET taken == {Chain(from_packed(value_))[k] : k \in DOMAIN Chain(from_packed(value_))}
     IN  /\ sole' = (sole /\ \A i \in taken : owner[i] = Nobody)
         /\ owner' = [i \in Slots |-> IF i \in taken THEN t ELSE owner[i]]
  /\ UNCHANGED <<next_, generation, call, recycled>>

Next == \E t \in Threads :
  \/ take(t) \/ read_next(t) \/ link(t) \/ compare_exchange_strong(t) \/ exchange(t)
  \/ \E spurious \in BOOLEAN : compare_exchange_weak(t, spurious)
  \/ \E i \in Slots : give_back(t, i)

Spec == Init /\ [][Next]_vars

-----------------------------------------------------------------------------
TypeOK ==
  /\ value_ \in 0 .. Capacity * 2 * HalfGens
  /\ generation \in [Slots -> Gens] /\ owner \in [Slots -> Threads \cup {Nobody}]
  /\ \A t \in Threads : call[t].at \in {"idle", "taking", "take exchange", "giving", "give exchange"}
  /\ sole \in BOOLEAN

(***************************************************************************)
(* An exchange succeeds only where nothing came between: the list holds    *)
(* each free slot once, at its current generation, and no slot that a      *)
(* thread owns; and no slot is taken by two (atomic_handle.hpp:17-24,      *)
(* 126-133, 146-153).                                                      *)
(***************************************************************************)
FreeListSound ==
  LET chain == Chain(value_)
      word == [k \in DOMAIN chain |-> IF k = 1 THEN value_ ELSE next_[chain[k - 1]]]
  IN  /\ sole
      /\ {chain[k] : k \in DOMAIN chain} = {i \in Slots : owner[i] = Nobody}
      /\ \A j, k \in DOMAIN chain : j # k => chain[j] # chain[k]
      /\ \A k \in DOMAIN chain : word[k] = pack(chain[k], generation[chain[k]])
      /\ chain # <<>> => next_[chain[Len(chain)]] = null

=============================================================================
