# Formal models of metl

metl is a header-only C++17 template library for embedded targets: containers of
fixed capacity, pools, lock-free queues, interrupt-safe primitives and
cooperative schedulers, none of which allocates. This directory holds TLA+ models
of the parts that carry state, the TLC runs that check them on small instances,
and TLAPS proofs of the results that matter most for every capacity and width.
Paths below are relative to `src/include/metl/`.

`PROJECT.json` is the index: components, runs, the source lines behind every
definition (`map`), the hazards each property is aimed at, the theorems, and one
plausible bug per property (`mutants`) that makes TLC report it.

## 1. Inventory

metl's components hardly call each other at run time; most of the interaction is
with *user code* that runs in the middle of an operation. Four things make it hard:

* **Two contexts at once.** A producer and a consumer, several of each, or a main
  program and interrupt handlers.
* **User code that throws.** An element's constructor, move, assignment,
  comparator or hasher, at any step of a shift, a swap or a rebuild.
* **User code that calls back.** A constructor, destructor, poll, listener, entry
  hook or initializer that re-enters the object that called it.
* **Counters that wrap.** Free-running indices, tickets, generations, attachment
  numbers, ticks.

| Component | State | Operations | Hard behaviour | Modules |
|---|---|---|---|---|
| `spsc_queue` | two free-running indices, a cached copy of each, slots | try_emplace/try_push, try_pop, size_approx, destructor | stale loads, wrap, throwing constructor | `SpscQueue`, `BoundedFifo`, `IndexDistance` |
| `mpmc_queue` | tickets of both sides, a sequence number per cell | try_emplace/try_push, try_pop, destructor | lost compare-exchanges, suspended threads, wrap | `MpmcQueue`, `TicketFifo` |
| `spsc_byte_ring` | two indices, bytes | writable_span/commit_write, try_write, readable_span/consume, read, clear | spans held while the other side moves, the seam, wrap | `SpscByteRing` |
| `lock`: `irq_lock`, `scoped_lock`, `guarded` | PRIMASK, saved masks | lock, unlock, with_lock | nesting, interrupts between two instructions | `Interrupts`, `Guarded` |
| `once_flag` | init/running/done | try_call_once | interrupts, recursion, a throwing initializer | `OnceFlag` |
| `tick_extender` | the extended total | now | interrupts between read and update, wrap | `TickExtender` |
| `handle_pool`, `versioned_handle` | generations, FIFO free list in the slots | try_emplace, get, destroy, clear | re-entry, throw, generation wrap | `HandlePool` |
| `object_pool` | live bits, LIFO free list, high-water mark | try_emplace, destroy, contains, clear | re-entry, throw | `ObjectPool` |
| `coro::scheduler` | entries with recycled numbers, snapshots of running rounds | attach, detach, run_once, run_until_idle | polls that attach, detach and nest rounds | `Scheduler` |
| `coro::deadline_scheduler` | heap of deadlines, poll depth | try_schedule, cancel, clear, run_due | polls that schedule, cancel and nest run_due | `DeadlineScheduler` |
| `fixed_priority_queue` | heap array, comparator | push, pop, erase_if, swap, clear | throw inside a sift or a swap | `FixedPriorityQueue` |
| `fixed_vector` | size, slots | all modifiers | throws, aliasing arguments, re-entry | `FixedVector`, `SequenceReentry`, `Lifetimes` |
| `flat_set`, `flat_map` | sorted array | all modifiers, searches, comparisons | throw half-way through a shift | `FlatSet` |
| `static_unordered_set`, `_map` | slots, marks, sizes, tombstones | all modifiers, rebuild in place, find, iteration | throwing hasher inside the rebuild, probe chains | `StaticUnorderedSet` |
| `ring_buffer`, `fixed_deque`, `fixed_queue` | head, size, slots | all modifiers | throws, aliasing, re-entry, wrap by comparison | `RingCore`, `SequenceReentry` |
| `optional` | flag, storage | construction, assignment, emplace, swap, monadic, comparisons | throws, self-reference, re-entrant destructor | `Optional` |
| `expected` | discriminant, storage | construction, assignment, emplace, swap, monadic | rollback from a backup that throws too | `Expected` |
| `fixed_function`, `fixed_any_invocable` | operations table, inline target | construction, copy, move, assignment, swap, reset, call | throwing copies, a destructor that looks at its wrapper | `FixedFunction` |
| `fsm` | state, entered flag | dispatch | nested dispatch, throwing action | `Fsm` |
| `event_dispatcher` | slots with ids | subscribe, unsubscribe, clear, dispatch | listeners that change the slots being walked | `EventDispatcher` |
| `arena_allocator`, `monotonic_buffer` | offset, records left in the storage | allocate, allocate_n, emplace, rewind, reset | destructors that allocate or rewind, sizes that wrap | `Arenas` |
| `intrusive_list`, `intrusive_forward_list` | links in the elements, owner, size | push, pop, insert, erase, splice, clear, destructors | a neighbour that is the head, elements destroyed while linked | `IntrusiveLists` |
| `intrusive_ptr`, `intrusive_ref_counter` | the count | copy, move, assignment, reset, detach, destruction | threads that drop references together, chains of owners | `IntrusivePtr` |
| `atomic_handle` | one packed word | load, exchange, compare-exchanges | a slot that comes back while a thread sleeps | `AtomicHandle` |
| `atomic_ref` | an object's bytes | load, store, exchange, compare-exchanges, fetch operations | padding bits that differ | `AtomicRef` |
| `wait` | the event register | wait_for_event, send_event | a signal between the check and the wait | `MCSchedulers` |
| `coro::stepper`, `coro::protothread` | flags; the line to resume at | poll, reset; run and the `METL_PT_` macros | steps that reset their own task | `Coro` |
| `fixed_string`, `hash` | chars, size | all modifiers, comparisons, fnv1a | arguments that point into the string | `FixedString` |
| `parse`, `format` | buffers | readers and writers, decimal and hexadecimal | the ends of the range, refused calls | `Text` |
| `bit`, `bitset`, `bitfield`, `endian`, `register_access`, `crc8`/`16`/`32` | words | all functions | the last word, shifts by a whole width | `Words` |

The remaining headers are listed in `PROJECT.json` with the reason they are not
modelled, and in section 8.

`DeadlineScheduler` uses `fixed_priority_queue` through the promise that
`FixedPriorityQueue` is shown to keep: a bag whose top is the entry with the least
deadline, first scheduled first (`BagInit`, `BagStep`). `OnceFlag`, `TickExtender` and `Guarded` all extend
`Interrupts`, the model of one core and of `irq_lock`. `FlatSet` and
`StaticUnorderedSet` also model the maps, whose headers repeat the same algorithms
with entries: `KeyOf` is the part of an entry that is its key, and `MapNext` has the
maps' further operations. In a map an entry is moved member by member, the key first,
and the value's move may throw after the key has gone (`Paired` in `FlatSet`, `LoseKey`
in `StaticUnorderedSet`). `Optional`, `Expected`, `FixedFunction`, `FixedVector`,
`FlatSet` and `RingCore` share `Lifetimes`. `AtomicHandle` puts the cell under the
structure its header names, the head of a free list of versioned handles.

## 2. How the code is modelled

**Lock-free code** (`SpscQueue`, `MpmcQueue`, `SpscByteRing`): one action per access
to shared memory. Indices are taken modulo `Wrap`, a multiple of `Capacity`, as
`std::size_t` is modulo 2^w. A load of the other side's index, where `stale` is TRUE
(`SpscQueue`) or always (`SpscByteRing`), returns any value from the last one that
thread saw to the newest: this is what coherence and acquire/release promise, and
nothing more. Slot contents are
transferred by the release store, so they need no staleness of their own: the
invariants show that a side reads only what was published to it. `MpmcQueue` is
sequentially consistent; the compare-exchange may fail spuriously.

**Interrupts** (`Interrupts`): a stack of running contexts on one core; a handler
starts between any two steps of a context of lower priority unless PRIMASK is set.
`irq_lock::lock` is two instructions, and a handler can run between them.

**Threads that share objects** (`IntrusivePtr`, `AtomicHandle`, `AtomicRef`): one
action per atomic access, sequentially consistent. A call of `intrusive_ptr` is the list
of accesses it still has to make; dropping the last reference puts the object's
destructor in front of the rest. A strong compare-exchange of `atomic_ref` is one step
per attempt. In `AtomicHandle` a thread does not sleep while one slot is recycled so
often that its generation repeats, which is the limit the header states.

**Re-entry** (`HandlePool`, `ObjectPool`, `Scheduler`, `DeadlineScheduler`,
`SequenceReentry`, `Arenas`, `Fsm`, `EventDispatcher`, `Coro`): the calls in progress
are an explicit stack. While user code runs on top of it, every public operation is
enabled; `MaxDepth` bounds the stack.

**Links** (`IntrusiveLists`): `links` holds the pointers, and is changed by the stores
of the link helpers in their order; `order` says beside it what each list must hold.
A position may be any link; one of the wrong list stops the program, as `METL_HARDEN`
does.

**Lifetimes** (`Lifetimes` and the containers on it): an operation is a *program*, a
sequence of copies, moves, assignments, destructions and stores to the container's own
fields. `Run` executes it on the cells; a step that throws ends it and the operation's
handler, if the code has one, runs. TLC explores a throw at every step that may throw.
A cell is raw, moved-from or holds a value; `ok` is false as soon as a step builds on a
live object or reads, assigns or destroys raw storage. `kept` records whether the call
just made had the effect its documentation promises: the `CallsAsPromised` properties.

**The hash tables** take one step per slot in the loops where user code may throw.

**Text and bits** (`Text`, `FixedString`, `Words`): the functions are operators with the
code's loops and checks, compared in every reachable state with a definition of what
they should give: the number a line denotes, the characters a string was given, the set
a bitset stands for, the remainder of a polynomial division. The steps produce the
inputs: lines that arrive a character at a time or are formatted, strings that are
changed with parts of themselves, bitsets that are set, cleared and shifted.

Elements, keys, tasks and events are members of small sets; logging, most iterators,
observers without effects and compile-time selection are left out. A refused `try_`
call changes nothing and is a stuttering step. The asserting variants (`push` against
`try_push`) differ from the `try_` ones only where those refuse, and then abort; a
precondition is a guard.

## 3. What the runs check

`SpscQueue`, `SpscByteRing` and `MpmcQueue` are checked as they stand. An `MC` module
composes the components of one kind. A variable `subject` says which of
them a behaviour is about; the others do not move, so the state space is the sum of
the components' and one run asks one question of all of them. Every property named
below is stated with its reason in the component's module, and collected under the
name of the run's property in the `MC` module.

| Run | Instance | Distinct states | Shows |
|---|---|---|---|
| `spsc_queue` (`SpscQueue`) | capacity 4, indices mod 8, 2 values, fresh and stale loads | 168,728 | cached indices conservative (`CachedIndicesConservative`), elements exactly where the indices say and the sides never in one slot (`ElementsIntact`), an atomic bounded FIFO (`ImplementsFifo`), every element taken (`EveryElementTaken`) |
| `spsc_byte_ring` (`SpscByteRing`) | capacity 4, indices mod 8, stale loads | 19,984 | the stream arrives byte for byte, spans are disjoint, the guards never trip (`BytesIntact`) |
| `mpmc` (`MpmcQueue`) | 2 + 1 and 1 + 2 threads, capacity 2, tickets mod 8, 2 values | 165,162 | FIFO in claim order with justified refusals (`ImplementsTicketFifo`), a published head is taken although consumers compete and producers stop (`PublishedHeadTaken`) |
| `mpmc_threads` (`MpmcQueue`) | 2 + 2 threads, capacity 4, tickets mod 8, stalls of up to 7 tickets, symmetry | 799,761 | a claimed cell has one owner (`CellHasOneOwner`); live elements are where the tickets say, and the debug assertion on a fresh cell never fires (`CellsExact`) |
| `contexts` (`MCContexts`) | main program + 2 handlers, lock nesting 3, a 4-tick counter over three periods; 2 threads sharing 2 objects; 3 threads on a free list of 2 slots with 2 generations; 2 threads on a padded word; symmetry | 322,792 | no lost update and PRIMASK exact (`UpdatesAtomic`), one initialization and both answers true (`OnceFlagExact`), every tick exact (`TickExact`), counts equal references and one destruction (`ReferencesExact`), no slot lost or given twice (`FreeListSound`), exchanges by value bits (`ExchangeExact`) |
| `reentry` (`MCReentry`) | handle pool of 3 slots, 4 generations, depth 3; object pool of 4, depth 5; vector and deque of 4, depth 6; arena of 7 bytes, counts mod 16, depth 6; machine of 3 states, depth 4; 3 listeners, ids to 6, depth 2; a body of 8 lines; 2 lists, 4 elements | 544,825 | a handle names its object (`HandleNamesItsObject`), free lists and live bits exact, oldest slot first (`PoolsExact`), each slot used once (`SlotsOnce`), each arena object destroyed once, newest first (`ArenaExact`), hooks and steps of `fsm` (`MachineSound`), each event reaches its listeners, ids never reused (`EventReachesItsListeners`), flags and lines of tasks (`TasksExact`), lists hold what they were given (`ListsExact`) |
| `schedulers_safe` (`MCSchedulers`) | 3 tasks, capacity 2 / 4, depth 2 / 3, symmetry | 1,027,956 | snapshots exact (`SnapshotExact`), a number is free (`NumberAvailable`), every poll can re-arm (`RearmFits`) |
| `schedulers_live` (`MCSchedulers`) | 3 tasks, capacity 2 / 3, depth 1 | 133,925 | every attached task is polled (`EveryTaskPolled`); due tasks are polled and `run_due` ends (`DueServed`); no signal is lost before `wait_for_event` (`WakeupNotLost`) |
| `containers` (`MCContainers`) | 2 vectors of 3, 2 flat sets of 4 (3 for elements that cannot be assigned), 2 flat maps of 3 with 3 keys and 2 values, 2 rings of 3, 3 optionals, 2 expecteds, 3 `expected<void, E>`, 2 function wrappers, a heap of 7, 2 heaps of 3; 8-bit numbers in accumulators of 8 and 12 bits, lines of 4 out of 11 characters; 2 strings of 3; a bitset of 3 words, the last of 2 bits; symmetry | 41,310 | exact lifetimes (`LifetimesExact`), documented effects and one order of optionals (`CallsAsPromised`), order, lookups and comparisons (`FlatSorted`), what a destructor sees (`HiddenWhileDestroyed`), the heap as a priority bag, each call with its own effect on it (`ImplementsPriorityQueue`); parsing, formatting and their round trip (`TextExact`), strings given parts of themselves, comparisons and hashes (`StringsExact`), bitset, bit functions, byte order, fields and checksums (`WordsExact`) |
| `unordered` (`MCContainers`, `TableSpec`) | one set of 8 buckets under 81 hash functions, one map of 8 whose moves cannot throw under 8, 2 sets of 2 buckets, 2 maps of 4 | 72,497 | objects exactly in the occupied slots, every key findable, entries read and iterated, an empty slot left (`TablesExact`), documented effects (`TableCalls`), calls end (`CallsEnd`) |

Two further runs, `mpmc_aba` and `expected_copy_throws`, *expect a violation*; section 7
explains them.

**Why the bounds are enough.** Each is the least at which the hard case occurs, and
most are one above it. Index ranges are at least twice the capacity, so a full ring
straddles the wrap, and every run passes the wrap several times. Three slots let a
free list have a head, a middle and a tail; four generations wrap after two reuses.
Two tasks besides the one polled let one be detached and another take its place; the
scheduler's 5 attachment numbers are exhausted. Seven heap slots make three full
levels, and every size below leaves a node with one child. Eight buckets with four
keys hashed to the last two and the first make probe chains that cross the end of the
table and cascades of several displacements in a rebuild, of a set and of a map; the
pairs are small, because swapping, copying and moving look at one slot at a time. Three cells shift more than
one element; two containers are enough for every binary operation. Three contexts let
a handler interrupt a handler inside its lock. Two threads race for the last
reference to an object that owns another; three on a free list let two recycle a slot
to its first generation while one sleeps. Seven bytes hold three arena records with
their payloads, and a request of 15 wraps the size modulo 16. Four elements in two lists give a
splice neighbours on both sides. Eight-bit numbers have every limit of a width, and
four characters are one more than the longest of them without its sign; the checksums
run at their real widths. Where the depth of calls is bounded,
deeper stacks repeat the same frames; the proofs have no such bound.

Deadlock is checked except in `spsc_queue`, `mpmc`, `mpmc_threads` and `mpmc_aba`, where the
threads may all be idle on a destroyed queue.

**Symmetry** is used over tasks, values, threads or containers where no property and
no definition tells them apart, and in no liveness run.

## 4. Fairness

* `SpscQueue`: weak fairness of the consumer's step: the consumer keeps calling
  `try_pop`. With stale loads also strong fairness of a load that returns the newest
  index: stores become visible in finite time, as C++ asks of implementations. Nothing
  is assumed of the producer.
* `MpmcQueue`: weak fairness of each consumer's steps, and strong fairness of its
  claim: a weak compare-exchange does not fail spuriously for ever. The producer may
  stop anywhere.
* `Scheduler`: rounds keep being run and every poll returns, as cooperative tasks must.
* `DeadlineScheduler`: `run_due` is called, its polls return, and time passes.
* `wait` (in `MCSchedulers`): the waiting core runs while it is awake and wakes when its event
  register is set, and a sender that made something ready goes on to signal. Spurious
  wake-ups happen but are not relied on.
* `StaticUnorderedSet`: a call in progress takes its next step.

No fairness is assumed of anything the user's code *does* inside those calls.

## 5. What is proved

Every theorem holds for every value of the constants: capacities, widths, numbers of
threads and handlers, nesting depths. The proofs are in the modules that end in
`Proofs`, one for each family of components, and in `IndexDistance`. The table gives
the hypotheses; those that name an assumption are the `ASSUME` of the component's
module, which TLC evaluates in its run. The others stand in the theorem, because the
proof module takes the component by `INSTANCE`.

| Module | Theorems | Hypotheses, and why the code justifies them |
|---|---|---|
| `IndexDistance` | `SlotsDistinctInWindow` | `CapacityAssumption`: `Wrap` is 2^w and the capacity a power of two (a `static_assert`), so one divides the other |
| `SpscQueueProofs` | `TypeCorrect`, `CachedIndicesSafe`, `NoRace`, `ElementsSafe`, `QueueIsFifo`, `SizeApproxWithinWindow` | `CapacityAssumption`, `SpscAssumption`; for the last, that between the older and the newer of the two values it loads at most half the index range of elements is popped, and at most that many are queued at one time or another |
| `ByteRingProofs` | `BytesSafe` | `CapacityAssumption` |
| `MpmcQueueProofs` | `OneOwner`, `CellsSafe` | `MpmcAssumption` and `MaxStall < Wrap`: no thread is suspended while the tickets come round; `mpmc_aba` shows it is needed |
| | `QueueRefines` | `StallShort`: no thread is suspended for half the range, less the capacity; the code compares tickets as signed differences |
| `ContextProofs` | `OnceSafe`, `GuardedSafe`, `TicksSafe` | `IsrsAssumption`; the bounds are naturals, the period is positive; that reads are less than a period apart is a guard of the model and a precondition of the class |
| | `ExchangesSafe` | none |
| `AtomicHandleProofs` | `FreeListSafe` | `CellConstants`: no thread sleeps while one slot goes through all its generations, the limit the header states |
| `SchedulerProofs` | `TypeCorrect`, `SnapshotsExact`, `NumbersSuffice`, `RearmSafe` | `SchedulerAssumption`; for the last, that the bounds on time and dispatches are naturals |
| `ReentryProofs` | `HandlesSafe`, `ClaimsSafe` | `PoolAssumption`: a handle is dropped before its generation can repeat, as the class comment asks |
| | `TasksSafe`, `MachineSafe`, `EventsSafe` | the body is a sequence of lines; the rules lead to states of the machine (both hold by type in the code); the capacity is a natural |

**The arguments.** Few of the properties are inductive; each proof rests on an invariant
that says more.

* *Indices.* Modular subtraction undoes modular addition, an index between two others is
  a bounded distance from each, and indices less than `Capacity` apart name different
  slots across the wrap. All three ring proofs rest on these lemmas.
* *`spsc_queue`.* `CachedIndicesConservative` is inductive given `TypeOK`: a cached index
  lies between the other side's index when it was loaded and the newest, and a side that
  passed its check keeps the room it saw, because the other side only makes more.
  `SlotsInv` adds which slots hold elements. The refinement maps the slots between the
  indices to the abstract queue: the store of an index is the push or the pop, every
  other access a stutter. `size_approx` is not an action, since it changes nothing:
  `SizeApproxWithinWindow` is about any stretch of the history that the values of its two
  relaxed loads come from, in whichever order they were performed. The answer is at least
  what was queued throughout the stretch and at most what was queued at some time in it; a
  tail that reads behind the head answers 0.
* *`spsc_byte_ring`.* `ViewsInv` bounds what each side has seen and handed out, and
  `StreamInv` says that the bytes between the indices, and those a writer has already
  copied, are the next ones of the stream.
* *`mpmc_queue`.* `RingInv` follows the last `Capacity` tickets, one for each cell: those
  from `dequeue_pos_` on are filled, the others vacated. `OwnersInv` says where the
  tickets of the threads that own cells are, `TurnsInv` which two sequence numbers a cell
  may have and who owns it at one of them, and `ClaimsInv` what a thread that has seen its
  turn may still rely on: if the counter is where it loaded it,
  the cell is in that state, since the counter has not come round. `StorageInv` adds the
  elements. For `QueueRefines`, `StallInv` bounds the age of a ticket, so that a
  comparison of an old ticket has the right sign and a refusal is justified.
* *Interrupts.* `CoreOK` describes the stack of contexts and the saved masks.
  `GuardedInv` and `TickInv` add that whoever is between its load and its store runs with
  interrupts masked, on top of the stack; `OnceInv` that at most one initializer is under
  way, and in which context.
* *`atomic_ref`.* `ExchangeInv`: a retry after a failure that only padding explains holds
  the object as it is, unless another thread has stored since.
* *`atomic_handle`.* `CellInv` names the list: a sequence of slots without repetition, each
  free and linked to the next. A thread about to swap the head knows by how much the
  generation of the slot it observed has advanced; if by nothing and the slot is free, the
  link it read is still the slot's. That `Chain`, a recursive function, walks this very
  sequence is shown by the least counterexample, which needs only that a set of naturals
  has a least element; that the walk ends in `Capacity` steps is the pigeonhole principle.
* *`scheduler`.* `TypeOK /\ SnapshotExact` is inductive: a number handed out occurs in no
  entry and no snapshot, so it cannot revive a copy whose attachment has ended.
  `NumbersSuffice` counts: the entries and one snapshot have 2 * `Capacity` places, and
  there is one number more.
* *`deadline_scheduler`.* `DueInv`: `poll_depth_` is the number of polls on the stack, and
  together with the queue's length it is at most `Capacity`.
* *`handle_pool`.* `PoolInv` has the types and three parts: `Links` (the free list is closed
  and no two links meet, which avoids any notion of reachability), `Calls` (the slots of
  pending constructors are live, those of pending destructors neither live nor linked, and
  all differ) and `Ages` (a handle's generation plus twice its age is its slot's
  generation, modulo the width).
* *`stepper`, `protothread`, `fsm`, `event_dispatcher`.* The invariants speak of the whole
  stack: only the innermost dispatch can be inside an exit hook (`ExitsOnTop`), a state
  that awaits its entry is the target of a running action (`EntryAwaited`), and a running
  dispatch has called exactly the listeners whose turn came (`HeardOK`, `TurnCame`).

**Only model-checked.** Liveness under fairness (`EveryElementTaken`,
`PublishedHeadTaken`, `EveryTaskPolled`, `DueServed`, `WakeupNotLost`, `CallsEnd`) is
outside what the prover handles. `ReferencesExact` equates a count with a sum over all
references, and facts about sums take an operator as a parameter, which the installed
provers cannot instantiate. The heap, the arena's records, text and bits are defined by
recursion, and what a recursion computes for every input needs induction over data. The `Lifetimes` programs are executed by a recursive interpreter, and the modules
that use it cannot hold theorems. The order of `handle_pool`'s free list, `object_pool`,
the intrusive lists and the re-entrant sequences have not been attempted.

## 6. Plan

1. Compose `tick_extender` with `deadline_scheduler`, and an interrupt handler with
   `spsc_queue`, as the examples use them.
2. Weaken the memory orders of `mpmc_queue` and `intrusive_ptr`.
3. Prove the free lists of `HandlePool` and `ObjectPool` exact with the argument of
   `AtomicHandleProofs`, and the links of `IntrusiveLists`.

## 7. Where documentation and code differ

* `mpmc_aba` (`mpmc_queue.hpp:295`): the class comment says there is no ABA window.
  There is one of 2^w tickets: a thread suspended across exactly that many claims
  finds its ticket again. The run shows it with w = 3; with stalls bounded one
  ticket lower (`mpmc_threads`) there is none.
* `expected_copy_throws` (`expected.hpp:509`): when the copy constructor's element copy
  throws, the members' destructor destroys a member that was never built.

Outcomes the models contain, and the properties name as exceptions:

* A `flat_map` insertion moves the last entry into a new slot, and an erasure moves the
  leaving entry into a local, *outside* the `try` (`flat_map.hpp:703`, `800`). The
  entry is a key and a value; when the value's move throws, the key has already been moved
  from, and the map keeps a live entry with a moved-from key. The comment above the first
  (`flat_map.hpp:693-695`) and `src/docs/CHOOSING.md:112` say that a throw during the shift or
  `erase` clears the container. A `flat_set`, whose element is one object, keeps its
  elements there and clears itself after any later throw, and so does a map.
  `CallsAsPromised` allows the map that keeps all its entries but has lost that one key
  (`LeftWithoutKey`), and nothing else beside `KeptOrCleared`. `FlatSorted` claims of such
  a map (it is in `torn`) that its other keys are in order. The map is then only cleared,
  assigned to or destroyed: what a search does with a moved-from key is the key type's
  affair.
* `swap` of `fixed_function` and `fixed_any_invocable` destroys each moved-from target
  while the wrapper's `ops_` is still set (`fixed_function.hpp:301`, `305`, `313`, `318`,
  and `451`, `455`, `463`, `468`), while `reset` says that a target whose destructor calls
  back "must find it empty" (`285-286`). `HiddenWhileDestroyed` excepts in `swap` the
  destruction of a target that has been moved from, and nothing else.
* When a `static_unordered_map`'s entry throws in a move construction or assignment, the
  *source* may be left with a moved-from key, as for `flat_set` below; `TablesExact`
  excepts such a source (`Torn`) until it is cleared or assigned to.

* A move assignment or construction of a `flat_set` whose element throws half-way
  leaves the *source* with moved-from keys in front of the others (`flat_set.hpp:187`).
  `FlatSet` records such a source in `torn`, and `SortedUnique` claims only the order of
  the keys it still has.
* When both the final move of `expected::emplace` and the rollback's move throw, the
  `expected` stays switching, holding neither member (`expected.hpp:396`). Storage and
  discriminant still agree, so `LifetimesExact` holds.

## 8. Not modelled

* Headers without state of their own: `span`, `delegate`, `function_ref`,
  `lookup_table`, `scope_exit`, `fixed_stack` (it forwards to `fixed_vector`), and the
  configuration and trait headers. Their behaviour is the compiler's, or one
  expression.
* The volatile accesses of `mmio` and `register_access`, whose effect is the device's;
  the arithmetic on the value they read and write is in `Words`.
* `atomic_handle::store`, which a shared free list has no use for; the mixing functions
  of `hash` other than `fnv1a`, which promise no more than equal results for equal
  inputs.
* In `Arenas`, a constructor that rewinds the arena below the object it is building.
* Inside the modelled parts: most iterators, element access, the relational operators
  except those of `optional`, the flat containers and `fixed_string`, key
  conversions, AddressSanitizer annotations, constant initialization, and builds in
  which interrupts cannot be masked. The memory orders of `mpmc_queue`,
  `intrusive_ptr`, `atomic_handle` and `atomic_ref` are not weakened.
