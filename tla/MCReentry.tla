------------------------------ MODULE MCReentry ------------------------------
(***************************************************************************)
(* What runs user code that may call back into it, and what the program    *)
(* links by hand, for TLC.  A behaviour is about one subject: a handle     *)
(* pool, an object pool, a vector or a deque whose elements re-enter it,   *)
(* an arena, a state machine, an event dispatcher, a cooperative task or   *)
(* two intrusive lists.  The others stay as built.                         *)
(***************************************************************************)
EXTENDS HandlePool

CONSTANTS NoState, Null, x, y, n1, n2, n3, n4

VARIABLES
  subject,
  calls, halted,          \* the subject's stack, and its stop
  \* of ObjectPool
  pool_storage, live_, pool_head_, unused_, pool_size_, object, fresh,
  \* of SequenceReentry
  sequence, head_, count_, cells,
  \* of Arenas
  arena, offset_, records, objects, ok,
  \* of Fsm
  current_state_, entered_, exiting_, hooked, paired, thrown,
  \* of EventDispatcher
  slots_, next_id_, issued,
  \* of Coro
  task, done_, error_, outcomes, pt_line_, line, passed, ended, returned,
  \* of IntrusiveLists
  doubly, links, alive, order, agreed

pool == <<pool_storage, live_, pool_head_, unused_, pool_size_, object, fresh>>
elements == <<sequence, head_, count_, cells>>
arenas == <<arena, offset_, records, objects, ok>>
machine == <<current_state_, entered_, exiting_, hooked, paired, thrown>>
listeners == <<slots_, next_id_, issued>>
tasks == <<task, done_, error_, outcomes, pt_line_, line, passed, ended, returned>>
lists == <<doubly, links, alive, order, agreed>>
all == <<subject, vars, calls, halted, pool, elements, arenas, machine, listeners, tasks, lists>>

Rule(from, event, to) == [from |-> from, event |-> event, to |-> to]

\* A cycle, a self-transition, a second way, and a rule hidden by an earlier one.
Rules ==
  <<Rule("a", "go", "b"), Rule("b", "go", "c"), Rule("c", "go", "a"),
    Rule("b", "stay", "b"), Rule("a", "back", "c"), Rule("b", "go", "a")>>

Pool == INSTANCE ObjectPool WITH
  Capacity <- 4, MaxDepth <- 5, Base <- 3, SlotSize <- 2, AddressWrap <- 16,
  storage <- pool_storage, free_head_ <- pool_head_, size_ <- pool_size_, stack <- calls
Elements == INSTANCE SequenceReentry WITH
  Capacity <- 4, MaxDepth <- 6, type_ <- sequence, size_ <- count_, stack <- calls
\* Records of one byte; the requests fill the buffer, and one wraps the count.
Arena == INSTANCE Arenas WITH
  Capacity <- 7, RecordSize <- 1, Wrap <- 16, Sizes <- {1, 2, 15}, Alignments <- {1, 2},
  MaxDepth <- 6, type_ <- arena, stack <- calls
Machine == INSTANCE Fsm WITH
  States <- {"a", "b", "c"}, Events <- {"go", "stay", "back"},
  Transitions <- Rules, initial_state <- "a", MaxDepth <- 4, stack <- calls
Dispatcher == INSTANCE EventDispatcher WITH
  Capacity <- 3, MaxId <- 6, MaxDepth <- 2, stack <- calls
Task == INSTANCE Coro WITH
  Body <- <<"work", "yield", "wait", "restart", "work", "exit", "switch", "work">>,
  MaxDepth <- 3, kind <- task, stack <- calls
ListsOf == INSTANCE IntrusiveLists WITH Lists <- {x, y}, Nodes <- {n1, n2, n3, n4}

Subjects == {"handles", "pool", "elements", "arena", "machine", "dispatcher", "task", "lists"}

SystemInit ==
  /\ subject \in Subjects
  /\ Init /\ Pool!Init /\ Elements!Init /\ Arena!Init /\ Machine!Init /\ Dispatcher!Init
  /\ Task!Init /\ ListsOf!Init
  \* Of a component that is not the subject one variety is enough.
  /\ subject = "elements" \/ sequence = "vector"
  /\ subject = "arena" \/ arena = "arena"
  /\ subject = "task" \/ task = "stepper"
  /\ subject = "lists" \/ doubly

SystemNext ==
  /\ UNCHANGED subject
  /\ \/ /\ subject = "handles" /\ Next
        /\ UNCHANGED <<calls, halted, pool, elements, arenas, machine, listeners, tasks, lists>>
     \/ /\ subject = "pool" /\ Pool!Next
        /\ UNCHANGED <<vars, halted, elements, arenas, machine, listeners, tasks, lists>>
     \/ /\ subject = "elements" /\ Elements!Next
        /\ UNCHANGED <<vars, pool, arenas, machine, listeners, tasks, lists>>
     \/ /\ subject = "arena" /\ Arena!Next
        /\ UNCHANGED <<vars, pool, elements, machine, listeners, tasks, lists>>
     \/ /\ subject = "machine" /\ Machine!Next
        /\ UNCHANGED <<vars, halted, pool, elements, arenas, listeners, tasks, lists>>
     \/ /\ subject = "dispatcher" /\ Dispatcher!Next
        /\ UNCHANGED <<vars, halted, pool, elements, arenas, machine, tasks, lists>>
     \/ /\ subject = "task" /\ Task!Next
        /\ UNCHANGED <<vars, pool, elements, arenas, machine, listeners, lists>>
     \/ /\ subject = "lists" /\ ListsOf!Next
        /\ UNCHANGED <<vars, calls, pool, elements, arenas, machine, listeners, tasks>>

SystemSpec == SystemInit /\ [][SystemNext]_all

-----------------------------------------------------------------------------
\* HandleNamesItsObject is HandlePool's.

(***************************************************************************)
(* The free lists of handle_pool and object_pool hold exactly the free     *)
(* slots, once each, and never one whose constructor or destructor still   *)
(* runs, while those call back; handle_pool reuses freed slots oldest      *)
(* first, an undone claim apart; the bytes of an object being destroyed    *)
(* are still its own; and object_pool's clear leaves behind only what      *)
(* destructors emplaced during the pass (handle_pool.hpp:76-78, 311-313,   *)
(* 325-328, 358; object_pool.hpp:121-125, 231-235).                        *)
(***************************************************************************)
PoolsExact ==
  /\ [](subject = "handles" => FreeListExact)
  /\ [][subject = "handles" => FreeListStep]_vars
  /\ [](subject = "pool" => /\ Pool!TypeOK /\ Pool!FreeListExact
                            /\ Pool!LiveObjects /\ Pool!ClearLeavesOnlyFresh)

(***************************************************************************)
(* In a fixed_vector and at both ends of a fixed_deque every running       *)
(* constructor and destructor has a slot of its own, and the other slots   *)
(* are live inside and raw outside (fixed_vector.hpp:319-325, 377-382;     *)
(* detail/ring_core.hpp:315-326, 369-374).                                 *)
(***************************************************************************)
SlotsOnce == subject = "elements" => Elements!TypeOK /\ Elements!EachSlotOnce

(***************************************************************************)
(* However constructors and destructors nest calls of an arena_allocator,  *)
(* each object is destroyed once, newest first, nothing overlaps, and      *)
(* storage is released after the destructor that runs in it returned; a    *)
(* monotonic_buffer hands out disjoint storage, whatever sizes are asked   *)
(* for (arena_allocator.hpp:113-116, 178-184; monotonic_buffer.hpp:79-81,  *)
(* 103-105).                                                               *)
(***************************************************************************)
ArenaExact == subject = "arena" => Arena!TypeOK /\ Arena!ArenaExact

(***************************************************************************)
(* The entry and exit hooks of fsm alternate and fit each other however    *)
(* dispatches nest; with no dispatch running the machine has entered its   *)
(* state, unless an action threw; and it changes state only along a rule   *)
(* that starts at its current state, although the rule was chosen before   *)
(* the exit hook ran (fsm.hpp:103-107, 111-126, 142-157, 182-184).         *)
(***************************************************************************)
MachineSound ==
  /\ [](subject = "machine" =>
          Machine!TypeOK /\ Machine!HooksPaired /\ Machine!EnteredWhenIdle)
  /\ [][subject = "machine" => Machine!AlongRule]_machine

(***************************************************************************)
(* event_dispatcher calls, at any depth, exactly the listeners there when  *)
(* a dispatch began and not removed since, once each; the id of a removed  *)
(* listener never names another (event_dispatcher.hpp:93-98, 106-125,      *)
(* 152-163).                                                               *)
(***************************************************************************)
EventReachesItsListeners ==
  /\ [](subject = "dispatcher" => Dispatcher!TypeOK /\ Dispatcher!EventReachesItsListeners)
  /\ [][subject = "dispatcher" => Dispatcher!NewIdsOnly]_listeners

(***************************************************************************)
(* A stepper is finished or failed exactly when a step since the last      *)
(* reset said so; a protothread passes each line of its body once and in   *)
(* order, and is done only at its end (coro/stepper.hpp:76-100;            *)
(* coro/protothread.hpp:94-148).                                           *)
(***************************************************************************)
TasksExact == subject = "task" => Task!TypeOK /\ Task!TasksExact

(***************************************************************************)
(* Every intrusive list, walked forwards and backwards, holds the elements *)
(* its calls put there, in order, and knows how many; every other element  *)
(* is in no list, also after one that was linked is destroyed              *)
(* (intrusive_list.hpp:60-80, 297-317; intrusive_forward_list.hpp:60-74).  *)
(***************************************************************************)
ListsExact == subject = "lists" => ListsOf!TypeOK /\ ListsOf!ListsExact

=============================================================================
