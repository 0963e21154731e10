----------------------------- MODULE HandlePool -----------------------------
(***************************************************************************)
(* metl::handle_pool (handle_pool.hpp): Capacity slots addressed by        *)
(* {index, generation} handles.  A slot's generation is odd while it is    *)
(* live and even while it is free; a free slot's bytes hold the link of    *)
(* a FIFO free list.  T's constructor and destructor are user code that    *)
(* runs in the middle of try_emplace, destroy and clear and may call back  *)
(* into the pool, so the pending calls form a stack.                       *)
(*                                                                         *)
(* held is the set of handles the program still keeps.  A handle's age     *)
(* counts how often its slot has been claimed since: 0 names the object it *)
(* was issued for.  The program drops a handle before MaxAge further       *)
(* claims of its slot (the wraparound warning, handle_pool.hpp:69-78).     *)
(***************************************************************************)
EXTENDS Integers, Sequences, FiniteSets

CONSTANTS Capacity,
          HalfGens,   \* GenT has 2 * HalfGens values
          MaxAge,
          MaxDepth,   \* bound on nested calls from constructors and destructors
          Bytes       \* what a slot holds when it does not hold a link

ASSUME PoolAssumption ==
  /\ Capacity \in Nat
  /\ HalfGens \in Nat \ {0}
  /\ MaxAge \in Nat /\ MaxAge < HalfGens
  /\ MaxDepth \in Nat
  /\ Bytes \notin 0 .. Capacity

Slots == 0 .. Capacity - 1
Gens == 0 .. 2 * HalfGens - 1

VARIABLES
  storage,                        \* per slot: a link (Capacity ends the list) or Bytes
  generation_,
  free_head_, free_tail_, size_,
  stack,                          \* the pending calls, innermost last
  held

vars == <<storage, generation_, free_head_, free_tail_, size_, stack, held>>

Init ==
  /\ storage = [i \in Slots |-> i + 1]
  /\ generation_ = [i \in Slots |-> 0]
  /\ free_head_ = 0
  /\ free_tail_ = IF Capacity = 0 THEN 0 ELSE Capacity - 1
  /\ size_ = 0
  /\ stack = <<>>
  /\ held = {}

Increment(g) == (g + 1) % (2 * HalfGens)
Odd(g) == g % 2 = 1

\* Fault: the generation is not compared.
live_index_AnyGeneration(h) ==
  IF Odd(h.generation) /\ h.index \in Slots /\ Odd(generation_[h.index])
  THEN h.index ELSE Capacity

\* The slot a handle resolves to, or Capacity.
live_index(h) ==
  IF Odd(h.generation) /\ h.index \in Slots /\ generation_[h.index] = h.generation
  THEN h.index ELSE Capacity

\* The set of handles after n claims of slot i (n is -1 when one is undone).
Aged(i, n) == {[h EXCEPT !.age = IF h.index = i THEN @ + n ELSE @] : h \in held}

Top == stack[Len(stack)]
Pop == SubSeq(stack, 1, Len(stack) - 1)
Frame(kind, index) == [kind |-> kind, index |-> index]

\* User code is running: the program itself, a constructor or a destructor.
UserRuns == stack # <<>> => Top.kind # "clear"
MayNest == UserRuns /\ Len(stack) < MaxDepth

-----------------------------------------------------------------------------
\* try_emplace on a full pool: a null handle, nothing changed.
TryEmplaceFull == UserRuns /\ free_head_ >= Capacity /\ UNCHANGED vars

\* try_emplace up to the call of T's constructor.
TryEmplace ==
  /\ MayNest /\ free_head_ < Capacity
  /\ \A h \in held : h.index = free_head_ => h.age < MaxAge
  /\ free_head_' = storage[free_head_]
  /\ generation_' = [generation_ EXCEPT ![free_head_] = Increment(@)]
  /\ size_' = size_ + 1
  /\ storage' = [storage EXCEPT ![free_head_] = Bytes]
  /\ stack' = Append(stack, Frame("construct", free_head_))
  /\ held' = Aged(free_head_, 1)
  /\ UNCHANGED free_tail_

\* The constructor returns: the handle is issued.
Constructed ==
  /\ stack # <<>> /\ Top.kind = "construct"
  /\ stack' = Pop
  /\ held' = held \cup {[index |-> Top.index, generation |-> generation_[Top.index], age |-> 0]}
  /\ UNCHANGED <<storage, generation_, free_head_, free_tail_, size_>>

\* It throws: ~return_on_unwind undoes the claim, the slot goes to the front.
ConstructorThrows ==
  /\ stack # <<>> /\ Top.kind = "construct"
  /\ LET i == Top.index
     IN  /\ generation_' = [generation_ EXCEPT ![i] = @ - 1]
         /\ size_' = size_ - 1
         /\ free_tail_' = IF free_head_ >= Capacity THEN i ELSE free_tail_
         /\ storage' = [storage EXCEPT ![i] = free_head_]
         /\ free_head_' = i
         /\ held' = Aged(i, -1)
  /\ stack' = Pop

\* release(i) up to the call of T's destructor.
Release(i) ==
  /\ generation_' = [generation_ EXCEPT ![i] = Increment(@)]
  /\ size_' = size_ - 1
  /\ UNCHANGED <<storage, free_head_, free_tail_, held>>

\* destroy of a null or stale handle: false, nothing changed.
DestroyStale(h) == UserRuns /\ live_index(h) >= Capacity /\ UNCHANGED vars

Destroy(h) ==
  /\ MayNest /\ live_index(h) < Capacity
  /\ Release(live_index(h))
  /\ stack' = Append(stack, Frame("destroy", live_index(h)))

\* Fault: free_tail_ stays when the list was empty.
Destroyed_TailKept ==
  /\ stack # <<>> /\ Top.kind = "destroy"
  /\ LET i == Top.index
         ended == [storage EXCEPT ![i] = Capacity]
     IN  IF free_head_ >= Capacity
         THEN storage' = ended /\ free_head_' = i /\ UNCHANGED free_tail_
         ELSE /\ storage' = [ended EXCEPT ![free_tail_] = i]
              /\ free_tail_' = i /\ UNCHANGED free_head_
  /\ stack' = Pop
  /\ UNCHANGED <<generation_, size_, held>>

\* The destructor returns and append_free links the slot at the back.
Destroyed ==
  /\ stack # <<>> /\ Top.kind = "destroy"
  /\ LET i == Top.index
         ended == [storage EXCEPT ![i] = Capacity]
     IN  /\ storage' = IF free_head_ >= Capacity THEN ended
                       ELSE [ended EXCEPT ![free_tail_] = i]
         /\ free_head_' = IF free_head_ >= Capacity THEN i ELSE free_head_
         /\ free_tail_' = i
  /\ stack' = Pop
  /\ UNCHANGED <<generation_, size_, held>>

\* clear, and ~handle_pool.  Not called by a constructor of a pooled object.
Clear ==
  /\ MayNest /\ \A k \in 1 .. Len(stack) : stack[k].kind # "construct"
  /\ stack' = Append(stack, Frame("clear", 0))
  /\ UNCHANGED <<storage, generation_, free_head_, free_tail_, size_, held>>

\* One turn of clear's loop; past the last slot clear returns.
ClearSlot ==
  /\ stack # <<>> /\ Top.kind = "clear"
  /\ LET i == Top.index
         next == Append(Pop, Frame("clear", i + 1))
     IN  \/ /\ i = Capacity
            /\ stack' = Pop
            /\ UNCHANGED <<storage, generation_, free_head_, free_tail_, size_, held>>
         \/ /\ i < Capacity /\ Odd(generation_[i])
            /\ Release(i)
            /\ stack' = Append(next, Frame("destroy", i))
         \/ /\ i < Capacity /\ ~Odd(generation_[i])
            /\ stack' = next
            /\ UNCHANGED <<storage, generation_, free_head_, free_tail_, size_, held>>

\* The program drops a handle.
Forget(h) ==
  /\ UserRuns
  /\ held' = held \ {h}
  /\ UNCHANGED <<storage, generation_, free_head_, free_tail_, size_, stack>>

Next ==
  \/ TryEmplaceFull \/ TryEmplace \/ Constructed \/ ConstructorThrows
  \/ \E h \in held : DestroyStale(h) \/ Destroy(h) \/ Forget(h)
  \/ Destroyed \/ Clear \/ ClearSlot

Spec == Init /\ [][Next]_vars

-----------------------------------------------------------------------------
Frames == [kind : {"construct", "destroy", "clear"}, index : 0 .. Capacity]
Handles == [index : Slots, generation : Gens, age : 0 .. MaxAge]

TypeOK ==
  /\ storage \in [Slots -> 0 .. Capacity \cup {Bytes}]
  /\ generation_ \in [Slots -> Gens]
  /\ free_head_ \in 0 .. Capacity
  /\ Capacity > 0 => free_tail_ \in Slots
  /\ size_ \in 0 .. Capacity
  /\ stack \in Seq(Frames)
  /\ held \subseteq Handles

\* Slots inside a pending constructor or destructor call.
Pending(kind) == {stack[k].index : k \in {j \in 1 .. Len(stack) : stack[j].kind = kind}}

(***************************************************************************)
(* A handle resolves exactly while the object it was issued for lives: get *)
(* and contains never take it for a later object of the slot, and a second *)
(* destroy is refused, also when it comes from the object's own destructor *)
(* (handle_pool.hpp:203-205, 220-222, 307-312).                            *)
(***************************************************************************)
HandleNamesItsObject ==
  \A h \in held :
    live_index(h) = h.index <=> h.age = 0 /\ Odd(generation_[h.index])

(***************************************************************************)
(* The state is well typed; the free list visits every free slot once,     *)
(* ends at free_tail_, and never contains a slot that is live, or whose    *)
(* constructor or destructor is still running (handle_pool.hpp:311-313,    *)
(* 325-328).                                                               *)
(***************************************************************************)
FreeList ==
  LET walk[k \in 0 .. Capacity] ==
        IF k = 0 THEN free_head_
        ELSE IF walk[k - 1] \in Slots THEN storage[walk[k - 1]] ELSE walk[k - 1]
      length == CHOOSE n \in 0 .. Capacity :
                  \/ walk[n] \notin Slots /\ \A k \in 0 .. n - 1 : walk[k] \in Slots
                  \/ n = Capacity /\ \A k \in 0 .. n - 1 : walk[k] \in Slots
  IN  [k \in 1 .. length |-> walk[k - 1]]

FreeListExact ==
  LET free == {i \in Slots : ~Odd(generation_[i])} \ Pending("destroy")
  IN  /\ TypeOK
      /\ {FreeList[k] : k \in 1 .. Len(FreeList)} = free
      /\ Len(FreeList) = Cardinality(free)
      /\ IF free = {} THEN free_head_ = Capacity
         ELSE FreeList[Len(FreeList)] = free_tail_ /\ storage[free_tail_] = Capacity
      /\ size_ = Cardinality({i \in Slots : Odd(generation_[i])})

(***************************************************************************)
(* Freed slots are reused oldest first, except that a claim that a         *)
(* throwing constructor undid is as if never made (handle_pool.hpp:76-78,  *)
(* 325-328, 358).                                                          *)
(***************************************************************************)
FreeListStep ==
  \/ FreeList' = FreeList
  \/ FreeList # <<>> /\ FreeList' = Tail(FreeList)
  \/ FreeList' = Append(FreeList, Top.index)
  \/ Top.kind = "construct" /\ FreeList' = <<Top.index>> \o FreeList

ReusedOldestFirst == [][FreeListStep]_vars

=============================================================================
