----------------------------- MODULE ObjectPool -----------------------------
(***************************************************************************)
(* metl::object_pool (object_pool.hpp): Capacity slots addressed by raw    *)
(* pointer.  Freed slots form a LIFO list threaded through their bytes     *)
(* (a link is a slot index plus one, 0 ends the list); slots at and above  *)
(* unused_ were never used.  T's constructor and destructor run inside the *)
(* calls and may call back into the pool.                                  *)
(*                                                                         *)
(* A pointer is an address.  The program asks about any; the pool cannot   *)
(* tell an old pointer from a new one to the same slot, so the program     *)
(* destroys only objects whose construction has finished.                  *)
(***************************************************************************)
EXTENDS Integers, Sequences, FiniteSets

CONSTANTS Capacity, MaxDepth,
          Bytes,       \* what a slot holds when it does not hold a link
          Base, SlotSize, AddressWrap    \* where the slots lie among the addresses

Slots == 0 .. Capacity - 1
Addresses == 0 .. AddressWrap - 1

VARIABLES
  storage,      \* per slot: a link or Bytes
  live_, free_head_, unused_, size_,
  stack,        \* the pending calls, innermost last
  object,       \* per slot: a constructed object whose destructor has not started
  fresh         \* slots claimed since the outermost pending clear began

vars == <<storage, live_, free_head_, unused_, size_, stack, object, fresh>>

Init ==
  /\ storage = [i \in Slots |-> 0]
  /\ live_ = {} /\ free_head_ = 0 /\ unused_ = 0 /\ size_ = 0
  /\ stack = <<>>
  /\ object = {} /\ fresh = {}

Top == stack[Len(stack)]
Pop == SubSeq(stack, 1, Len(stack) - 1)
Frame(kind, index) == [kind |-> kind, index |-> index]
Kinds == {stack[k].kind : k \in 1 .. Len(stack)}
Pending(kind) == {stack[k].index : k \in {j \in 1 .. Len(stack) : stack[j].kind = kind}}

UserRuns == stack # <<>> => Top.kind # "clear"
MayNest == UserRuns /\ Len(stack) < MaxDepth

-----------------------------------------------------------------------------
TryEmplaceFull == UserRuns /\ free_head_ = 0 /\ unused_ >= Capacity /\ UNCHANGED vars

\* try_emplace up to the call of T's constructor.
TryEmplace ==
  /\ MayNest
  /\ \E i \in Slots :
       /\ \/ /\ free_head_ # 0 /\ i = free_head_ - 1
             /\ free_head_' = storage[i] /\ UNCHANGED unused_
          \/ /\ free_head_ = 0 /\ i = unused_
             /\ unused_' = unused_ + 1 /\ UNCHANGED free_head_
       /\ live_' = live_ \cup {i}
       /\ storage' = [storage EXCEPT ![i] = Bytes]
       /\ stack' = Append(stack, Frame("construct", i))
       /\ fresh' = IF "clear" \in Kinds THEN fresh \cup {i} ELSE fresh
  /\ size_' = size_ + 1
  /\ UNCHANGED object

Constructed ==
  /\ stack # <<>> /\ Top.kind = "construct"
  /\ object' = object \cup {Top.index}
  /\ stack' = Pop
  /\ UNCHANGED <<storage, live_, free_head_, unused_, size_, fresh>>

push_free(i) ==
  /\ storage' = [storage EXCEPT ![i] = free_head_]
  /\ free_head_' = i + 1

\* ~release_on_unwind.
ConstructorThrows ==
  /\ stack # <<>> /\ Top.kind = "construct"
  /\ live_' = live_ \ {Top.index}
  /\ size_' = size_ - 1
  /\ push_free(Top.index)
  /\ stack' = Pop
  /\ UNCHANGED <<unused_, object, fresh>>

\* end_life(i) up to the call of T's destructor.
end_life(i) ==
  /\ live_' = live_ \ {i}
  /\ size_' = size_ - 1
  /\ object' = object \ {i}
  /\ UNCHANGED <<storage, free_head_, unused_>>

\* An address below the storage wraps to an offset past its end.
index_of(address) ==
  LET offset == (address - Base) % AddressWrap
  IN  IF offset >= SlotSize * Capacity \/ offset % SlotSize # 0 THEN Capacity
      ELSE offset \div SlotSize

contains(address) == index_of(address) \in live_

DestroyNotLive(address) == UserRuns /\ ~contains(address) /\ UNCHANGED vars

Destroy(address) ==
  /\ MayNest /\ index_of(address) \in live_ \ Pending("construct")
  /\ end_life(index_of(address))
  /\ stack' = Append(stack, Frame("destroy", index_of(address)))
  /\ UNCHANGED fresh

\* The destructor returns; only now do the bytes take the link.
Destroyed ==
  /\ stack # <<>> /\ Top.kind = "destroy"
  /\ push_free(Top.index)
  /\ stack' = Pop
  /\ UNCHANGED <<live_, unused_, size_, object, fresh>>

\* clear, and ~object_pool.  Not called by a constructor of a pooled object.
Clear ==
  /\ MayNest /\ "construct" \notin Kinds
  /\ stack' = Append(stack, Frame("clear", 0))
  /\ fresh' = IF "clear" \in Kinds THEN fresh ELSE {}
  /\ UNCHANGED <<storage, live_, free_head_, unused_, size_, object>>

ClearSlot ==
  /\ stack # <<>> /\ Top.kind = "clear"
  /\ LET i == Top.index
         next == Append(Pop, Frame("clear", i + 1))
     IN  \/ /\ i = Capacity
            /\ stack' = Pop
            /\ UNCHANGED <<storage, live_, free_head_, unused_, size_, object>>
         \/ /\ i < Capacity /\ i \in live_
            /\ end_life(i)
            /\ stack' = Append(next, Frame("destroy", i))
         \/ /\ i < Capacity /\ i \notin live_
            /\ stack' = next
            /\ UNCHANGED <<storage, live_, free_head_, unused_, size_, object>>
  /\ UNCHANGED fresh

Next ==
  \/ TryEmplaceFull \/ TryEmplace \/ Constructed \/ ConstructorThrows
  \/ \E address \in Addresses : DestroyNotLive(address) \/ Destroy(address)
  \/ Destroyed \/ Clear \/ ClearSlot

Spec == Init /\ [][Next]_vars

-----------------------------------------------------------------------------
TypeOK ==
  /\ storage \in [Slots -> 0 .. Capacity \cup {Bytes}]
  /\ live_ \subseteq Slots /\ object \subseteq Slots /\ fresh \subseteq Slots
  /\ free_head_ \in 0 .. Capacity /\ unused_ \in 0 .. Capacity /\ size_ \in 0 .. Capacity
  /\ stack \in Seq([kind : {"construct", "destroy", "clear"}, index : 0 .. Capacity])

FreeList ==
  LET walk[k \in 0 .. Capacity] ==
        IF k = 0 THEN free_head_
        ELSE IF walk[k - 1] \in 1 .. Capacity THEN storage[walk[k - 1] - 1] ELSE walk[k - 1]
      nodes == {k \in 0 .. Capacity : \A j \in 0 .. k : walk[j] \in 1 .. Capacity}
  IN  [k \in 1 .. Cardinality(nodes) |-> walk[k - 1] - 1]

(***************************************************************************)
(* The free list holds, once each and ending in 0, exactly the slots below *)
(* unused_ that are neither live nor inside a pending destructor: the next *)
(* try_emplace cannot build over an object, finds every free slot, and     *)
(* size_ is what full and available report (object_pool.hpp:231-234).      *)
(***************************************************************************)
FreeListExact ==
  LET free == (0 .. unused_ - 1) \ (live_ \cup Pending("destroy"))
  IN  /\ {FreeList[k] : k \in 1 .. Len(FreeList)} = free
      /\ Len(FreeList) = Cardinality(free)
      /\ free # {} => storage[FreeList[Len(FreeList)]] = 0
      /\ live_ \subseteq 0 .. unused_ - 1
      /\ size_ = Cardinality(live_)

(***************************************************************************)
(* A slot is live exactly when it holds an object, or one is being         *)
(* constructed there; an object being destroyed is not live and its bytes  *)
(* are still its own; and a pointer is recognised exactly when it is to    *)
(* the beginning of a live slot (object_pool.hpp:184-207, 231-235).        *)
(***************************************************************************)
LiveObjects ==
  /\ live_ = object \cup Pending("construct")
  /\ \A address \in Addresses :
       contains(address) <=> \E i \in live_ : address = Base + i * SlotSize
  /\ \A i \in object \cup Pending("construct") \cup Pending("destroy") : storage[i] = Bytes
  /\ \A j, k \in 1 .. Len(stack) :
       (j # k /\ stack[j].kind # "clear" /\ stack[k].kind # "clear")
          => stack[j].index # stack[k].index

(***************************************************************************)
(* Behind its cursor clear leaves only objects that a destructor emplaced  *)
(* during the pass, whatever nested calls do (object_pool.hpp:121-125).    *)
(***************************************************************************)
ClearLeavesOnlyFresh ==
  \A k \in 1 .. Len(stack) :
    (stack[k].kind = "clear" /\ \A j \in 1 .. k - 1 : stack[j].kind # "clear")
       => \A i \in 0 .. stack[k].index - 1 : i \in live_ => i \in fresh

=============================================================================
