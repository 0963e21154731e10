----------------------------- MODULE IntrusivePtr -----------------------------
(***************************************************************************)
(* metl::intrusive_ptr over an atomic metl::intrusive_ref_counter          *)
(* (intrusive_ptr.hpp).  Each thread has pointers of its own, and every    *)
(* object holds one more in its member `next`; threads share objects, not  *)
(* pointers.  A call is the list of accesses still to make, one a step:    *)
(* releasing the last reference puts the object's destructor in front of   *)
(* what is left of the call that released it.                              *)
(***************************************************************************)
EXTENDS Integers, Sequences, FiniteSets, SequencesExt, FiniteSetsExt

CONSTANTS Threads, Objects, Locals, Null,
          MaxWork    \* bound on the accesses a thread has before it

VARIABLES
  ptr_,         \* [slots -> objects or Null]
  refcount_,    \* [objects -> Int]
  lifetime,     \* [objects -> {"none", "live", "dying"}]
  raw,          \* [threads -> an object whose reference was detached, or Null]
  work,         \* [threads -> accesses]
  sound         \* no object was used outside its lifetime or released at zero

vars == <<ptr_, refcount_, lifetime, raw, work, sound>>

NextOf(o) == <<o, "next">>
Own(t) == {t} \X Locals
Slots == (Threads \X Locals) \cup {NextOf(o) : o \in Objects}

\* Thread t holds a list of every object in its first pointer; the others are free.
Init ==
  \E order \in SetToSeqs(Objects), t \in Threads, l \in Locals :
    LET n == Len(order)
        after(o) == LET i == CHOOSE j \in 1 .. n : order[j] = o
                    IN  IF i = n THEN Null ELSE order[i + 1]
    IN  /\ ptr_ = [s \in Slots |-> CASE s \in {NextOf(o) : o \in Objects} -> after(s[1])
                                     [] s = <<t, l>> -> order[1]
                                     [] OTHER -> Null]
        /\ refcount_ = [o \in Objects |-> 1]
        /\ lifetime = [o \in Objects |-> "live"]
        /\ raw = [u \in Threads |-> Null]
        /\ work = [u \in Threads |-> <<>>]
        /\ sound = TRUE

\* The accesses of a call.
AddRef(o) == IF o = Null THEN <<>> ELSE <<[op |-> "add", at |-> o, to |-> o]>>
Release(o) == IF o = Null THEN <<>> ELSE <<[op |-> "release", at |-> o, to |-> o]>>
Store(s, o) == <<[op |-> "store", at |-> s, to |-> o]>>
Destructor(o) == <<[op |-> "body", at |-> o, to |-> o]>>
                 \o Store(NextOf(o), Null) \o <<[op |-> "end", at |-> o, to |-> o]>>

\* The pointers t may read: its own, and the member of an object it holds.
Readable(t) == Own(t) \cup {NextOf(ptr_[s]) : s \in {r \in Own(t) : ptr_[r] # Null}}
\* And write: the member only of an object nobody else holds.
Writable(t) == Own(t) \cup {NextOf(ptr_[s]) : s \in {r \in Own(t) :
                              ptr_[r] # Null /\ refcount_[ptr_[r]] = 1}}

Idle(t) == work[t] = <<>>
Start(t, accesses) == work' = [work EXCEPT ![t] = accesses]

-----------------------------------------------------------------------------
\* Fault: the old reference is dropped before the new one is taken.
CopyAssign_ReleaseFirst(s, q) == Store(s, ptr_[q]) \o AddRef(ptr_[q])

\* The source is read once; its reference is taken before the old one goes.
CopyAssign(s, q) == AddRef(ptr_[q]) \o Store(s, ptr_[q])

copy_assign(t, s, q) ==
  /\ Idle(t) /\ s # q
  /\ Start(t, CopyAssign(s, q))
  /\ UNCHANGED <<ptr_, refcount_, lifetime, raw, sound>>

move_assign(t, s, q) ==
  /\ Idle(t) /\ s # q
  /\ ptr_' = [ptr_ EXCEPT ![q] = Null]
  /\ Start(t, Store(s, ptr_[q]))
  /\ UNCHANGED <<refcount_, lifetime, raw, sound>>

\* reset, the destructor and the assignment of nullptr.
reset(t, s) ==
  /\ Idle(t)
  /\ Start(t, Store(s, Null))
  /\ UNCHANGED <<ptr_, refcount_, lifetime, raw, sound>>

\* A new pointer holds the object before it has counted itself.
copy_construct(t, s, q) ==
  /\ Idle(t) /\ ptr_[s] = Null
  /\ ptr_' = [ptr_ EXCEPT ![s] = ptr_[q]]
  /\ Start(t, AddRef(ptr_[q]))
  /\ UNCHANGED <<refcount_, lifetime, raw, sound>>

move_construct(t, s, q) ==
  /\ Idle(t) /\ ptr_[s] = Null
  /\ ptr_' = [ptr_ EXCEPT ![s] = ptr_[q], ![q] = Null]
  /\ UNCHANGED <<refcount_, lifetime, raw, work, sound>>

\* An object is built in free storage, its count zero, and retained.
retain(t, s, o) ==
  /\ Idle(t) /\ ptr_[s] = Null /\ lifetime[o] = "none"
  /\ lifetime' = [lifetime EXCEPT ![o] = "live"]
  /\ refcount_' = [refcount_ EXCEPT ![o] = 0]
  /\ ptr_' = [ptr_ EXCEPT ![s] = o]
  /\ Start(t, AddRef(o))
  /\ UNCHANGED <<raw, sound>>

detach(t, s) ==
  /\ Idle(t) /\ raw[t] = Null
  /\ raw' = [raw EXCEPT ![t] = ptr_[s]]
  /\ ptr_' = [ptr_ EXCEPT ![s] = Null]
  /\ UNCHANGED <<refcount_, lifetime, work, sound>>

adopt(t, s) ==
  /\ Idle(t) /\ ptr_[s] = Null
  /\ ptr_' = [ptr_ EXCEPT ![s] = raw[t]]
  /\ raw' = [raw EXCEPT ![t] = Null]
  /\ UNCHANGED <<refcount_, lifetime, work, sound>>

swap(t, s, q) ==
  /\ Idle(t)
  /\ ptr_' = [ptr_ EXCEPT ![s] = ptr_[q], ![q] = ptr_[s]]
  /\ UNCHANGED <<refcount_, lifetime, raw, work, sound>>

-----------------------------------------------------------------------------
\* The next access of t's call.
At(t, op) == ~Idle(t) /\ Head(work[t]).op = op
Instead(t, accesses) == work' = [work EXCEPT ![t] = accesses \o Tail(@)]
Used(o) == sound' = (sound /\ lifetime[o] # "none")

add_ref(t) ==
  /\ At(t, "add")
  /\ LET o == Head(work[t]).at
     IN  refcount_' = [refcount_ EXCEPT ![o] = @ + 1] /\ Used(o)
  /\ Instead(t, <<>>)
  /\ UNCHANGED <<ptr_, lifetime, raw>>

\* The pointer has its final value before the old reference goes.
release_and_store(t) ==
  /\ At(t, "store")
  /\ LET s == Head(work[t]).at
     IN  /\ ptr_' = [ptr_ EXCEPT ![s] = Head(work[t]).to]
         /\ Instead(t, Release(ptr_[s]))
  /\ UNCHANGED <<refcount_, lifetime, raw, sound>>

\* fetch_sub; whoever took the count to zero destroys the object.
release(t) ==
  /\ At(t, "release")
  /\ LET o == Head(work[t]).at
     IN  /\ refcount_' = [refcount_ EXCEPT ![o] = @ - 1]
         /\ sound' = (sound /\ lifetime[o] = "live" /\ refcount_[o] # 0)
         /\ IF refcount_[o] = 1
            THEN Instead(t, Destructor(o)) /\ lifetime' = [lifetime EXCEPT ![o] = "dying"]
            ELSE Instead(t, <<>>) /\ UNCHANGED lifetime
  /\ UNCHANGED <<ptr_, raw>>

\* The body of ~Derived: it may reset a pointer of its thread, also the one
\* whose assignment released the object.
destructor_body(t) ==
  /\ At(t, "body")
  /\ \/ Instead(t, <<>>)
     \/ \E s \in Own(t) : Len(work[t]) < MaxWork /\ Instead(t, Store(s, Null))
  /\ UNCHANGED <<ptr_, refcount_, lifetime, raw, sound>>

destructor_end(t) ==
  /\ At(t, "end")
  /\ lifetime' = [lifetime EXCEPT ![Head(work[t]).at] = "none"]
  /\ Instead(t, <<>>)
  /\ UNCHANGED <<ptr_, refcount_, raw, sound>>

Next == \E t \in Threads :
  \/ add_ref(t) \/ release_and_store(t) \/ release(t) \/ destructor_body(t) \/ destructor_end(t)
  \/ \E s \in Writable(t) :
       \/ reset(t, s) \/ detach(t, s) \/ adopt(t, s)
       \/ \E o \in Objects : retain(t, s, o)
       \/ \E q \in Readable(t) : copy_assign(t, s, q) \/ copy_construct(t, s, q)
       \/ \E q \in Writable(t) : move_assign(t, s, q) \/ move_construct(t, s, q) \/ swap(t, s, q)
       \/ \E u \in Threads \ {t} :        \* one thread hands a reference to another
            Idle(u) /\ \E q \in Own(u) : move_construct(t, s, q)

Spec == Init /\ [][Next]_vars

-----------------------------------------------------------------------------
TypeOK ==
  /\ ptr_ \in [Slots -> Objects \cup {Null}]
  /\ refcount_ \in [Objects -> Int]
  /\ lifetime \in [Objects -> {"none", "live", "dying"}]
  /\ raw \in [Threads -> Objects \cup {Null}]
  /\ \A t \in Threads : Len(work[t]) <= MaxWork + 3
  /\ sound \in BOOLEAN

\* The accesses before thread t that have op and are about o.
Pending(t, op, o) == Cardinality({k \in DOMAIN work[t] : work[t][k].op = op /\ work[t][k].to = o})
References(o) ==
  LET held == Cardinality({s \in Slots : ptr_[s] = o}) + Cardinality({t \in Threads : raw[t] = o})
      due(t) == Pending(t, "store", o) + Pending(t, "release", o) - Pending(t, "add", o)
  IN  held + MapThenSumSet(due, Threads)

(***************************************************************************)
(* The count of every object is exactly the references to it: those stored *)
(* or detached, those on their way into a pointer or out of one, less      *)
(* those not yet counted.  No count goes below zero, no access is made     *)
(* outside the object's lifetime, and an object lives as long as there is  *)
(* a reference: of threads that drop the last ones at once, one destroys   *)
(* it, once (intrusive_ptr.hpp:62-64, 136-163, 253-254, 323-325).          *)
(***************************************************************************)
ReferencesExact ==
  /\ sound
  /\ \A o \in Objects :
       /\ lifetime[o] = "live" => refcount_[o] = References(o)
       /\ lifetime[o] = "live" /\ References(o) = 0 => \E t \in Threads : Pending(t, "add", o) > 0
       /\ lifetime[o] # "live" => References(o) = 0

=============================================================================
