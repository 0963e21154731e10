--------------------------- MODULE ReentryProofs ----------------------------
(***************************************************************************)
(* Proofs about the components that run user code which may call back into *)
(* them: HandlePool, Coro, Fsm and EventDispatcher, for every capacity,    *)
(* body, rule table and depth of nested calls.  Each inductive invariant   *)
(* says what every call in progress, not only the innermost, may rely on.  *)
(*                                                                         *)
(* PoolInv has four parts.  Types is the types.  Links says that the free  *)
(* list is closed and that no two links meet, so that taking its head      *)
(* leaves no link to the slot taken; it needs no notion of reachability.   *)
(* Calls says what is known of the slots of pending constructors and       *)
(* destructors.  Ages ties a kept handle's generation to its slot's.       *)
(***************************************************************************)
EXTENDS HandlePool, TLAPS

Types ==
  /\ storage \in [Slots -> 0 .. Capacity \cup {Bytes}]
  /\ generation_ \in [Slots -> Gens]
  /\ free_head_ \in 0 .. Capacity
  /\ Capacity > 0 => free_tail_ \in Slots
  /\ stack \in Seq(Frames)
  /\ held \subseteq Handles

Linked(i) == storage[i] # Bytes

Links ==
  /\ free_head_ # Capacity => /\ Linked(free_head_)
                              /\ Linked(free_tail_) /\ storage[free_tail_] = Capacity
  /\ \A i \in Slots : Linked(i) => ~Odd(generation_[i])
  /\ \A i \in Slots :
       (Linked(i) /\ storage[i] # Capacity) => Linked(storage[i]) /\ storage[i] # free_head_
  /\ \A i, j \in Slots :
       (Linked(i) /\ i # j /\ storage[i] # Capacity) => storage[i] # storage[j]

Calls ==
  /\ \A k \in 1 .. Len(stack) :
       /\ stack[k].kind # "clear" => stack[k].index \in Slots /\ ~Linked(stack[k].index)
       /\ stack[k].kind = "construct" =>
            /\ Odd(generation_[stack[k].index])
            /\ \A h \in held : h.index = stack[k].index => h.age # 0
       /\ stack[k].kind = "destroy" => ~Odd(generation_[stack[k].index])
       /\ stack[k].kind = "clear" => \A j \in 1 .. k - 1 : stack[j].kind # "construct"
  /\ \A j, k \in 1 .. Len(stack) :
       (j # k /\ stack[j].kind # "clear" /\ stack[k].kind # "clear")
          => stack[j].index # stack[k].index

\* What the slot's generation would be had the handle's slot only been
\* claimed and released since, before reduction to the width of GenT.
Reached(h) == h.generation + 2 * h.age + (IF Odd(generation_[h.index]) THEN 0 ELSE 1)

Ages ==
  \A h \in held :
    /\ Odd(h.generation)
    /\ Reached(h) \in {generation_[h.index], generation_[h.index] + 2 * HalfGens}

PoolInv == Types /\ Links /\ Calls /\ Ages

-----------------------------------------------------------------------------
\* The constants as the provers need them.
LEMMA PoolConstants ==
  /\ Capacity \in Nat
  /\ HalfGens \in Nat /\ HalfGens > 0
  /\ MaxAge \in Nat /\ MaxAge < HalfGens
  /\ \A i \in Slots : i \in Nat /\ i < Capacity /\ i # Bytes
  /\ Capacity # Bytes
BY PoolAssumption DEF Slots

\* A generation counter wraps only from its largest, odd value.
LEMMA IncrementCases ==
  ASSUME NEW g \in Gens
  PROVE  /\ Increment(g) \in Gens
         /\ Increment(g) = IF g = 2 * HalfGens - 1 THEN 0 ELSE g + 1
         /\ Odd(Increment(g)) <=> ~Odd(g)
<1>1. g \in Int /\ 0 <= g /\ g <= 2 * HalfGens - 1 /\ HalfGens \in Int /\ HalfGens > 0
  BY PoolConstants DEF Gens
<1>2. Increment(g) = IF g = 2 * HalfGens - 1 THEN 0 ELSE g + 1
  BY <1>1, SMT DEF Increment
<1>3. Odd(Increment(g)) <=> ~Odd(g)
  BY <1>1, <1>2, SMT DEF Odd
<1> QED
  BY <1>1, <1>2, <1>3 DEF Gens

\* Undoing a claim makes the generation even again.
LEMMA OddPredecessor ==
  ASSUME NEW g \in Nat, Odd(g)
  PROVE  g > 0 /\ ~Odd(g - 1)
BY SMT DEF Odd

\* Sequences: their length, what a call adds to a stack, what a return takes
\* off it.
LEMMA SeqFacts ==
  ASSUME NEW S, NEW s \in Seq(S)
  PROVE  /\ Len(s) \in Nat /\ s \in [1 .. Len(s) -> S] /\ DOMAIN s = 1 .. Len(s)
         /\ s = <<>> <=> Len(s) = 0
OBVIOUS

LEMMA Pushed ==
  ASSUME NEW S, NEW s \in Seq(S), NEW x \in S
  PROVE  /\ Append(s, x) \in Seq(S) /\ Len(s) \in Nat
         /\ Len(Append(s, x)) = Len(s) + 1
         /\ Append(s, x)[Len(s) + 1] = x
         /\ \A k \in 1 .. Len(s) : Append(s, x)[k] = s[k]
OBVIOUS

LEMMA Popped ==
  ASSUME NEW S, NEW s \in Seq(S), s # <<>>
  PROVE  /\ Len(s) \in Nat /\ Len(s) > 0 /\ Len(s) \in 1 .. Len(s) /\ s[Len(s)] \in S
         /\ SubSeq(s, 1, Len(s) - 1) \in Seq(S)
         /\ Len(SubSeq(s, 1, Len(s) - 1)) = Len(s) - 1
         /\ \A k \in 1 .. Len(s) - 1 : SubSeq(s, 1, Len(s) - 1)[k] = s[k]
         /\ \A k : k \in 1 .. Len(s) - 1 <=> k \in 1 .. Len(s) /\ k # Len(s)
<1> DEFINE b == SubSeq(s, 1, Len(s) - 1)
<1>1. Len(s) \in Nat /\ Len(s) > 0 /\ s[Len(s)] \in S
  OBVIOUS
<1>2. b \in Seq(S) /\ \A k \in 1 .. Len(s) - 1 : b[k] = s[k]
  BY <1>1
<1>3. Len(b) = Len(s) - 1
  <2>1. CASE Len(s) = 1
    BY <2>1
  <2>2. CASE Len(s) > 1
    BY <2>2
  <2> QED
    BY <1>1, <2>1, <2>2, SMTT(60)
<1>4. Len(s) \in 1 .. Len(s) /\ \A k : k \in 1 .. Len(s) - 1 <=> k \in 1 .. Len(s) /\ k # Len(s)
  BY <1>1
<1> QED
  BY <1>1, <1>2, <1>3, <1>4, Zenon

LEMMA PushFacts ==
  ASSUME NEW s \in Seq(Frames), NEW f \in Frames
  PROVE  /\ Append(s, f) \in Seq(Frames)
         /\ Len(Append(s, f)) = Len(s) + 1 /\ Len(s) \in Nat
         /\ \A k \in 1 .. Len(s) : Append(s, f)[k] = s[k]
         /\ Append(s, f)[Len(s) + 1] = f
OBVIOUS

LEMMA PopFacts ==
  ASSUME stack \in Seq(Frames), stack # <<>>
  PROVE  /\ Len(stack) \in Nat /\ Len(stack) > 0
         /\ Top = stack[Len(stack)] /\ Top \in Frames
         /\ Pop \in Seq(Frames) /\ Len(Pop) = Len(stack) - 1
         /\ \A k \in 1 .. Len(stack) - 1 : Pop[k] = stack[k]
BY Popped, Zenon DEF Top, Pop

\* How a claim, or its undoing, ages the kept handles.
LEMMA AgedFacts ==
  ASSUME held \subseteq Handles, NEW i \in Slots, NEW n \in Int
  PROVE  \A g \in Aged(i, n) : \E h \in held :
           /\ g.index = h.index /\ g.generation = h.generation
           /\ g.age = IF h.index = i THEN h.age + n ELSE h.age
           /\ g = [index |-> h.index, generation |-> h.generation, age |-> g.age]
BY DEF Aged, Handles

(***************************************************************************)
(* The consequence the theorem is about.                                   *)
(***************************************************************************)
LEMMA AgesGiveNames == PoolInv => HandleNamesItsObject
<1> SUFFICES ASSUME PoolInv, NEW h \in held
             PROVE  live_index(h) = h.index <=> h.age = 0 /\ Odd(generation_[h.index])
  BY Zenon DEF HandleNamesItsObject
<1>1. /\ h.index \in Slots /\ h.index # Capacity
      /\ h.generation \in Nat /\ h.generation < 2 * HalfGens
      /\ h.age \in Nat /\ h.age < HalfGens
      /\ generation_[h.index] \in Nat /\ generation_[h.index] < 2 * HalfGens
  BY PoolConstants, SMTT(60) DEF PoolInv, Types, Handles, Gens
<1>2. live_index(h) = h.index <=> generation_[h.index] = h.generation
  BY <1>1, Zenon DEF live_index, PoolInv, Ages
<1>3. ASSUME h.age = 0, Odd(generation_[h.index])
      PROVE  generation_[h.index] = h.generation
  BY <1>1, <1>3, PoolConstants DEF PoolInv, Ages, Reached
<1>4. ASSUME generation_[h.index] = h.generation
      PROVE  h.age = 0 /\ Odd(generation_[h.index])
  BY <1>1, <1>4, PoolConstants DEF PoolInv, Ages, Reached
<1> QED
  BY <1>2, <1>3, <1>4, Zenon

LEMMA InitPoolInv == Init => PoolInv
<1> SUFFICES ASSUME Init PROVE PoolInv
  BY Zenon
<1>1. Types
  BY PoolConstants DEF Init, Types, Slots, Gens, Frames, Handles
<1>2. Links
  BY PoolConstants DEF Init, Links, Linked, Odd, Slots
<1>3. Calls
  BY DEF Init, Calls
<1>4. Ages
  BY Zenon DEF Init, Ages
<1> QED
  BY <1>1, <1>2, <1>3, <1>4, Zenon DEF PoolInv

-----------------------------------------------------------------------------
\* try_emplace takes the head of the free list: a slot that is free and that no
\* pending call works on, and to which no other link leads.
LEMMA TryEmplaceStep == PoolInv /\ TryEmplace => PoolInv'
<1> SUFFICES ASSUME PoolInv, TryEmplace PROVE PoolInv'
  BY Zenon
<1> USE PoolConstants
<1>0. PICK i \in Slots : i = free_head_
  BY DEF PoolInv, Types, TryEmplace, Slots
<1>1. /\ i \in Slots /\ i = free_head_ /\ Linked(i) /\ ~Odd(generation_[i]) /\ generation_[i] \in Gens
      /\ storage[i] \in 0 .. Capacity
      /\ generation_' = [generation_ EXCEPT ![i] = Increment(@)]
      /\ storage' = [storage EXCEPT ![i] = Bytes]
      /\ stack' = Append(stack, Frame("construct", i))
      /\ held' = Aged(i, 1)
      /\ free_head_' = storage[i] /\ free_tail_' = free_tail_
  BY <1>0, SMTT(60) DEF PoolInv, Types, Links, Linked, TryEmplace, Slots
<1>2. /\ generation_'[i] \in Gens /\ generation_'[i] = generation_[i] + 1 /\ Odd(generation_'[i])
      /\ \A j \in Slots : j # i => generation_'[j] = generation_[j]
  <2>1. generation_[i] # 2 * HalfGens - 1
    BY <1>1 DEF Odd, Gens
  <2> QED
    BY <1>1, <2>1, IncrementCases, Zenon DEF PoolInv, Types
<1>3. \A h \in held : h.index = i => h.age < MaxAge
  BY <1>0, Zenon DEF TryEmplace
<1>4. \A g \in held' : \E h \in held :
           /\ g.index = h.index /\ g.generation = h.generation
           /\ g.age = IF h.index = i THEN h.age + 1 ELSE h.age
           /\ g = [index |-> h.index, generation |-> h.generation, age |-> g.age]
  <2>1. held \subseteq Handles
    BY Zenon DEF PoolInv, Types
  <2> HIDE PoolConstants
  <2> QED
    BY <1>1, <2>1, AgedFacts, SMTT(60)
<1>5. Frame("construct", i) \in Frames
  BY <1>1 DEF Frame, Frames, Slots
<1>6. /\ stack' \in Seq(Frames) /\ Len(stack') = Len(stack) + 1 /\ Len(stack) \in Nat
      /\ \A k \in 1 .. Len(stack) : stack'[k] = stack[k]
      /\ stack'[Len(stack')] = [kind |-> "construct", index |-> i]
  BY <1>1, <1>5, PushFacts DEF PoolInv, Types, Frame
<1>7. Types'
  <2>1. held' \subseteq Handles
    BY <1>3, <1>4, SMTT(60) DEF PoolInv, Types, Handles
  <2>2. generation_' \in [Slots -> Gens]
    BY <1>1, <1>2, Zenon DEF PoolInv, Types
  <2> QED
    BY <1>1, <1>6, <2>1, <2>2, Zenon DEF PoolInv, Types
<1>8. Links'
  BY <1>1, <1>2, SMTT(60) DEF PoolInv, Types, Links, Linked, Slots
<1>9. Calls'
  <2>1. \A k \in 1 .. Len(stack) : stack[k].kind # "clear" => stack[k].index # i
    BY <1>1, Zenon DEF PoolInv, Calls
  <2>2. \A k \in 1 .. Len(stack) : stack'[k].kind # "clear" =>
              stack'[k].index \in Slots /\ storage'[stack'[k].index] = Bytes
    <3> SUFFICES ASSUME NEW k \in 1 .. Len(stack), stack[k].kind # "clear"
                 PROVE  stack[k].index \in Slots /\ storage'[stack[k].index] = Bytes
      BY <1>6, Zenon
    <3>1. /\ stack[k].index \in Slots /\ storage[stack[k].index] = Bytes
          /\ stack[k].index # i
      BY <2>1, Zenon DEF PoolInv, Calls, Linked
    <3> QED
      BY <1>1, <3>1, Zenon DEF PoolInv, Types
  <2>3. \A k \in 1 .. Len(stack) : stack'[k].kind = "construct" =>
            /\ Odd(generation_'[stack'[k].index])
            /\ \A h \in held' : h.index = stack'[k].index => h.age # 0
    <3> SUFFICES ASSUME NEW k \in 1 .. Len(stack), stack[k].kind = "construct"
                 PROVE  /\ Odd(generation_'[stack[k].index])
                        /\ \A h \in held' : h.index = stack[k].index => h.age # 0
      BY <1>6, Zenon
    <3>1. /\ Odd(generation_[stack[k].index]) /\ stack[k].index \in Slots
          /\ \A h \in held : h.index = stack[k].index => h.age # 0
          /\ stack[k].index # i
      BY <2>1, Zenon DEF PoolInv, Calls
    <3> QED
      BY <1>2, <1>4, <3>1, SMTT(60)
  <2>4. \A k \in 1 .. Len(stack) : stack'[k].kind = "destroy" => ~Odd(generation_'[stack'[k].index])
    BY <1>2, <1>6, <2>1, SMTT(60) DEF PoolInv, Calls
  <2>5. \A k \in 1 .. Len(stack) : stack'[k].kind = "clear" =>
            \A j \in 1 .. k - 1 : stack'[j].kind # "construct"
    BY <1>6, SMTT(60) DEF PoolInv, Calls
  <2>6. \A h \in held' : h.index = i => h.age # 0
    BY <1>4, SMTT(60) DEF PoolInv, Types, Handles
  <2>7. ~Linked(i)'
    BY <1>1, Zenon DEF Linked, PoolInv, Types
  <2>8. \A j, k \in 1 .. Len(stack) :
          (j # k /\ stack'[j].kind # "clear" /\ stack'[k].kind # "clear")
             => stack'[j].index # stack'[k].index
    BY <1>6, SMTT(60) DEF PoolInv, Calls
  <2>9. \A k \in 1 .. Len(stack') : k \in 1 .. Len(stack) \/ k = Len(stack')
    BY <1>6
  <2> HIDE PoolConstants
  <2>10. ASSUME NEW k \in 1 .. Len(stack')
         PROVE  /\ stack'[k].kind # "clear" =>
                     stack'[k].index \in Slots /\ storage'[stack'[k].index] = Bytes
                /\ stack'[k].kind = "construct" =>
                     /\ Odd(generation_'[stack'[k].index])
                     /\ \A h \in held' : h.index = stack'[k].index => h.age # 0
                /\ stack'[k].kind = "destroy" => ~Odd(generation_'[stack'[k].index])
                /\ stack'[k].kind = "clear" => \A j \in 1 .. k - 1 : stack'[j].kind # "construct"
    <3>1. CASE k \in 1 .. Len(stack)
      BY <3>1, <2>2, <2>3, <2>4, <2>5, Zenon
    <3>2. CASE k = Len(stack')
      BY <3>2, <1>1, <1>2, <1>6, <2>6, <2>7 DEF Linked
    <3> QED
      BY <3>1, <3>2, <2>9, Zenon
  <2>11. ASSUME NEW j \in 1 .. Len(stack'), NEW k \in 1 .. Len(stack'), j # k,
                stack'[j].kind # "clear", stack'[k].kind # "clear"
         PROVE  stack'[j].index # stack'[k].index
    <3>1. \A l \in 1 .. Len(stack) : stack'[l].kind # "clear" => stack'[l].index # i
      BY <1>6, <2>1, Zenon
    <3>2. stack'[Len(stack')].index = i
      BY <1>6
    <3> QED
      BY <2>8, <2>9, <2>11, <3>1, <3>2, Zenon
  <2> QED
    BY <2>10, <2>11, Zenon DEF Calls, Linked
<1>10. Ages'
  <2> SUFFICES ASSUME NEW g \in held'
               PROVE  /\ Odd(g.generation)
                      /\ Reached(g)' \in {generation_'[g.index], generation_'[g.index] + 2 * HalfGens}
    BY Zenon DEF Ages
  <2>1. PICK h \in held : /\ g.index = h.index /\ g.generation = h.generation
                          /\ g.age = IF h.index = i THEN h.age + 1 ELSE h.age
    BY <1>4, Zenon
  <2>2. /\ h.index \in Slots /\ h.generation \in Int /\ h.age \in Int
        /\ Odd(h.generation)
        /\ Reached(h) \in {generation_[h.index], generation_[h.index] + 2 * HalfGens}
    BY SMTT(60) DEF PoolInv, Types, Ages, Handles, Gens
  <2>3. generation_[h.index] \in Int
    BY <2>2, SMTT(60) DEF PoolInv, Types, Gens
  <2>4. CASE h.index = i
    <3>1. Reached(h) = h.generation + 2 * h.age + 1
      BY <1>1, <2>4, Zenon DEF Reached
    <3>2. Reached(g)' = h.generation + 2 * (h.age + 1)
      BY <1>2, <2>1, <2>2, <2>4 DEF Reached
    <3>3. generation_'[g.index] = generation_[h.index] + 1
      BY <1>2, <2>1, <2>4, Zenon
    <3>4. Reached(g)' = Reached(h) + 1 /\ Reached(h) \in Int
      BY <2>2, <3>1, <3>2
    <3> QED
      BY <2>1, <2>2, <2>3, <3>3, <3>4
  <2>5. CASE h.index # i
    BY <1>2, <2>1, <2>2, <2>5, Zenon DEF Reached
  <2> QED
    BY <2>4, <2>5, Zenon
<1> QED
  BY <1>7, <1>8, <1>9, <1>10, Zenon DEF PoolInv

\* The facts every return from a constructor or destructor starts from.
LEMMA ReturnFacts ==
  ASSUME PoolInv, stack # <<>>, stack' = Pop, Top.kind # "clear"
  PROVE  \E i \in Slots :
           /\ i = Top.index /\ ~Linked(i)
           /\ Top.kind = "construct" => Odd(generation_[i]) /\ \A h \in held : h.index = i => h.age # 0
           /\ Top.kind = "destroy" => ~Odd(generation_[i])
           /\ stack' \in Seq(Frames) /\ Len(stack') \in Nat
           /\ \A k \in 1 .. Len(stack') : k \in 1 .. Len(stack) /\ stack'[k] = stack[k]
           /\ \A k \in 1 .. Len(stack') : stack[k].kind # "clear" => stack[k].index # i
<1>1. stack \in Seq(Frames)
  BY Zenon DEF PoolInv, Types
<1>2. /\ Len(stack) \in Nat /\ Len(stack) > 0
      /\ Top = stack[Len(stack)]
      /\ Pop \in Seq(Frames) /\ Len(Pop) = Len(stack) - 1
      /\ \A k \in 1 .. Len(stack) - 1 : Pop[k] = stack[k]
  BY <1>1, PopFacts, Zenon
<1>3. Len(stack) \in 1 .. Len(stack)
  BY <1>2
<1>4. /\ Top.index \in Slots /\ ~Linked(Top.index)
      /\ Top.kind = "construct" =>
           Odd(generation_[Top.index]) /\ \A h \in held : h.index = Top.index => h.age # 0
      /\ Top.kind = "destroy" => ~Odd(generation_[Top.index])
  BY <1>2, <1>3, Zenon DEF PoolInv, Calls
<1>5. /\ Len(stack') \in Nat
      /\ \A k \in 1 .. Len(stack') : k \in 1 .. Len(stack) /\ k # Len(stack) /\ stack'[k] = stack[k]
  BY <1>2
<1>6. \A k \in 1 .. Len(stack') : stack[k].kind # "clear" => stack[k].index # Top.index
  BY <1>2, <1>3, <1>5, ZenonT(60) DEF PoolInv, Calls
<1> QED
  BY <1>2, <1>4, <1>5, <1>6, ZenonT(60)

\* What is known of the other pending calls survives a return that leaves
\* their slots alone.
LEMMA CallsAfterReturn ==
  ASSUME PoolInv, Len(stack') \in Nat,
         \A k \in 1 .. Len(stack') : k \in 1 .. Len(stack) /\ stack'[k] = stack[k],
         \A k \in 1 .. Len(stack') : stack[k].kind # "clear" =>
           /\ storage'[stack[k].index] = storage[stack[k].index]
           /\ generation_'[stack[k].index] = generation_[stack[k].index],
         \A k \in 1 .. Len(stack') : stack[k].kind = "construct" =>
           \A h \in held' : h.index = stack[k].index => h.age # 0
  PROVE  Calls'
<1>1. \A k \in 1 .. Len(stack') :
        /\ stack'[k].kind # "clear" =>
             stack'[k].index \in Slots /\ storage'[stack'[k].index] = Bytes
        /\ stack'[k].kind = "construct" => Odd(generation_'[stack'[k].index])
        /\ stack'[k].kind = "destroy" => ~Odd(generation_'[stack'[k].index])
  BY DEF PoolInv, Calls, Linked
<1>2. \A k \in 1 .. Len(stack') : stack'[k].kind = "clear" =>
        \A j \in 1 .. k - 1 : stack'[j].kind # "construct"
  <2>1. \A k \in 1 .. Len(stack') : \A j \in 1 .. k - 1 : j \in 1 .. Len(stack')
    OBVIOUS
  <2> QED
    BY <2>1, ZenonT(60) DEF PoolInv, Calls
<1>3. \A j, k \in 1 .. Len(stack') :
        (j # k /\ stack'[j].kind # "clear" /\ stack'[k].kind # "clear")
           => stack'[j].index # stack'[k].index
  BY SMTT(60) DEF PoolInv, Calls
<1>4. \A k \in 1 .. Len(stack') : stack'[k].kind = "construct" =>
        \A h \in held' : h.index = stack'[k].index => h.age # 0
  OBVIOUS
<1> QED
  BY <1>1, <1>2, <1>3, <1>4, Zenon DEF Calls, Linked

\* The constructor returns and the handle is issued: at age 0, for a slot that
\* leaves the stack and that no other pending constructor works on.
LEMMA ConstructedStep == PoolInv /\ Constructed => PoolInv'
<1> SUFFICES ASSUME PoolInv, Constructed PROVE PoolInv'
  BY Zenon
<1> USE PoolConstants
<1>1. PICK i \in Slots :
           /\ i = Top.index /\ ~Linked(i)
           /\ Odd(generation_[i]) /\ \A h \in held : h.index = i => h.age # 0
           /\ stack' \in Seq(Frames) /\ Len(stack') \in Nat
           /\ \A k \in 1 .. Len(stack') : k \in 1 .. Len(stack) /\ stack'[k] = stack[k]
           /\ \A k \in 1 .. Len(stack') : stack[k].kind # "clear" => stack[k].index # i
  BY ReturnFacts, Zenon DEF Constructed
<1>2. held' = held \cup {[index |-> i, generation |-> generation_[i], age |-> 0]}
  BY <1>1, Zenon DEF Constructed
<1>3. UNCHANGED <<storage, generation_, free_head_, free_tail_>>
  BY Zenon DEF Constructed
<1>4. Types'
  BY <1>1, <1>2, <1>3, SMTT(60) DEF PoolInv, Types, Handles
<1>5. Links'
  BY <1>3, Zenon DEF PoolInv, Links, Linked
<1>6. Calls'
  <2>1. \A k \in 1 .. Len(stack') : stack[k].kind = "construct" =>
          \A h \in held' : h.index = stack[k].index => h.age # 0
    BY <1>1, <1>2, SMTT(60) DEF PoolInv, Calls
  <2> QED
    BY <1>1, <1>3, <2>1, CallsAfterReturn, Zenon
<1>7. Ages'
  BY <1>1, <1>2, <1>3, SMTT(60) DEF PoolInv, Ages, Reached, Types, Gens
<1> QED
  BY <1>4, <1>5, <1>6, <1>7, Zenon DEF PoolInv

\* The constructor throws: the claim is undone, ages included.
LEMMA ConstructorThrowsStep == PoolInv /\ ConstructorThrows => PoolInv'
<1> SUFFICES ASSUME PoolInv, ConstructorThrows PROVE PoolInv'
  BY Zenon
<1> USE PoolConstants
<1>1. PICK i \in Slots :
           /\ i = Top.index /\ ~Linked(i)
           /\ Odd(generation_[i]) /\ \A h \in held : h.index = i => h.age # 0
           /\ stack' \in Seq(Frames) /\ Len(stack') \in Nat
           /\ \A k \in 1 .. Len(stack') : k \in 1 .. Len(stack) /\ stack'[k] = stack[k]
           /\ \A k \in 1 .. Len(stack') : stack[k].kind # "clear" => stack[k].index # i
  BY ReturnFacts, Zenon DEF ConstructorThrows
<1>2. /\ generation_' = [generation_ EXCEPT ![i] = @ - 1]
      /\ storage' = [storage EXCEPT ![i] = free_head_]
      /\ free_tail_' = IF free_head_ >= Capacity THEN i ELSE free_tail_
      /\ free_head_' = i
      /\ held' = Aged(i, -1)
  BY <1>1, Zenon DEF ConstructorThrows
<1>3. /\ generation_[i] \in Nat /\ generation_[i] > 0
      /\ generation_'[i] \in Gens /\ generation_'[i] = generation_[i] - 1 /\ ~Odd(generation_'[i])
      /\ \A j \in Slots : j # i => generation_'[j] = generation_[j]
  <2>1. generation_[i] \in Nat /\ generation_[i] <= 2 * HalfGens - 1
    BY DEF PoolInv, Types, Gens
  <2>2. generation_'[i] = generation_[i] - 1 /\ \A j \in Slots : j # i => generation_'[j] = generation_[j]
    BY <1>2, Zenon DEF PoolInv, Types
  <2>3. generation_[i] > 0 /\ ~Odd(generation_[i] - 1)
    BY <1>1, <2>1, OddPredecessor, Zenon
  <2> QED
    BY <2>1, <2>2, <2>3 DEF Gens
<1>4. \A g \in held' : \E h \in held :
           /\ g.index = h.index /\ g.generation = h.generation
           /\ g.age = IF h.index = i THEN h.age + -1 ELSE h.age
           /\ g = [index |-> h.index, generation |-> h.generation, age |-> g.age]
  <2>1. held \subseteq Handles
    BY Zenon DEF PoolInv, Types
  <2>2. -1 \in Int
    OBVIOUS
  <2> HIDE PoolConstants
  <2> QED
    BY <1>2, <2>1, <2>2, AgedFacts
<1>5. Types'
  <2>1. held' \subseteq Handles
    <3> SUFFICES ASSUME NEW g \in held' PROVE g \in Handles
      BY Zenon
    <3>1. PICK h \in held :
           /\ g.age = IF h.index = i THEN h.age + -1 ELSE h.age
           /\ g = [index |-> h.index, generation |-> h.generation, age |-> g.age]
      BY <1>4, Zenon
    <3>2. /\ h.index \in Slots /\ h.generation \in Gens /\ h.age \in 0 .. MaxAge
          /\ h.index = i => h.age # 0
      BY <1>1, Zenon DEF PoolInv, Types, Handles
    <3>3. g.age \in 0 .. MaxAge
      BY <3>1, <3>2
    <3> QED
      BY <3>1, <3>2, <3>3 DEF Handles
  <2>2. generation_' \in [Slots -> Gens]
    BY <1>2, <1>3, Zenon DEF PoolInv, Types
  <2> QED
    BY <1>1, <1>2, <2>1, <2>2, SMTT(60) DEF PoolInv, Types, Slots
<1>6. Links'
  <2>1. \A j \in Slots : storage'[j] = IF j = i THEN free_head_ ELSE storage[j]
    BY <1>2, Zenon DEF PoolInv, Types
  <2>2. /\ free_head_ \in 0 .. Capacity /\ free_head_ # Bytes
        /\ free_head_ # Capacity => free_head_ \in Slots /\ free_tail_ \in Slots
        /\ storage[i] = Bytes
    BY <1>1, PoolAssumption DEF PoolInv, Types, Linked, Slots
  <2>3. \A j \in Slots : storage[j] # Bytes /\ storage[j] # Capacity => storage[j] \in Slots /\ storage[j] # i
    BY <2>2, SMTT(60) DEF PoolInv, Types, Links, Linked, Slots
  <2>4. storage'[free_tail_'] = Capacity
    BY <1>2, <2>1, <2>2 DEF PoolInv, Links, Linked, Slots
  <2>5. \A j \in Slots : storage'[j] # Bytes => ~Odd(generation_'[j])
    BY <1>3, <2>1, Zenon DEF PoolInv, Links, Linked
  <2>6. \A j \in Slots : (storage'[j] # Bytes /\ storage'[j] # Capacity) =>
           storage'[storage'[j]] # Bytes /\ storage'[j] # i
    BY <2>1, <2>2, <2>3, ZenonT(60) DEF PoolInv, Links, Linked
  <2>7. \A j, k \in Slots :
          (storage'[j] # Bytes /\ j # k /\ storage'[j] # Capacity) => storage'[j] # storage'[k]
    BY <2>1, <2>2, <2>3 DEF PoolInv, Links, Linked
  <2> QED
    BY <1>2, <2>1, <2>2, <2>4, <2>5, <2>6, <2>7, Zenon DEF Links, Linked
<1>7. Calls'
  <2>1. \A k \in 1 .. Len(stack') : stack[k].kind # "clear" =>
          /\ storage'[stack[k].index] = storage[stack[k].index]
          /\ generation_'[stack[k].index] = generation_[stack[k].index]
    BY <1>1, <1>2, <1>3, ZenonT(60) DEF PoolInv, Types, Calls
  <2>2. \A k \in 1 .. Len(stack') : stack[k].kind = "construct" =>
          \A h \in held' : h.index = stack[k].index => h.age # 0
    BY <1>1, <1>4, SMTT(60) DEF PoolInv, Calls
  <2> QED
    BY <1>1, <2>1, <2>2, CallsAfterReturn, Zenon
<1>8. Ages'
  <2> SUFFICES ASSUME NEW g \in held'
               PROVE  /\ Odd(g.generation)
                      /\ Reached(g)' \in {generation_'[g.index], generation_'[g.index] + 2 * HalfGens}
    BY Zenon DEF Ages
  <2>1. PICK h \in held : /\ g.index = h.index /\ g.generation = h.generation
                          /\ g.age = IF h.index = i THEN h.age + -1 ELSE h.age
    BY <1>4, Zenon
  <2>2. /\ h.index \in Slots /\ h.generation \in Int /\ h.age \in Int
        /\ Odd(h.generation)
        /\ Reached(h) \in {generation_[h.index], generation_[h.index] + 2 * HalfGens}
    BY SMTT(60) DEF PoolInv, Types, Ages, Handles, Gens
  <2>3. generation_[h.index] \in Int
    BY <2>2, SMTT(60) DEF PoolInv, Types, Gens
  <2>4. CASE h.index = i
    <3>1. Reached(h) = h.generation + 2 * h.age
      BY <1>1, <2>2, <2>4 DEF Reached
    <3>2. Reached(g)' = h.generation + 2 * (h.age - 1) + 1
      BY <1>3, <2>1, <2>2, <2>4, Zenon DEF Reached
    <3>3. generation_'[g.index] = generation_[h.index] - 1
      BY <1>3, <2>1, <2>4, Zenon
    <3>4. Reached(g)' = Reached(h) - 1 /\ Reached(h) \in Int
      BY <2>2, <3>1, <3>2
    <3> QED
      BY <2>1, <2>2, <2>3, <3>3, <3>4
  <2>5. CASE h.index # i
    BY <1>3, <2>1, <2>2, <2>5, Zenon DEF Reached
  <2> QED
    BY <2>4, <2>5, Zenon
<1> QED
  BY <1>5, <1>6, <1>7, <1>8, Zenon DEF PoolInv

\* release, up to the destructor, of a live slot that no pending constructor
\* works on: its handles go stale and the slot stays off the free list.  lower
\* is the stack below the destructor's frame.
LEMMA ReleaseStep ==
  ASSUME PoolInv, NEW i \in Slots, Odd(generation_[i]), Release(i),
         \A k \in 1 .. Len(stack) : stack[k].kind = "construct" => stack[k].index # i,
         NEW lower \in Seq(Frames), Len(lower) = Len(stack),
         \A k \in 1 .. Len(stack) : \/ lower[k] = stack[k]
                                    \/ lower[k].kind = "clear" /\ stack[k].kind = "clear",
         stack' = Append(lower, Frame("destroy", i))
  PROVE  PoolInv'
<1> USE PoolConstants
<1>1. /\ generation_' = [generation_ EXCEPT ![i] = Increment(@)]
      /\ UNCHANGED <<storage, free_head_, free_tail_, held>>
  BY Zenon DEF Release
<1>2. generation_[i] \in Gens
  BY Zenon DEF PoolInv, Types
<1>3. /\ generation_'[i] \in Gens /\ ~Odd(generation_'[i])
      /\ generation_'[i] = IF generation_[i] = 2 * HalfGens - 1 THEN 0 ELSE generation_[i] + 1
      /\ \A j \in Slots : j # i => generation_'[j] = generation_[j]
  BY <1>1, <1>2, IncrementCases, Zenon DEF PoolInv, Types
<1>4. Frame("destroy", i) \in Frames
  BY SMTT(60) DEF Frame, Frames, Slots
<1>5. /\ stack' \in Seq(Frames) /\ Len(stack') = Len(stack) + 1 /\ Len(stack) \in Nat
      /\ \A k \in 1 .. Len(stack) : stack'[k] = lower[k]
      /\ stack'[Len(stack')] = [kind |-> "destroy", index |-> i]
  BY <1>4, PushFacts, SMTT(60) DEF PoolInv, Types, Frame
<1>6. \A k \in 1 .. Len(stack) :
        \/ stack'[k] = stack[k]
        \/ stack'[k].kind = "clear" /\ stack[k].kind = "clear"
  BY <1>5, Zenon
<1>7. Types'
  BY <1>1, <1>2, <1>3, <1>5, Zenon DEF PoolInv, Types
<1>8. Links'
  BY <1>1, <1>3, Zenon DEF PoolInv, Links, Linked
<1>9. storage[i] = Bytes
  BY Zenon DEF PoolInv, Links, Linked
<1>10. \A k \in 1 .. Len(stack) : stack[k].kind # "clear" => stack[k].index \in Slots /\ stack[k].index # i
  <2>1. \A k \in 1 .. Len(stack) : stack[k] \in Frames
    BY DEF PoolInv, Types
  <2>2. \A k \in 1 .. Len(stack) : stack[k].kind \in {"construct", "destroy", "clear"}
    BY <2>1, ZenonT(60) DEF Frames
  <2> QED
    BY <2>2, Zenon DEF PoolInv, Calls
<1>11. Calls'
  <2>1. \A k \in 1 .. Len(stack) :
          /\ stack'[k].kind # "clear" =>
               stack'[k].index \in Slots /\ storage'[stack'[k].index] = Bytes
          /\ stack'[k].kind = "construct" =>
               /\ Odd(generation_'[stack'[k].index])
               /\ \A h \in held' : h.index = stack'[k].index => h.age # 0
          /\ stack'[k].kind = "destroy" => ~Odd(generation_'[stack'[k].index])
    <3>1. ASSUME NEW k \in 1 .. Len(stack), stack'[k].kind # "clear"
          PROVE  /\ stack'[k] = stack[k] /\ stack[k].kind # "clear"
                 /\ storage'[stack[k].index] = storage[stack[k].index]
                 /\ generation_'[stack[k].index] = generation_[stack[k].index]
                 /\ held' = held
      BY <1>1, <1>3, <1>6, <1>10, <3>1, Zenon
    <3>2. ASSUME NEW k \in 1 .. Len(stack), stack[k].kind # "clear"
          PROVE  /\ stack[k].index \in Slots /\ storage[stack[k].index] = Bytes
                 /\ stack[k].kind = "construct" =>
                      /\ Odd(generation_[stack[k].index])
                      /\ \A h \in held : h.index = stack[k].index => h.age # 0
                 /\ stack[k].kind = "destroy" => ~Odd(generation_[stack[k].index])
      BY <3>2, Zenon DEF PoolInv, Calls, Linked
    <3>3. \A k \in 1 .. Len(stack) : stack'[k].kind = "clear" =>
            stack'[k].kind # "construct" /\ stack'[k].kind # "destroy"
      BY Zenon
    <3> QED
      BY <3>1, <3>2, <3>3, SMTT(60)
  <2>2. \A k \in 1 .. Len(stack) : stack'[k].kind = stack[k].kind
    BY <1>6, Zenon
  <2>3. \A k \in 1 .. Len(stack) : stack'[k].kind = "clear" =>
          \A j \in 1 .. k - 1 : stack'[j].kind # "construct"
    <3>1. \A k \in 1 .. Len(stack) : \A j \in 1 .. k - 1 : j \in 1 .. Len(stack)
      BY <1>5
    <3> QED
      BY <2>2, <3>1, SMTT(60) DEF PoolInv, Calls
  <2>4. \A j, k \in 1 .. Len(stack) :
          (j # k /\ stack'[j].kind # "clear" /\ stack'[k].kind # "clear")
             => stack'[j].index # stack'[k].index
    BY <1>6, SMTT(60) DEF PoolInv, Calls
  <2>5. \A k \in 1 .. Len(stack) : stack'[k].kind # "clear" => stack'[k].index # i
    BY <1>6, <1>10, Zenon
  <2>6. \A k \in 1 .. Len(stack') : k \in 1 .. Len(stack) \/ k = Len(stack')
    BY <1>5
  <2>7. storage'[i] = Bytes
    BY <1>1, <1>9, Zenon
  <2> HIDE PoolConstants
  <2>10. ASSUME NEW k \in 1 .. Len(stack')
         PROVE  /\ stack'[k].kind # "clear" =>
                     stack'[k].index \in Slots /\ storage'[stack'[k].index] = Bytes
                /\ stack'[k].kind = "construct" =>
                     /\ Odd(generation_'[stack'[k].index])
                     /\ \A h \in held' : h.index = stack'[k].index => h.age # 0
                /\ stack'[k].kind = "destroy" => ~Odd(generation_'[stack'[k].index])
                /\ stack'[k].kind = "clear" => \A j \in 1 .. k - 1 : stack'[j].kind # "construct"
    <3>1. CASE k \in 1 .. Len(stack)
      BY <3>1, <2>1, <2>3, ZenonT(60)
    <3>2. CASE k = Len(stack')
      BY <3>2, <1>3, <1>5, <2>7
    <3> QED
      BY <3>1, <3>2, <2>6, Zenon
  <2>11. ASSUME NEW j \in 1 .. Len(stack'), NEW k \in 1 .. Len(stack'), j # k,
                stack'[j].kind # "clear", stack'[k].kind # "clear"
         PROVE  stack'[j].index # stack'[k].index
    <3>1. stack'[Len(stack')].index = i
      BY <1>5
    <3> QED
      BY <2>4, <2>5, <2>6, <2>11, <3>1, ZenonT(60)
  <2> QED
    BY <2>10, <2>11, SMTT(60) DEF Calls, Linked
<1>12. Ages'
  <2> SUFFICES ASSUME NEW h \in held
               PROVE  /\ Odd(h.generation)
                      /\ Reached(h)' \in {generation_'[h.index], generation_'[h.index] + 2 * HalfGens}
    BY <1>1, Zenon DEF Ages
  <2>1. /\ h.index \in Slots /\ h.generation \in Nat /\ h.generation < 2 * HalfGens
        /\ h.age \in Nat /\ h.age < HalfGens
        /\ Odd(h.generation)
        /\ Reached(h) \in {generation_[h.index], generation_[h.index] + 2 * HalfGens}
    BY SMTT(60) DEF PoolInv, Types, Ages, Handles, Gens
  <2>2. generation_[h.index] \in Nat /\ generation_[h.index] < 2 * HalfGens
    BY <2>1, SMTT(60) DEF PoolInv, Types, Gens
  <2>3. CASE h.index = i
    <3>1. Reached(h) = h.generation + 2 * h.age
      BY <2>1, <2>3, SMTT(60) DEF Reached
    <3>2. Reached(h)' = h.generation + 2 * h.age + 1
      BY <1>3, <2>1, <2>3, Zenon DEF Reached
    <3>3. generation_'[h.index] = IF generation_[h.index] = 2 * HalfGens - 1
                                  THEN 0 ELSE generation_[h.index] + 1
      BY <1>3, <2>3, Zenon
    <3>4. Reached(h) \in Int /\ Reached(h)' = Reached(h) + 1
      BY <2>1, <3>1, <3>2, SMTT(60)
    <3>5. Reached(h) < 4 * HalfGens - 1
      <4>1. \A g, a, n \in Nat : (g < 2 * n /\ a < n) => g + 2 * a < 4 * n - 1
        BY SMTT(60)
      <4> QED
        BY <2>1, <3>1, <4>1, Zenon
    <3>6. \A r \in Int, g, n \in Nat :
            (r \in {g, g + 2 * n} /\ g < 2 * n /\ r < 4 * n - 1)
               => IF g = 2 * n - 1 THEN r + 1 = 2 * n ELSE r + 1 \in {g + 1, g + 1 + 2 * n}
      BY SMT
    <3> QED
      BY <2>1, <2>2, <3>3, <3>4, <3>5, <3>6, SMTT(60)
  <2>4. CASE h.index # i
    BY <1>3, <2>1, <2>4, Zenon DEF Reached
  <2> QED
    BY <2>3, <2>4, Zenon
<1> QED
  BY <1>7, <1>8, <1>11, <1>12, Zenon DEF PoolInv

\* destroy releases the slot its handle names.
LEMMA DestroyStep == PoolInv /\ (\E h \in held : Destroy(h)) => PoolInv'
<1> SUFFICES ASSUME PoolInv, NEW h \in held, Destroy(h) PROVE PoolInv'
  BY Zenon
<1>1. PICK i \in Slots : i = live_index(h) /\ i = h.index
  BY PoolConstants DEF Destroy, live_index
<1>2. h.age = 0 /\ Odd(generation_[i])
  BY <1>1, AgesGiveNames, Zenon DEF HandleNamesItsObject
<1>3. \A k \in 1 .. Len(stack) : stack[k].kind = "construct" => stack[k].index # i
  BY <1>1, <1>2, Zenon DEF PoolInv, Calls
<1>4. Release(i) /\ stack' = Append(stack, Frame("destroy", i))
  BY <1>1, Zenon DEF Destroy
<1>5. stack \in Seq(Frames)
  BY Zenon DEF PoolInv, Types
<1> QED
  BY <1>2, <1>3, <1>4, <1>5, ReleaseStep, Zenon

\* The destructor returns and the slot joins the free list at the back.
LEMMA DestroyedStep == PoolInv /\ Destroyed => PoolInv'
<1> SUFFICES ASSUME PoolInv, Destroyed PROVE PoolInv'
  BY Zenon
<1> USE PoolConstants
<1>1. PICK i \in Slots :
           /\ i = Top.index /\ ~Linked(i) /\ ~Odd(generation_[i])
           /\ stack' \in Seq(Frames) /\ Len(stack') \in Nat
           /\ \A k \in 1 .. Len(stack') : k \in 1 .. Len(stack) /\ stack'[k] = stack[k]
           /\ \A k \in 1 .. Len(stack') : stack[k].kind # "clear" => stack[k].index # i
  BY ReturnFacts, Zenon DEF Destroyed
<1>2. /\ storage' = IF free_head_ >= Capacity THEN [storage EXCEPT ![i] = Capacity]
                    ELSE [[storage EXCEPT ![i] = Capacity] EXCEPT ![free_tail_] = i]
      /\ free_head_' = IF free_head_ >= Capacity THEN i ELSE free_head_
      /\ free_tail_' = i
      /\ UNCHANGED <<generation_, held>>
  BY <1>1, Zenon DEF Destroyed
<1>3. /\ storage[i] = Bytes /\ free_tail_ \in Slots
      /\ free_head_ >= Capacity <=> free_head_ = Capacity
      /\ free_head_ # Capacity => /\ free_head_ \in Slots /\ storage[free_head_] # Bytes
                                  /\ storage[free_tail_] = Capacity
                                  /\ free_tail_ # i /\ free_head_ # i
  BY <1>1, SMTT(60) DEF PoolInv, Types, Links, Linked, Slots
<1>4. \A j \in Slots : storage'[j] =
         IF free_head_ # Capacity /\ j = free_tail_ THEN i
         ELSE IF j = i THEN Capacity ELSE storage[j]
  BY <1>2, <1>3, Zenon DEF PoolInv, Types
<1>5. Types'
  <2>1. storage' \in [Slots -> 0 .. Capacity \cup {Bytes}]
    <3>1. i \in 0 .. Capacity /\ Capacity \in 0 .. Capacity
      BY DEF Slots
    <3> QED
      BY <1>2, <1>3, <3>1, Zenon DEF PoolInv, Types
  <2>2. free_head_' \in 0 .. Capacity
    BY <1>2 DEF PoolInv, Types, Slots
  <2> QED
    BY <1>1, <1>2, <2>1, <2>2, Zenon DEF PoolInv, Types
<1>6. Links'
  <2>1. \A j \in Slots : storage[j] # Bytes /\ storage[j] # Capacity => storage[j] \in Slots /\ storage[j] # i
    BY <1>3, SMTT(60) DEF PoolInv, Types, Links, Linked, Slots
  <2>2. storage'[free_tail_'] = Capacity
    BY <1>2, <1>3, <1>4, Zenon
  <2>3. storage'[free_head_'] # Bytes
    BY <1>2, <1>3, <1>4, Zenon
  <2>4. \A j \in Slots : storage'[j] # Bytes => ~Odd(generation_'[j])
    BY <1>1, <1>2, <1>3, <1>4, ZenonT(60) DEF PoolInv, Links, Linked
  <2>5. \A j \in Slots : (storage'[j] # Bytes /\ storage'[j] # Capacity) =>
           storage'[storage'[j]] # Bytes /\ storage'[j] # free_head_'
    <3> SUFFICES ASSUME NEW j \in Slots, storage'[j] # Bytes, storage'[j] # Capacity
                 PROVE  storage'[storage'[j]] # Bytes /\ storage'[j] # free_head_'
      BY Zenon
    <3>1. CASE free_head_ # Capacity /\ j = free_tail_
      <4>1. storage'[j] = i
        BY <1>4, <3>1, Zenon
      <4>2. storage'[i] = Capacity
        BY <1>3, <1>4, <3>1, Zenon
      <4>3. free_head_' = free_head_ /\ free_head_ # i
        BY <1>2, <1>3, <3>1, Zenon
      <4> QED
        BY <4>1, <4>2, <4>3, Zenon
    <3>2. CASE ~(free_head_ # Capacity /\ j = free_tail_)
      <4>1. /\ storage'[j] = storage[j] /\ storage[j] \in Slots /\ storage[j] # i
            /\ storage[storage[j]] # Bytes /\ storage[j] # free_head_
        BY <1>4, <2>1, <3>2, Zenon DEF PoolInv, Links, Linked
      <4> QED
        BY <1>2, <1>4, <4>1, ZenonT(60)
    <3> QED
      BY <3>1, <3>2, Zenon
  <2>6. \A j, k \in Slots :
          (storage'[j] # Bytes /\ j # k /\ storage'[j] # Capacity) => storage'[j] # storage'[k]
    BY <1>3, <1>4, <2>1 DEF PoolInv, Links, Linked
  <2> QED
    BY <2>2, <2>3, <2>4, <2>5, <2>6, Zenon DEF Links, Linked
<1>7. Calls'
  <2>1. \A k \in 1 .. Len(stack') : stack[k].kind # "clear" =>
          /\ stack[k].index \in Slots /\ storage[stack[k].index] = Bytes
          /\ stack[k].index # i
    BY <1>1, Zenon DEF PoolInv, Calls, Linked
  <2>2. \A k \in 1 .. Len(stack') : stack[k].kind # "clear" =>
          /\ storage'[stack[k].index] = storage[stack[k].index]
          /\ generation_'[stack[k].index] = generation_[stack[k].index]
    BY <1>2, <1>3, <1>4, <2>1, ZenonT(60)
  <2>3. \A k \in 1 .. Len(stack') : stack[k].kind = "construct" =>
          \A h \in held' : h.index = stack[k].index => h.age # 0
    BY <1>1, <1>2, Zenon DEF PoolInv, Calls
  <2> QED
    BY <1>1, <2>2, <2>3, CallsAfterReturn, Zenon
<1>8. Ages'
  BY <1>2, Zenon DEF PoolInv, Ages, Reached
<1> QED
  BY <1>5, <1>6, <1>7, <1>8, Zenon DEF PoolInv

\* clear starts: nothing but the stack changes, and no constructor is pending.
LEMMA ClearStep == PoolInv /\ Clear => PoolInv'
<1> SUFFICES ASSUME PoolInv, Clear PROVE PoolInv'
  BY Zenon
<1>1. UNCHANGED <<storage, generation_, free_head_, free_tail_, held>>
  BY Zenon DEF Clear
<1>2. Frame("clear", 0) \in Frames
  BY PoolConstants DEF Frame, Frames
<1>3. /\ stack' \in Seq(Frames) /\ Len(stack') = Len(stack) + 1 /\ Len(stack) \in Nat
      /\ \A k \in 1 .. Len(stack) : stack'[k] = stack[k]
      /\ stack'[Len(stack')] = [kind |-> "clear", index |-> 0]
  BY <1>2, PushFacts DEF PoolInv, Types, Frame, Clear
<1>4. \A k \in 1 .. Len(stack') : k \in 1 .. Len(stack) \/ k = Len(stack')
  BY <1>3
<1>5. \A k \in 1 .. Len(stack) : stack[k].kind # "construct"
  BY Zenon DEF Clear
<1>6. Types' /\ Links' /\ Ages'
  BY <1>1, <1>3, ZenonT(60) DEF PoolInv, Types, Links, Linked, Ages, Reached
<1>7. Calls'
  <2>1. \A k \in 1 .. Len(stack') : \A j \in 1 .. k - 1 : j \in 1 .. Len(stack)
    BY <1>3
  <2> QED
    BY <1>1, <1>3, <1>4, <1>5, <2>1, SMTT(60) DEF PoolInv, Calls, Linked
<1> QED
  BY <1>6, <1>7, Zenon DEF PoolInv

\* A turn of clear's loop: no constructor is pending below a clear.
LEMMA ClearSlotStep == PoolInv /\ ClearSlot => PoolInv'
<1> SUFFICES ASSUME PoolInv, ClearSlot PROVE PoolInv'
  BY Zenon
<1> DEFINE next == Append(Pop, Frame("clear", Top.index + 1))
<1>1. stack \in Seq(Frames) /\ stack # <<>> /\ Top.kind = "clear"
  BY Zenon DEF PoolInv, Types, ClearSlot
<1>2. /\ Len(stack) \in Nat /\ Len(stack) > 0
      /\ Top = stack[Len(stack)] /\ Top \in Frames
      /\ Pop \in Seq(Frames) /\ Len(Pop) = Len(stack) - 1
      /\ \A k \in 1 .. Len(stack) - 1 : Pop[k] = stack[k]
  BY <1>1, PopFacts, Zenon
<1>3. \A k \in 1 .. Len(stack) : stack[k].kind # "construct"
  BY <1>1, <1>2 DEF PoolInv, Calls
<1>4. CASE stack' = Pop /\ UNCHANGED <<storage, generation_, free_head_, free_tail_, held>>
  <2>1. Types' /\ Links' /\ Ages'
    BY <1>2, <1>4, Zenon DEF PoolInv, Types, Links, Linked, Ages, Reached
  <2>2. Calls'
    BY <1>2, <1>3, <1>4, CallsAfterReturn, SMTT(60)
  <2> QED
    BY <2>1, <2>2, Zenon DEF PoolInv
<1>5. ASSUME Top.index < Capacity
      PROVE  /\ next \in Seq(Frames) /\ Len(next) = Len(stack)
             /\ \A k \in 1 .. Len(stack) : \/ next[k] = stack[k]
                                           \/ next[k].kind = "clear" /\ stack[k].kind = "clear"
  <2>1. Top.index \in 0 .. Capacity /\ Top.index + 1 \in 0 .. Capacity
    BY <1>2, <1>5, PoolConstants, SMTT(60) DEF Frames
  <2>2. Frame("clear", Top.index + 1) \in Frames
    BY <2>1, Zenon DEF Frame, Frames
  <2>3. /\ next \in Seq(Frames) /\ Len(next) = Len(Pop) + 1
        /\ \A k \in 1 .. Len(Pop) : next[k] = Pop[k]
        /\ next[Len(Pop) + 1] = Frame("clear", Top.index + 1)
    BY <1>2, <2>2, PushFacts, ZenonT(60)
  <2> HIDE DEF next
  <2>4. Len(next) = Len(stack)
    BY <1>2, <2>3
  <2>5. next[Len(stack)].kind = "clear"
    BY <1>2, <2>3 DEF Frame
  <2>6. \A k \in 1 .. Len(stack) : k \in 1 .. Len(stack) - 1 \/ k = Len(stack)
    BY <1>2
  <2>7. \A k \in 1 .. Len(stack) - 1 : next[k] = stack[k]
    BY <1>2, <2>3, Zenon
  <2> QED
    BY <1>1, <1>2, <2>3, <2>4, <2>5, <2>6, <2>7, Zenon
<1>6. CASE /\ Top.index < Capacity /\ Odd(generation_[Top.index])
           /\ Release(Top.index) /\ stack' = Append(next, Frame("destroy", Top.index))
  <2>0. Top.index \in 0 .. Capacity
    BY <1>2, Zenon DEF Frames
  <2>1. PICK i \in Slots : i = Top.index
    BY <1>6, <2>0, PoolConstants DEF Slots
  <2> HIDE DEF next
  <2> QED
    BY <1>3, <1>5, <1>6, <2>1, ReleaseStep, Zenon
<1>7. CASE /\ Top.index < Capacity /\ stack' = next
           /\ UNCHANGED <<storage, generation_, free_head_, free_tail_, held>>
  <2> HIDE DEF next
  <2>1. Types' /\ Links' /\ Ages'
    BY <1>5, <1>7, Zenon DEF PoolInv, Types, Links, Linked, Ages, Reached
  <2>2. Calls'
    <3>1. \A k \in 1 .. Len(stack) : stack'[k].kind = stack[k].kind
      BY <1>5, <1>7, Zenon
    <3>2. \A k \in 1 .. Len(stack) : stack'[k].kind # "clear" => stack'[k] = stack[k]
      BY <1>5, <1>7, Zenon
    <3>3. Len(stack') = Len(stack) /\ \A k \in 1 .. Len(stack) : \A j \in 1 .. k - 1 : j \in 1 .. Len(stack)
      BY <1>2, <1>5, <1>7
    <3> QED
      BY <1>3, <1>7, <3>1, <3>2, <3>3, SMTT(60) DEF PoolInv, Calls, Linked
  <2> QED
    BY <2>1, <2>2, Zenon DEF PoolInv
<1> QED
  BY <1>4, <1>6, <1>7, Zenon DEF ClearSlot

LEMMA NextPoolInv == PoolInv /\ [Next]_vars => PoolInv'
<1> SUFFICES ASSUME PoolInv, [Next]_vars PROVE PoolInv'
  BY Zenon
<1>1. CASE UNCHANGED vars
  <2>1. UNCHANGED <<storage, generation_, free_head_, free_tail_, held, stack>>
    BY <1>1, Zenon DEF vars
  <2>2. Types'
    BY <2>1, Zenon DEF PoolInv, Types
  <2>3. Links'
    BY <2>1, Zenon DEF PoolInv, Links, Linked
  <2>4. Calls'
    BY <2>1, ZenonT(60) DEF PoolInv, Calls, Linked
  <2>5. Ages'
    BY <2>1, Zenon DEF PoolInv, Ages, Reached
  <2> QED
    BY <2>2, <2>3, <2>4, <2>5, Zenon DEF PoolInv
<1>2. ASSUME NEW h \in held, Forget(h)
      PROVE  PoolInv'
  <2>1. held' \subseteq held /\ UNCHANGED <<storage, generation_, free_head_, free_tail_, stack>>
    BY <1>2, Zenon DEF Forget
  <2>2. Types' /\ Links' /\ Ages'
    BY <2>1, Zenon DEF PoolInv, Types, Links, Linked, Ages, Reached
  <2>3. Calls'
    BY <2>1, SMTT(60) DEF PoolInv, Calls, Linked
  <2> QED
    BY <2>2, <2>3, Zenon DEF PoolInv
<1> QED
  BY <1>1, <1>2, TryEmplaceStep, ConstructedStep, ConstructorThrowsStep, DestroyStep,
     DestroyedStep, ClearStep, ClearSlotStep, Zenon
  DEF Next, TryEmplaceFull, DestroyStale

(***************************************************************************)
(* A handle resolves exactly while the object it was issued for lives      *)
(* (live_index, handle_pool.hpp:287-305), however the calls of             *)
(* constructors and destructors nest, provided the program does not keep a *)
(* handle across HalfGens claims of its slot.                              *)
(***************************************************************************)
THEOREM HandlesSafe == Spec => []HandleNamesItsObject
<1>1. Init => PoolInv
  BY InitPoolInv, Zenon
<1>2. PoolInv /\ [Next]_vars => PoolInv'
  BY NextPoolInv, Zenon
<1>3. PoolInv => HandleNamesItsObject
  BY AgesGiveNames, Zenon
<1> QED
  BY <1>1, <1>2, <1>3, PTL DEF Spec

\* The slot the next try_emplace builds in is not live, and no constructor or
\* destructor is running there.
NextSlotFree ==
  free_head_ # Capacity =>
    /\ free_head_ \in Slots /\ ~Odd(generation_[free_head_])
    /\ \A k \in 1 .. Len(stack) : stack[k].kind # "clear" => stack[k].index # free_head_

(***************************************************************************)
(* A re-entrant try_emplace cannot build over an object that lives, is     *)
(* being constructed, or is being destroyed (handle_pool.hpp:174-176,      *)
(* 310-313).                                                               *)
(***************************************************************************)
THEOREM ClaimsSafe == Spec => []NextSlotFree
<1>1. Init => PoolInv
  BY InitPoolInv, Zenon
<1>2. PoolInv /\ [Next]_vars => PoolInv'
  BY NextPoolInv, Zenon
<1>3. PoolInv => NextSlotFree
  <2> SUFFICES ASSUME PoolInv, free_head_ # Capacity PROVE NextSlotFree
    BY Zenon DEF NextSlotFree
  <2>1. free_head_ \in Slots
    BY PoolConstants DEF PoolInv, Types, Slots
  <2> QED
    BY <2>1, Zenon DEF NextSlotFree, PoolInv, Links, Calls
<1> QED
  BY <1>1, <1>2, <1>3, PTL DEF Spec

-----------------------------------------------------------------------------
\* What a step of the innermost call changes.
Swap(s, x) == Append(SubSeq(s, 1, Len(s) - 1), x)

LEMMA Swapped ==
  ASSUME NEW S, NEW s \in Seq(S), NEW x \in S, s # <<>>
  PROVE  /\ Swap(s, x) \in Seq(S) /\ Len(Swap(s, x)) = Len(s)
         /\ Swap(s, x)[Len(s)] = x
         /\ \A k \in 1 .. Len(s) : k # Len(s) => Swap(s, x)[k] = s[k]
<1>1. PICK b \in Seq(S) : b = SubSeq(s, 1, Len(s) - 1)
  BY Popped, Zenon
<1>2. /\ Swap(s, x) = Append(b, x) /\ Len(s) \in Nat /\ Len(s) > 0 /\ Len(b) = Len(s) - 1
      /\ \A k \in 1 .. Len(s) : k # Len(s) => k \in 1 .. Len(b) /\ b[k] = s[k]
  BY <1>1, Popped, Zenon DEF Swap
<1>3. /\ Swap(s, x) \in Seq(S) /\ Len(Swap(s, x)) = Len(b) + 1
      /\ \A k \in 1 .. Len(b) : Swap(s, x)[k] = b[k]
      /\ Swap(s, x)[Len(b) + 1] = x
  BY <1>2
<1>4. Len(b) + 1 = Len(s)
  BY <1>2
<1> QED
  BY <1>2, <1>3, <1>4, Zenon

-----------------------------------------------------------------------------
(***************************************************************************)
(* The tasks.  ThreadInv ties the line at which a protothread is, or will  *)
(* be resumed, to the lines it has passed.                                 *)
(***************************************************************************)
CONSTANT Body

VARIABLES kind, done_, error_, steps, outcomes, pt_line_, line, passed, ended, returned, halted

Task == INSTANCE Coro WITH stack <- steps

StepKinds == {"step", "on_reset"}

StepperInv ==
  /\ done_ \in BOOLEAN /\ error_ \in BOOLEAN /\ steps \in Seq(StepKinds)
  /\ done_ <=> outcomes \cap {"done", "error"} # {}
  /\ error_ <=> "error" \in outcomes

ThreadTypes ==
  /\ pt_line_ \in -1 .. Len(Body) /\ line \in 0 .. Len(Body) + 1
  /\ passed \in Seq(Task!Lines)
  /\ ended \in BOOLEAN /\ returned \in BOOLEAN /\ halted \in BOOLEAN

\* The lines passed are the first ones, up to where the body goes on.
PassedUpTo ==
  /\ \A i \in 1 .. Len(passed) : passed[i] = i
  /\ line > 0 => Len(passed) = line - 1
  /\ line = 0 /\ pt_line_ = 0 => Len(passed) = 0
  /\ line = 0 /\ pt_line_ \in Task!Labels =>
       Len(passed) = IF Body[pt_line_] = "yield" THEN pt_line_ ELSE pt_line_ - 1

DoneAtEnd ==
  /\ Task!is_done <=> ended
  /\ line > 0 => ~ended
  /\ halted => ~ended
  /\ line = 0 /\ ended => returned

ThreadInv == ThreadTypes /\ PassedUpTo /\ DoneAtEnd

LEMMA TaskInvs ==
  StepperInv /\ ThreadInv => Task!TypeOK /\ Task!TasksExact
BY Zenon DEF StepperInv, StepKinds, ThreadInv, ThreadTypes, PassedUpTo, DoneAtEnd, Task!TypeOK,
  Task!TasksExact

\* A call of a stepper and its return.
LEMMA StepperStack ==
  ASSUME NEW s \in Seq(StepKinds)
  PROVE  /\ \A k \in StepKinds : Append(s, k) \in Seq(StepKinds)
         /\ s # <<>> => SubSeq(s, 1, Len(s) - 1) \in Seq(StepKinds)
BY Pushed, Popped, Zenon

LEMMA StepperStep ==
  ASSUME StepperInv,
         \/ Task!poll \/ Task!reset \/ Task!OnResetReturns
         \/ \E r \in {"yield", "done", "error"} : Task!StepReturns(r)
  PROVE  StepperInv'
<1>1. steps \in Seq(StepKinds) /\ "step" \in StepKinds /\ "on_reset" \in StepKinds
  BY Zenon DEF StepperInv, StepKinds
<1>2. CASE Task!poll
  BY <1>1, <1>2, StepperStack, Zenon DEF StepperInv, Task!poll
<1>3. CASE Task!reset
  BY <1>1, <1>3, StepperStack, Zenon DEF StepperInv, Task!reset
<1>4. CASE Task!OnResetReturns
  BY <1>1, <1>4, StepperStack, ZenonT(60) DEF StepperInv, Task!OnResetReturns, Task!Below
<1>5. CASE \E r \in {"yield", "done", "error"} : Task!StepReturns(r)
  <2>1. PICK r \in {"yield", "done", "error"} : Task!StepReturns(r)
    BY <1>5, Zenon
  <2>2. steps' \in Seq(StepKinds)
    BY <1>1, <2>1, StepperStack, ZenonT(60) DEF Task!StepReturns, Task!Below
  <2>3. /\ done_' <=> done_ \/ r \in {"done", "error"}
        /\ error_' <=> error_ \/ r = "error"
        /\ done_' \in BOOLEAN /\ error_' \in BOOLEAN
        /\ outcomes' = outcomes \cup {r}
    BY <2>1, Zenon DEF Task!StepReturns
  <2>4. done_' <=> outcomes' \cap {"done", "error"} # {}
    BY <2>3, Zenon DEF StepperInv
  <2>5. error_' <=> "error" \in outcomes'
    BY <2>3, Zenon DEF StepperInv
  <2> QED
    BY <2>2, <2>3, <2>4, <2>5, ZenonT(60) DEF StepperInv
<1> QED
  BY <1>2, <1>3, <1>4, <1>5, Zenon

\* One more line is passed.
LEMMA LinePassed ==
  ASSUME Len(Body) \in Nat, ThreadInv, line \in Task!Lines
  PROVE  /\ Append(passed, line) \in Seq(Task!Lines)
         /\ Len(Append(passed, line)) = line
         /\ \A i \in 1 .. line : Append(passed, line)[i] = i
<1>1. passed \in Seq(Task!Lines)
  BY Zenon DEF ThreadInv, ThreadTypes
<1>2. /\ Append(passed, line) \in Seq(Task!Lines)
      /\ Len(Append(passed, line)) = Len(passed) + 1
      /\ \A i \in 1 .. Len(passed) : Append(passed, line)[i] = passed[i]
      /\ Append(passed, line)[Len(passed) + 1] = line
  BY <1>1
<1>3. line \in Nat /\ line > 0
  BY DEF Task!Lines
<1>4. Len(passed) = line - 1 /\ \A i \in 1 .. Len(passed) : passed[i] = i
  BY <1>3, Zenon DEF ThreadInv, PassedUpTo
<1>5. Len(passed) + 1 = line /\ \A i \in 1 .. line : i \in 1 .. Len(passed) \/ i = line
  BY <1>3, <1>4
<1> QED
  BY <1>2, <1>4, <1>5, ZenonT(60)

\* The body goes on to the next line of the same run.
LEMMA GoesOn ==
  ASSUME Len(Body) \in Nat, ThreadInv, line \in Task!Lines,
         passed' = Append(passed, line), line' = line + 1, pt_line_' \in {pt_line_, line},
         UNCHANGED <<ended, returned, halted>>
  PROVE  ThreadInv'
<1>1. line \in Nat /\ line > 0 /\ line <= Len(Body) /\ pt_line_ \in -1 .. Len(Body)
  BY DEF Task!Lines, ThreadInv, ThreadTypes
<1>2. ~ended /\ ~(pt_line_ < 0)
  BY <1>1, Zenon DEF ThreadInv, DoneAtEnd, Task!is_done
<1>3. /\ line' > 0 /\ line' # 0 /\ line' - 1 = line /\ line' \in 0 .. Len(Body) + 1
      /\ pt_line_' \in -1 .. Len(Body) /\ ~(pt_line_' < 0)
  BY <1>1, <1>2, SMTT(60)
<1>4. ThreadTypes'
  BY <1>3, LinePassed, Zenon DEF ThreadInv, ThreadTypes
<1>5. PassedUpTo'
  BY <1>3, LinePassed, ZenonT(60) DEF PassedUpTo
<1>6. DoneAtEnd'
  BY <1>2, <1>3, Zenon DEF DoneAtEnd, Task!is_done
<1> QED
  BY <1>4, <1>5, <1>6, Zenon DEF ThreadInv

\* run() returns in the middle of the body, to be resumed at this line.
LEMMA Leaves ==
  ASSUME Len(Body) \in Nat, ThreadInv, line \in Task!Lines,
         \/ passed' = passed /\ Body[line] = "wait"
         \/ passed' = Append(passed, line) /\ Body[line] \in {"yield", "switch"},
         Task!Returns(line, FALSE), UNCHANGED ended
  PROVE  ThreadInv'
<1>1. line \in Nat /\ line > 0 /\ line <= Len(Body)
  BY DEF Task!Lines
<1>2. ended = FALSE /\ Len(passed) = line - 1
  BY <1>1, Zenon DEF ThreadInv, ThreadTypes, DoneAtEnd, PassedUpTo
<1>3. pt_line_' = line /\ line' = 0 /\ returned' = FALSE /\ halted' = halted
  BY Zenon DEF Task!Returns
<1>4. /\ ~(line' > 0) /\ line' \in 0 .. Len(Body) + 1 /\ pt_line_' # 0
      /\ pt_line_' \in -1 .. Len(Body) /\ ~(pt_line_' < 0)
  BY <1>1, <1>3
<1>5. passed' \in Seq(Task!Lines) /\ \A i \in 1 .. Len(passed') : passed'[i] = i
  BY LinePassed, Zenon DEF ThreadInv, ThreadTypes, PassedUpTo
<1>6. ThreadTypes'
  BY <1>3, <1>4, <1>5, ZenonT(60) DEF ThreadInv, ThreadTypes
<1>7. line \in Task!Labels => Len(passed') = IF Body[line] = "yield" THEN line ELSE line - 1
  <2>1. CASE passed' = passed /\ Body[line] = "wait"
    BY <1>2, <2>1
  <2>2. CASE passed' = Append(passed, line) /\ Body[line] = "yield"
    BY <2>2, LinePassed, ZenonT(60)
  <2>3. CASE Body[line] = "switch"
    BY <2>3 DEF Task!Labels
  <2> QED
    BY <2>1, <2>2, <2>3, Zenon
<1>8. PassedUpTo'
  BY <1>3, <1>4, <1>5, <1>7, Zenon DEF PassedUpTo, Task!Labels, Task!Lines
<1>9. DoneAtEnd'
  <2>1. ended' = FALSE
    BY <1>2, Zenon
  <2> QED
    BY <1>4, <2>1, ZenonT(60) DEF DoneAtEnd, Task!is_done
<1> QED
  BY <1>6, <1>8, <1>9, Zenon DEF ThreadInv

\* The body ends, or begins again.
LEMMA Finishes ==
  ASSUME Len(Body) \in Nat, ThreadInv, line > 0, ~halted,
         Task!Returns(-1, TRUE), ended' = TRUE, UNCHANGED passed
  PROVE  ThreadInv'
<1>1. pt_line_' = -1 /\ line' = 0 /\ returned' = TRUE /\ halted' = halted
  BY Zenon DEF Task!Returns
<1>2. /\ pt_line_' # 0 /\ pt_line_' \in -1 .. Len(Body) /\ pt_line_' < 0
      /\ ~(line' > 0) /\ line' \in 0 .. Len(Body) + 1
  BY <1>1
<1>3. pt_line_' \notin Task!Lines
  BY <1>1 DEF Task!Lines
<1> QED
  BY <1>1, <1>2, <1>3, Zenon
    DEF ThreadInv, ThreadTypes, PassedUpTo, DoneAtEnd, Task!is_done, Task!Labels, Task!Lines

LEMMA Restarts ==
  ASSUME Len(Body) \in Nat, ThreadInv, passed' = <<>>, pt_line_' = 0, line' = 0,
         ended' = FALSE, returned' \in BOOLEAN, halted' = halted
  PROVE  ThreadInv'
<1>1. /\ pt_line_' \in -1 .. Len(Body) /\ ~(pt_line_' < 0)
      /\ ~(line' > 0) /\ line' \in 0 .. Len(Body) + 1
  OBVIOUS
<1>2. pt_line_' \notin Task!Lines
  BY DEF Task!Lines
<1>3. passed' \in Seq(Task!Lines) /\ Len(passed') = 0 /\ \A i \in 1 .. Len(passed') : FALSE
  OBVIOUS
<1> QED
  BY <1>1, <1>2, <1>3, ZenonT(60)
    DEF ThreadInv, ThreadTypes, PassedUpTo, DoneAtEnd, Task!is_done, Task!Labels, Task!Lines

\* run() begins or resumes.
LEMMA Begins ==
  ASSUME Len(Body) \in Nat, ThreadInv, Task!METL_PT_BEGIN
  PROVE  ThreadInv'
<1>1. line = 0 /\ passed' = passed /\ ended' = ended /\ pt_line_ \in -1 .. Len(Body)
  BY Zenon DEF Task!METL_PT_BEGIN, ThreadInv, ThreadTypes
<1>2. CASE pt_line_ = 0 \/ pt_line_ \in Task!Labels
  <2>1. /\ line' = IF pt_line_ = 0 THEN 1
                   ELSE IF Body[pt_line_] = "yield" THEN pt_line_ + 1 ELSE pt_line_
        /\ pt_line_' = pt_line_ /\ returned' = returned /\ halted' = halted
    BY <1>2, Zenon DEF Task!METL_PT_BEGIN
  <2>2. pt_line_ # 0 => pt_line_ \in Task!Labels /\ pt_line_ \in 1 .. Len(Body)
    BY <1>2, Zenon DEF Task!Labels, Task!Lines
  <2>3. /\ pt_line_ = 0 => Len(passed) = 0
        /\ pt_line_ # 0 => Len(passed) = IF Body[pt_line_] = "yield" THEN pt_line_ ELSE pt_line_ - 1
    BY <1>1, <2>2, Zenon DEF ThreadInv, PassedUpTo
  <2>4. /\ line' > 0 /\ line' # 0 /\ Len(passed) = line' - 1 /\ line' \in 0 .. Len(Body) + 1
        /\ ~(pt_line_ < 0)
    BY <2>1, <2>2, <2>3
  <2>5. ~ended'
    BY <1>1, <2>4, Zenon DEF ThreadInv, DoneAtEnd, Task!is_done
  <2>6. ThreadTypes'
    BY <1>1, <2>1, <2>4, Zenon DEF ThreadInv, ThreadTypes
  <2>7. PassedUpTo'
    BY <1>1, <2>4, Zenon DEF ThreadInv, PassedUpTo
  <2>8. DoneAtEnd'
    BY <2>1, <2>4, <2>5, Zenon DEF DoneAtEnd, Task!is_done
  <2> QED
    BY <2>6, <2>7, <2>8, Zenon DEF ThreadInv
<1>3. CASE ~(pt_line_ = 0 \/ pt_line_ \in Task!Labels) /\ pt_line_ >= 0
  <2>1. halted' = TRUE /\ UNCHANGED <<pt_line_, line, returned>>
    BY <1>3, Zenon DEF Task!METL_PT_BEGIN
  <2>2. ~(pt_line_ < 0)
    BY <1>1, <1>3
  <2>3. ~ended'
    BY <1>1, <2>2, Zenon DEF ThreadInv, DoneAtEnd, Task!is_done
  <2> QED
    BY <1>1, <2>1, <2>2, <2>3, Zenon
      DEF ThreadInv, ThreadTypes, PassedUpTo, DoneAtEnd, Task!is_done, Task!Labels
<1>4. CASE ~(pt_line_ = 0 \/ pt_line_ \in Task!Labels) /\ ~(pt_line_ >= 0)
  <2>1. pt_line_' = -1 /\ returned' = TRUE /\ UNCHANGED <<line, halted>>
    BY <1>4, Zenon DEF Task!METL_PT_BEGIN
  <2>2. pt_line_ = -1
    BY <1>1, <1>4
  <2> QED
    BY <1>1, <2>1, <2>2, Zenon
      DEF ThreadInv, ThreadTypes, PassedUpTo, DoneAtEnd, Task!is_done, Task!Labels
<1> QED
  BY <1>2, <1>3, <1>4, Zenon

\* The statements of the body.
LEMMA BodyStep ==
  ASSUME Len(Body) \in Nat, ThreadInv,
         \/ Task!Work \/ Task!METL_PT_YIELD
         \/ \E cond \in BOOLEAN :
              \/ Task!METL_PT_WAIT_UNTIL(cond) \/ Task!METL_PT_RESTART(cond)
              \/ Task!METL_PT_EXIT(cond) \/ Task!InnerSwitch(cond)
  PROVE  ThreadInv'
<1>1. CASE Task!Work
  BY <1>1, GoesOn, Zenon DEF Task!Work, Task!At, Task!Passes
<1>2. CASE Task!METL_PT_YIELD
  BY <1>2, Leaves, Zenon DEF Task!METL_PT_YIELD, Task!At, Task!Passes
<1>3. ASSUME NEW cond \in BOOLEAN, Task!METL_PT_WAIT_UNTIL(cond) PROVE ThreadInv'
  <2>1. CASE cond
    BY <1>3, <2>1, GoesOn, Zenon DEF Task!METL_PT_WAIT_UNTIL, Task!At, Task!Passes
  <2>2. CASE ~cond
    BY <1>3, <2>2, Leaves, Zenon DEF Task!METL_PT_WAIT_UNTIL, Task!At
  <2> QED
    BY <2>1, <2>2, Zenon
<1>4. ASSUME NEW cond \in BOOLEAN, Task!METL_PT_RESTART(cond) PROVE ThreadInv'
  <2>1. line \in Task!Lines /\ line > 0
    BY <1>4 DEF Task!METL_PT_RESTART, Task!At, Task!Lines
  <2>2. CASE cond
    <3>1. ended' = FALSE
      BY <1>4, <2>1, Zenon DEF Task!METL_PT_RESTART, ThreadInv, ThreadTypes, DoneAtEnd
    <3> QED
      BY <1>4, <2>2, <3>1, Restarts, Zenon DEF Task!METL_PT_RESTART, Task!Returns
  <2>3. CASE ~cond
    BY <1>4, <2>3, GoesOn, Zenon DEF Task!METL_PT_RESTART, Task!At, Task!Passes
  <2> QED
    BY <2>2, <2>3, Zenon
<1>5. ASSUME NEW cond \in BOOLEAN, Task!METL_PT_EXIT(cond) PROVE ThreadInv'
  <2>1. line \in Task!Lines /\ line > 0 /\ ~halted
    BY <1>5 DEF Task!METL_PT_EXIT, Task!At, Task!Lines, Task!OfProtothread
  <2>2. CASE cond
    BY <1>5, <2>1, <2>2, Finishes, Zenon DEF Task!METL_PT_EXIT
  <2>3. CASE ~cond
    BY <1>5, <2>3, GoesOn, Zenon DEF Task!METL_PT_EXIT, Task!At, Task!Passes
  <2> QED
    BY <2>2, <2>3, Zenon
<1>6. ASSUME NEW cond \in BOOLEAN, Task!InnerSwitch(cond) PROVE ThreadInv'
  <2>1. CASE cond
    BY <1>6, <2>1, Leaves, Zenon DEF Task!InnerSwitch, Task!At, Task!Passes
  <2>2. CASE ~cond
    BY <1>6, <2>2, GoesOn, Zenon DEF Task!InnerSwitch, Task!At, Task!Passes
  <2> QED
    BY <2>1, <2>2, Zenon
<1> QED
  BY <1>1, <1>2, <1>3, <1>4, <1>5, <1>6, Zenon

(***************************************************************************)
(* For every body and every nesting of calls: a stepper is done, or        *)
(* failed, exactly when a step since its last reset said so; a protothread *)
(* passes the lines of its body once each and in order however it is left  *)
(* and resumed, and reports done exactly when the body has ended, never    *)
(* because its resume point is not a label of its switch                   *)
(* (coro/stepper.hpp:76-100, coro/protothread.hpp:36-37, 94-148).          *)
(***************************************************************************)
THEOREM TasksSafe ==
  ASSUME Body \in Seq(STRING)
  PROVE  Task!Spec => [](Task!TypeOK /\ Task!TasksExact)
<1>1. Len(Body) \in Nat
  BY SeqFacts
<1>2. Task!Init => StepperInv /\ ThreadInv
  <2> SUFFICES ASSUME Task!Init PROVE StepperInv /\ ThreadInv
    BY Zenon
  <2>1. StepperInv
    <3>1. <<>> \in Seq(StepKinds)
      OBVIOUS
    <3> QED
      BY <3>1, Zenon DEF Task!Init, StepperInv
  <2>2. /\ pt_line_ = 0 /\ line = 0 /\ passed = <<>> /\ ended = FALSE
        /\ returned = FALSE /\ halted = FALSE
    BY Zenon DEF Task!Init
  <2>3. /\ pt_line_ \in -1 .. Len(Body) /\ ~(pt_line_ < 0) /\ pt_line_ \notin Task!Lines
        /\ line \in 0 .. Len(Body) + 1 /\ ~(line > 0)
        /\ passed \in Seq(Task!Lines) /\ Len(passed) = 0 /\ \A i \in 1 .. Len(passed) : FALSE
    BY <1>1, <2>2 DEF Task!Lines
  <2> QED
    BY <2>1, <2>2, <2>3, Zenon
      DEF ThreadInv, ThreadTypes, PassedUpTo, DoneAtEnd, Task!is_done, Task!Labels
<1>3. StepperInv /\ ThreadInv /\ [Task!Next]_Task!vars => StepperInv' /\ ThreadInv'
  <2> SUFFICES ASSUME StepperInv, ThreadInv, [Task!Next]_Task!vars
               PROVE  StepperInv' /\ ThreadInv'
    BY Zenon
  <2>1. ASSUME UNCHANGED Task!stepper PROVE StepperInv'
    BY <2>1, Zenon DEF Task!stepper, StepperInv
  <2>2. ASSUME UNCHANGED Task!protothread, UNCHANGED halted PROVE ThreadInv'
    BY <2>2, Zenon DEF Task!protothread, ThreadInv, ThreadTypes, PassedUpTo, DoneAtEnd, Task!is_done
  <2>3. CASE \/ Task!poll \/ Task!reset \/ Task!OnResetReturns
             \/ \E r \in {"yield", "done", "error"} : Task!StepReturns(r)
    <3>1. UNCHANGED <<Task!protothread, halted>>
      BY <2>3, Zenon DEF Task!poll, Task!reset, Task!OnResetReturns, Task!StepReturns,
        Task!OfStepper
    <3> QED
      BY <2>2, <2>3, <3>1, StepperStep, Zenon
  <2>4. CASE Task!METL_PT_BEGIN
    BY <1>1, <2>1, <2>4, Begins, Zenon DEF Task!METL_PT_BEGIN, Task!OfProtothread
  <2>5. CASE \/ Task!Work \/ Task!METL_PT_YIELD
             \/ \E cond \in BOOLEAN :
                  \/ Task!METL_PT_WAIT_UNTIL(cond) \/ Task!METL_PT_RESTART(cond)
                  \/ Task!METL_PT_EXIT(cond) \/ Task!InnerSwitch(cond)
    <3>1. UNCHANGED Task!stepper
      BY <2>5, Zenon DEF Task!Work, Task!METL_PT_YIELD, Task!METL_PT_WAIT_UNTIL,
        Task!METL_PT_RESTART, Task!METL_PT_EXIT, Task!InnerSwitch, Task!At, Task!OfProtothread
    <3> QED
      BY <1>1, <2>1, <2>5, <3>1, BodyStep, Zenon
  <2>6. CASE Task!METL_PT_END
    <3>1. line > 0 /\ ~halted /\ UNCHANGED Task!stepper
      BY <1>1, <2>6 DEF Task!METL_PT_END, Task!OfProtothread
    <3> QED
      BY <1>1, <2>1, <2>6, <3>1, Finishes, Zenon DEF Task!METL_PT_END
  <2>7. CASE Task!pt_reset
    BY <1>1, <2>1, <2>7, Restarts, Zenon
      DEF Task!pt_reset, Task!OfProtothread, ThreadInv, ThreadTypes
  <2>8. CASE Task!Stopped \/ UNCHANGED Task!vars
    BY <2>1, <2>2, <2>8, ZenonT(60) DEF Task!Stopped, Task!vars
  <2> QED
    BY <2>3, <2>4, <2>5, <2>6, <2>7, <2>8, Zenon DEF Task!Next
<1> QED
  BY <1>2, <1>3, TaskInvs, PTL DEF Task!Spec

-----------------------------------------------------------------------------
(***************************************************************************)
(* The state machine: MachineInv says where its exit hook can be running   *)
(* and which dispatch owes the current state its entry.                    *)
(***************************************************************************)
CONSTANTS States, Events, Transitions, initial_state, NoState

VARIABLES current_state_, entered_, exiting_, dispatches, hooked, paired, thrown

Machine == INSTANCE Fsm WITH stack <- dispatches

MachineFrames == [pc : {"exit", "action", "entry"}, next : States]

\* The rules lead from state to state.
RulesOK == initial_state \in States /\ \A i \in DOMAIN Transitions : Transitions[i].to \in States

Leads(from, to) == \E i \in DOMAIN Transitions : Transitions[i].from = from /\ Transitions[i].to = to

\* An exit hook runs innermost and only while the machine is leaving, along a
\* rule; a state that awaits its entry is the target of a running action.
ExitsOnTop ==
  \A k \in 1 .. Len(dispatches) :
    dispatches[k].pc = "exit" => /\ k = Len(dispatches) /\ exiting_
                                 /\ Leads(current_state_, dispatches[k].next)
EntryAwaited ==
  ~entered_ /\ ~thrown =>
    \E k \in 1 .. Len(dispatches) :
      dispatches[k].pc = "action" /\ dispatches[k].next = current_state_

MachineInv ==
  /\ Machine!TypeOK /\ Machine!HooksPaired
  /\ exiting_ => entered_ /\ Machine!At("exit")
  /\ ExitsOnTop /\ EntryAwaited

LEMMA MachineTyped ==
  ASSUME MachineInv
  PROVE  /\ dispatches \in Seq(MachineFrames)
         /\ current_state_ \in States /\ entered_ \in BOOLEAN /\ exiting_ \in BOOLEAN
         /\ hooked \in States \cup {NoState} /\ paired = TRUE /\ thrown \in BOOLEAN
         /\ hooked = IF entered_ /\ ~exiting_ THEN current_state_ ELSE NoState
BY Zenon DEF MachineInv, Machine!TypeOK, Machine!HooksPaired, MachineFrames

\* What a step has to establish.
LEMMA MachineKept ==
  ASSUME dispatches' \in Seq(MachineFrames),
         current_state_' \in States, entered_' \in BOOLEAN, exiting_' \in BOOLEAN,
         hooked' \in States \cup {NoState}, paired' = TRUE, thrown' \in BOOLEAN,
         hooked' = IF entered_' /\ ~exiting_' THEN current_state_' ELSE NoState,
         exiting_' => entered_' /\ dispatches' # <<>> /\ dispatches'[Len(dispatches')].pc = "exit",
         ExitsOnTop', EntryAwaited'
  PROVE  MachineInv'
BY Zenon DEF MachineInv, Machine!TypeOK, Machine!HooksPaired, MachineFrames, Machine!At, Machine!Top

\* Outside an exit hook no dispatch in progress is in one.
LEMMA NoExits ==
  ASSUME MachineInv, ~exiting_
  PROVE  \A k \in 1 .. Len(dispatches) : dispatches[k].pc # "exit"
BY Zenon DEF MachineInv, ExitsOnTop

LEMMA InCallback ==
  ASSUME MachineInv, NEW pc \in {"action", "entry"}, Machine!At(pc)
  PROVE  ~exiting_
BY Zenon DEF MachineInv, Machine!At

LEMMA DispatchStep ==
  ASSUME RulesOK, MachineInv, NEW event \in Events, Machine!dispatch(event)
  PROVE  MachineInv'
<1>1. PICK i \in DOMAIN Transitions :
        /\ Transitions[i].from = current_state_ /\ ~exiting_
        /\ IF entered_
           THEN /\ exiting_' = TRUE
                /\ dispatches' = Append(dispatches, [pc |-> "exit", next |-> Transitions[i].to])
                /\ hooked' = NoState /\ paired' = (paired /\ hooked = current_state_)
                /\ UNCHANGED <<current_state_, entered_, thrown>>
           ELSE /\ current_state_' = Transitions[i].to /\ entered_' = FALSE
                /\ dispatches' = Append(dispatches, [pc |-> "action", next |-> Transitions[i].to])
                /\ UNCHANGED <<exiting_, hooked, paired, thrown>>
  BY Zenon DEF Machine!dispatch, Machine!find_transition, Machine!RunsExitHook
<1>2. Transitions[i].to \in States
  BY Zenon DEF RulesOK
<1>3. PICK s, n : s = dispatches /\ n = Len(dispatches) + 1 /\ s \in Seq(MachineFrames)
  BY MachineTyped, Zenon
<1>4. n \in 1 .. n /\ \A k \in 1 .. n : k = n \/ k \in 1 .. Len(s)
  BY <1>3, SeqFacts, SMTT(60)
<1>5. CASE entered_
  <2>1. PICK x \in MachineFrames : x = [pc |-> "exit", next |-> Transitions[i].to]
    BY <1>2, Zenon DEF MachineFrames
  <2>2. x.pc = "exit" /\ x.next = Transitions[i].to
    BY <2>1
  <2>3. dispatches' = Append(s, x)
    BY <1>1, <1>3, <1>5, <2>1, Zenon
  <2>4. /\ dispatches' \in Seq(MachineFrames) /\ Len(dispatches') = n /\ dispatches'[n] = x
        /\ \A k \in 1 .. Len(s) : dispatches'[k] = dispatches[k]
    <3>1. /\ Append(s, x) \in Seq(MachineFrames) /\ Len(Append(s, x)) = Len(s) + 1
          /\ Append(s, x)[Len(s) + 1] = x /\ \A k \in 1 .. Len(s) : Append(s, x)[k] = s[k]
      BY <1>3, Pushed, SMTT(60)
    <3> QED
      BY <1>3, <2>3, <3>1, ZenonT(60)
  <2>5. dispatches' # <<>> /\ dispatches'[Len(dispatches')].pc = "exit"
    <3>1. Len(dispatches') # 0
      BY <1>4, <2>4, SMTT(60)
    <3> QED
      BY <2>2, <2>4, <3>1, SeqFacts, ZenonT(60)
  <2>6. ExitsOnTop'
    BY <1>1, <1>3, <1>4, <1>5, <2>2, <2>4, NoExits, ZenonT(60) DEF ExitsOnTop, Leads
  <2>7. EntryAwaited'
    BY <1>1, <1>5, Zenon DEF EntryAwaited
  <2> QED
    BY <1>1, <1>5, <2>4, <2>5, <2>6, <2>7, MachineTyped, MachineKept, ZenonT(60)
<1>6. CASE ~entered_
  <2>1. PICK x \in MachineFrames : x = [pc |-> "action", next |-> Transitions[i].to]
    BY <1>2, Zenon DEF MachineFrames
  <2>2. x.pc = "action" /\ x.next = Transitions[i].to
    BY <2>1
  <2>3. dispatches' = Append(s, x)
    BY <1>1, <1>3, <1>6, <2>1, Zenon
  <2>4. /\ dispatches' \in Seq(MachineFrames) /\ Len(dispatches') = n /\ dispatches'[n] = x
        /\ \A k \in 1 .. Len(s) : dispatches'[k] = dispatches[k]
    <3>1. /\ Append(s, x) \in Seq(MachineFrames) /\ Len(Append(s, x)) = Len(s) + 1
          /\ Append(s, x)[Len(s) + 1] = x /\ \A k \in 1 .. Len(s) : Append(s, x)[k] = s[k]
      BY <1>3, Pushed
    <3> QED
      BY <1>3, <2>3, <3>1, ZenonT(60)
  <2>5. \A k \in 1 .. Len(dispatches') : dispatches'[k].pc # "exit"
    BY <1>1, <1>3, <1>4, <2>2, <2>4, NoExits, ZenonT(60)
  <2>6. ExitsOnTop'
    BY <2>5, Zenon DEF ExitsOnTop
  <2>7. EntryAwaited'
    BY <1>1, <1>4, <1>6, <2>2, <2>4, Zenon DEF EntryAwaited
  <2> QED
    BY <1>1, <1>2, <1>6, <2>4, <2>6, <2>7, MachineTyped, MachineKept, ZenonT(60)
<1> QED
  BY <1>5, <1>6, Zenon
\* The innermost frame, and the stack below it.
LEMMA MachineTop ==
  ASSUME MachineInv, dispatches # <<>>
  PROVE  /\ dispatches \in Seq(MachineFrames) /\ Len(dispatches) \in 1 .. Len(dispatches)
         /\ Machine!Top = dispatches[Len(dispatches)] /\ Machine!Top \in MachineFrames
         /\ Machine!Below = SubSeq(dispatches, 1, Len(dispatches) - 1)
<1>1. dispatches \in Seq(MachineFrames)
  BY MachineTyped, Zenon
<1>2. Len(dispatches) \in 1 .. Len(dispatches) /\ dispatches[Len(dispatches)] \in MachineFrames
  BY <1>1, Popped, Zenon
<1> QED
  BY <1>1, <1>2, Zenon DEF Machine!Top, Machine!Below

LEMMA MachineGoesOn ==
  ASSUME NEW f \in MachineFrames, NEW pc \in {"exit", "action", "entry"}
  PROVE  /\ [f EXCEPT !.pc = pc] \in MachineFrames
         /\ [f EXCEPT !.pc = pc].pc = pc /\ [f EXCEPT !.pc = pc].next = f.next
BY DEF MachineFrames

LEMMA MachineSwaps ==
  ASSUME MachineInv, dispatches # <<>>, NEW x \in MachineFrames,
         dispatches' = Append(Machine!Below, x)
  PROVE  /\ dispatches' \in Seq(MachineFrames) /\ Len(dispatches') = Len(dispatches)
         /\ dispatches'[Len(dispatches)] = x
         /\ \A k \in 1 .. Len(dispatches) : k # Len(dispatches) => dispatches'[k] = dispatches[k]
<1>1. PICK s \in Seq(MachineFrames) : s = dispatches
  BY MachineTop, Zenon
<1>2. dispatches' = Swap(s, x) /\ s # <<>>
  BY <1>1, Zenon DEF Machine!Below, Swap
<1>3. /\ Swap(s, x) \in Seq(MachineFrames) /\ Len(Swap(s, x)) = Len(s)
      /\ Swap(s, x)[Len(s)] = x
      /\ \A k \in 1 .. Len(s) : k # Len(s) => Swap(s, x)[k] = s[k]
  BY <1>2, Swapped, ZenonT(60)
<1> QED
  BY <1>1, <1>2, <1>3, Zenon

LEMMA ExitHookReturnsStep ==
  ASSUME MachineInv, Machine!ExitHookReturns
  PROVE  MachineInv'
<1>1. /\ dispatches # <<>> /\ Machine!Top.pc = "exit"
      /\ exiting_' = FALSE /\ current_state_' = Machine!Top.next /\ entered_' = FALSE
      /\ dispatches' = Append(Machine!Below, [Machine!Top EXCEPT !.pc = "action"])
      /\ UNCHANGED <<hooked, paired, thrown>>
  BY Zenon DEF Machine!ExitHookReturns, Machine!At, Machine!SetTop
<1>2. /\ dispatches \in Seq(MachineFrames) /\ Len(dispatches) \in 1 .. Len(dispatches)
      /\ Machine!Top = dispatches[Len(dispatches)] /\ Machine!Top \in MachineFrames
  BY <1>1, MachineTop, Zenon
<1>3. PICK x \in MachineFrames : /\ x = [Machine!Top EXCEPT !.pc = "action"]
                                /\ x.pc = "action" /\ x.next = Machine!Top.next
  BY <1>2, MachineGoesOn, ZenonT(60)
<1>4. dispatches' = Append(Machine!Below, x)
  BY <1>1, <1>3, Zenon
<1>5. /\ dispatches' \in Seq(MachineFrames) /\ Len(dispatches') = Len(dispatches)
      /\ dispatches'[Len(dispatches)] = x
      /\ \A k \in 1 .. Len(dispatches) : k # Len(dispatches) => dispatches'[k] = dispatches[k]
  BY <1>1, <1>4, MachineSwaps, Zenon
<1>6. exiting_ /\ hooked = NoState
  BY <1>1, <1>2, MachineTyped, Zenon DEF MachineInv, ExitsOnTop
<1>7. \A k \in 1 .. Len(dispatches') : dispatches'[k].pc # "exit"
  BY <1>3, <1>5, ZenonT(60) DEF MachineInv, ExitsOnTop
<1>8. ExitsOnTop'
  BY <1>7, Zenon DEF ExitsOnTop
<1>9. EntryAwaited'
  BY <1>1, <1>2, <1>3, <1>5, ZenonT(60) DEF EntryAwaited
<1>10. Machine!Top.next \in States
  BY <1>2, Zenon DEF MachineFrames
<1> QED
  BY <1>1, <1>5, <1>6, <1>8, <1>9, <1>10, MachineTyped, MachineKept, Zenon

\* A dispatch ends: the frames below it stay.
LEMMA MachinePops ==
  ASSUME MachineInv, dispatches # <<>>, dispatches' = Machine!Below
  PROVE  /\ dispatches' \in Seq(MachineFrames)
         /\ \A k : k \in 1 .. Len(dispatches') <=> k \in 1 .. Len(dispatches) /\ k # Len(dispatches)
         /\ \A k \in 1 .. Len(dispatches') : dispatches'[k] = dispatches[k]
<1>1. PICK s \in Seq(MachineFrames) : s = dispatches
  BY MachineTop, Zenon
<1>2. dispatches' = SubSeq(s, 1, Len(s) - 1) /\ s # <<>>
  BY <1>1, MachineTop, Zenon
<1>3. /\ SubSeq(s, 1, Len(s) - 1) \in Seq(MachineFrames)
      /\ Len(SubSeq(s, 1, Len(s) - 1)) = Len(s) - 1
      /\ \A k \in 1 .. Len(s) - 1 : SubSeq(s, 1, Len(s) - 1)[k] = s[k]
      /\ \A k : k \in 1 .. Len(s) - 1 <=> k \in 1 .. Len(s) /\ k # Len(s)
  BY <1>2, Popped, Zenon
<1> QED
  BY <1>1, <1>2, <1>3, Zenon

LEMMA ActionReturnsStep ==
  ASSUME MachineInv, Machine!ActionReturns
  PROVE  MachineInv'
<1>1. /\ dispatches # <<>> /\ Machine!Top.pc = "action" /\ ~exiting_
      /\ UNCHANGED <<current_state_, exiting_>>
  BY InCallback, Zenon DEF Machine!ActionReturns, Machine!At
<1>2. /\ dispatches \in Seq(MachineFrames) /\ Len(dispatches) \in 1 .. Len(dispatches)
      /\ Machine!Top = dispatches[Len(dispatches)] /\ Machine!Top \in MachineFrames
  BY <1>1, MachineTop, Zenon
<1>3. CASE Machine!RunsEntryHook
  <2>1. /\ ~entered_ /\ current_state_ = Machine!Top.next
        /\ entered_' = TRUE /\ dispatches' = Append(Machine!Below, [Machine!Top EXCEPT !.pc = "entry"])
        /\ hooked' = Machine!Top.next /\ paired' = (paired /\ hooked = NoState) /\ thrown' = FALSE
    BY <1>3, Zenon DEF Machine!ActionReturns, Machine!RunsEntryHook, Machine!SetTop
  <2>2. PICK x \in MachineFrames : x = [Machine!Top EXCEPT !.pc = "entry"] /\ x.pc = "entry"
    BY <1>2, MachineGoesOn, ZenonT(60)
  <2>3. dispatches' = Append(Machine!Below, x)
    BY <2>1, <2>2, Zenon
  <2>4. /\ dispatches' \in Seq(MachineFrames) /\ Len(dispatches') = Len(dispatches)
        /\ dispatches'[Len(dispatches)] = x
        /\ \A k \in 1 .. Len(dispatches) : k # Len(dispatches) => dispatches'[k] = dispatches[k]
    BY <1>1, <2>3, MachineSwaps, Zenon
  <2>5. \A k \in 1 .. Len(dispatches') : dispatches'[k].pc # "exit"
    BY <1>1, <2>2, <2>4, NoExits, Zenon
  <2>6. ExitsOnTop'
    BY <2>5, Zenon DEF ExitsOnTop
  <2>7. EntryAwaited'
    BY <2>1, Zenon DEF EntryAwaited
  <2> QED
    BY <1>1, <2>1, <2>4, <2>6, <2>7, MachineTyped, MachineKept, ZenonT(60)
<1>4. CASE ~Machine!RunsEntryHook
  <2>1. /\ dispatches' = Machine!Below /\ UNCHANGED <<entered_, hooked, paired, thrown>>
        /\ ~(~entered_ /\ current_state_ = Machine!Top.next)
    BY <1>4, Zenon DEF Machine!ActionReturns, Machine!RunsEntryHook
  <2>2. /\ dispatches' \in Seq(MachineFrames)
        /\ \A k : k \in 1 .. Len(dispatches') <=> k \in 1 .. Len(dispatches) /\ k # Len(dispatches)
        /\ \A k \in 1 .. Len(dispatches') : dispatches'[k] = dispatches[k]
    BY <1>1, <2>1, MachinePops, Zenon
  <2>3. ExitsOnTop'
    BY <1>1, <2>2, NoExits, Zenon DEF ExitsOnTop
  <2>4. EntryAwaited'
    BY <1>1, <1>2, <2>1, <2>2, ZenonT(60) DEF MachineInv, EntryAwaited
  <2> QED
    BY <1>1, <2>1, <2>2, <2>3, <2>4, MachineTyped, MachineKept, ZenonT(60)
<1> QED
  BY <1>3, <1>4, Zenon

LEMMA CallbackEndsStep ==
  ASSUME MachineInv, Machine!ActionThrows \/ Machine!EntryHookReturns
  PROVE  MachineInv'
<1>1. /\ dispatches # <<>> /\ ~exiting_ /\ dispatches' = Machine!Below
      /\ thrown' \in BOOLEAN /\ (thrown' \/ ((thrown' <=> thrown) /\ Machine!Top.pc = "entry"))
      /\ UNCHANGED <<current_state_, entered_, exiting_, hooked, paired>>
  <2>1. thrown \in BOOLEAN
    BY MachineTyped, Zenon
  <2>2. CASE Machine!ActionThrows
    BY <2>2, InCallback, Zenon DEF Machine!ActionThrows, Machine!At
  <2>3. CASE Machine!EntryHookReturns
    <3>1. ~exiting_
      BY <2>3, InCallback, Zenon DEF Machine!EntryHookReturns
    <3> QED
      BY <2>1, <2>3, <3>1, Zenon DEF Machine!EntryHookReturns, Machine!At
  <2> QED
    BY <2>2, <2>3, Zenon
<1>2. Machine!Top = dispatches[Len(dispatches)]
  BY Zenon DEF Machine!Top
<1>3. /\ dispatches' \in Seq(MachineFrames)
      /\ \A k : k \in 1 .. Len(dispatches') <=> k \in 1 .. Len(dispatches) /\ k # Len(dispatches)
      /\ \A k \in 1 .. Len(dispatches') : dispatches'[k] = dispatches[k]
  BY <1>1, MachinePops, ZenonT(60)
<1>4. ExitsOnTop'
  BY <1>1, <1>3, NoExits, Zenon DEF ExitsOnTop
<1>5. EntryAwaited'
  <2> SUFFICES ASSUME ~entered_', ~thrown'
               PROVE  \E k \in 1 .. Len(dispatches') :
                        dispatches'[k].pc = "action" /\ dispatches'[k].next = current_state_'
    BY Zenon DEF EntryAwaited
  <2>1. ~entered_ /\ ~thrown /\ Machine!Top.pc = "entry"
    BY <1>1, Zenon
  <2>2. PICK k \in 1 .. Len(dispatches) :
          dispatches[k].pc = "action" /\ dispatches[k].next = current_state_
    BY <2>1, Zenon DEF MachineInv, EntryAwaited
  <2>3. k # Len(dispatches)
    BY <1>2, <2>1, <2>2, ZenonT(60)
  <2>4. k \in 1 .. Len(dispatches') /\ dispatches'[k] = dispatches[k]
    BY <1>3, <2>3, SMTT(60)
  <2> QED
    BY <1>1, <2>2, <2>4, ZenonT(60)
<1> QED
  BY <1>1, <1>3, <1>4, <1>5, MachineTyped, MachineKept, ZenonT(60)

(***************************************************************************)
(* For every rule table and every nesting of dispatches from actions and   *)
(* entry hooks, throwing actions included: entry and exit hooks alternate  *)
(* on one state, a machine at rest has entered its state unless an action  *)
(* threw, and the state changes only along a rule                          *)
(* (fsm.hpp:103-126, 142-157, 182-184).                                    *)
(***************************************************************************)
THEOREM MachineSafe ==
  ASSUME RulesOK
  PROVE  Machine!Spec => /\ [](Machine!HooksPaired /\ Machine!EnteredWhenIdle)
                         /\ Machine!StepsAlongRules
<1>1. Machine!Init => MachineInv
  <2> SUFFICES ASSUME Machine!Init
               PROVE  MachineInv
    BY Zenon
  <2>1. dispatches = <<>> /\ current_state_ = initial_state /\ entered_ = TRUE /\ exiting_ = FALSE
    BY Zenon DEF Machine!Init
  <2>2. dispatches \in Seq(MachineFrames) /\ \A k \in 1 .. Len(dispatches) : FALSE
    BY <2>1
  <2>3. Machine!TypeOK /\ Machine!HooksPaired
    BY <2>1, <2>2, Zenon DEF Machine!Init, RulesOK, Machine!TypeOK, Machine!HooksPaired, MachineFrames
  <2> QED
    BY <2>1, <2>2, <2>3, Zenon DEF MachineInv, ExitsOnTop, EntryAwaited
<1>2. MachineInv /\ [Machine!Next]_(Machine!vars) => MachineInv' /\ [Machine!AlongRule]_(Machine!vars)
  <2> SUFFICES ASSUME MachineInv, [Machine!Next]_(Machine!vars)
               PROVE  MachineInv' /\ [Machine!AlongRule]_(Machine!vars)
    BY Zenon
  <2>1. ASSUME NEW event \in Events, Machine!dispatch(event)
        PROVE  MachineInv' /\ Machine!AlongRule
    <3>1. Machine!AlongRule
      BY <2>1, Zenon DEF Machine!dispatch, Machine!find_transition, Machine!AlongRule
    <3> QED
      BY <2>1, <3>1, DispatchStep, Zenon
  <2>2. CASE Machine!ExitHookReturns
    <3>1. dispatches # <<>> /\ Machine!Top.pc = "exit" /\ current_state_' = Machine!Top.next
      BY <2>2, Zenon DEF Machine!ExitHookReturns, Machine!At
    <3>2. Leads(current_state_, Machine!Top.next)
      BY <3>1, MachineTop, Zenon DEF MachineInv, ExitsOnTop
    <3>3. Machine!AlongRule
      BY <3>1, <3>2, Zenon DEF Machine!AlongRule, Leads
    <3> QED
      BY <2>2, <3>3, ExitHookReturnsStep, Zenon
  <2>3. CASE Machine!ActionReturns
    BY <2>3, ActionReturnsStep, Zenon DEF Machine!ActionReturns, Machine!AlongRule
  <2>4. CASE Machine!ActionThrows \/ Machine!EntryHookReturns
    BY <2>4, CallbackEndsStep, Zenon
      DEF Machine!ActionThrows, Machine!EntryHookReturns, Machine!AlongRule
  <2>5. CASE UNCHANGED Machine!vars
    BY <2>5, Zenon DEF Machine!vars, MachineInv, Machine!TypeOK, Machine!HooksPaired, Machine!At,
      Machine!Top, ExitsOnTop, EntryAwaited
  <2> QED
    BY <2>1, <2>2, <2>3, <2>4, <2>5, Zenon DEF Machine!Next
<1>3. MachineInv => Machine!HooksPaired /\ Machine!EnteredWhenIdle
  <2> SUFFICES ASSUME MachineInv
               PROVE  Machine!HooksPaired /\ Machine!EnteredWhenIdle
    BY Zenon
  <2>1. dispatches = <<>> => \A k \in 1 .. Len(dispatches) : FALSE
    OBVIOUS
  <2> QED
    BY <2>1, Zenon DEF MachineInv, EntryAwaited, Machine!EnteredWhenIdle
<1> QED
  BY <1>1, <1>2, <1>3, PTL DEF Machine!Spec, Machine!StepsAlongRules

-----------------------------------------------------------------------------
(***************************************************************************)
(* The event dispatcher: ListenersInv relates each dispatch in progress to *)
(* the slots, whatever its listeners, or those of a dispatch nested in it, *)
(* have subscribed and unsubscribed since it began.                        *)
(***************************************************************************)
CONSTANT MaxId

VARIABLES slots_, next_id_, events, issued

Listeners == INSTANCE EventDispatcher WITH stack <- events

SlotMaps == [Listeners!Indices -> 0 .. MaxId]

\* The slots whose turn has come in a dispatch.
TurnCame(f, j) == j < f.i \/ (j = f.i /\ f.pc = "listener")

\* What a dispatch knows of the slots s when n is the next id: ids it must not
\* hear are the later ones, and the listeners it has called, where they are
\* still subscribed, are those in the slots whose turn has come.
HeardOK(f, s, n) ==
  /\ f.first_unheard <= n /\ \A id \in f.due : id < f.first_unheard
  /\ f.pc = "listener" => f.i < Capacity
  /\ Listeners!Called(f) \subseteq f.due
  /\ \A k, l \in 1 .. Len(f.called) : f.called[k] = f.called[l] => k = l
  /\ \A j \in Listeners!Indices :
       /\ s[j] # 0 /\ s[j] < f.first_unheard => s[j] \in f.due
       /\ s[j] \in Listeners!Called(f) => TurnCame(f, j)
       /\ TurnCame(f, j) /\ s[j] \in f.due => s[j] \in Listeners!Called(f)

ListenersInv ==
  /\ Listeners!TypeOK
  /\ \A i, j \in Listeners!Indices : slots_[i] = slots_[j] /\ slots_[i] # 0 => i = j
  /\ \A j \in Listeners!Indices : slots_[j] < next_id_
  /\ \A id \in issued : id < next_id_
  /\ \A k \in 1 .. Len(events) : HeardOK(events[k], slots_, next_id_)

\* A frame's fields.
LEMMA FrameFields ==
  ASSUME NEW f \in Listeners!Frames
  PROVE  /\ f.pc \in {"loop", "listener"} /\ f.i \in 0 .. Capacity
         /\ f.first_unheard \in 1 .. MaxId /\ f.due \subseteq 1 .. MaxId
         /\ f.called \in Seq(1 .. MaxId)
BY Zenon DEF Listeners!Frames, Listeners!Ids

\* A frame that goes on to the next slot.
LEMMA FrameMovesOn ==
  ASSUME NEW f \in Listeners!Frames, f.i + 1 \in 0 .. Capacity,
         NEW g, g = [f EXCEPT !.i = @ + 1] \/ g = [f EXCEPT !.pc = "loop", !.i = @ + 1]
  PROVE  /\ g \in Listeners!Frames /\ g.i = f.i + 1
         /\ g = [f EXCEPT !.i = @ + 1] => g.pc = f.pc
         /\ g = [f EXCEPT !.pc = "loop", !.i = @ + 1] => g.pc = "loop"
         /\ g.first_unheard = f.first_unheard /\ g.due = f.due /\ g.called = f.called
<1>1. CASE g = [f EXCEPT !.i = @ + 1]
  BY <1>1, Zenon DEF Listeners!Frames
<1>2. CASE g = [f EXCEPT !.pc = "loop", !.i = @ + 1]
  BY <1>2, Zenon DEF Listeners!Frames
<1> QED
  BY <1>1, <1>2, Zenon

\* A listener that leaves or arrives is not one this dispatch has to call.
LEMMA SlotsMove ==
  ASSUME NEW f \in Listeners!Frames, NEW s \in SlotMaps, NEW t \in SlotMaps,
         NEW n \in 1 .. MaxId, NEW m \in 1 .. MaxId, n <= m, HeardOK(f, s, n),
         \A j \in Listeners!Indices : t[j] = s[j] \/ t[j] = 0 \/ t[j] = n
  PROVE  HeardOK(f, t, m)
<1>1. f.first_unheard <= m
  <2>1. f.first_unheard <= n
    BY Zenon DEF HeardOK
  <2> QED
    BY <2>1, FrameFields, SMTT(60)
<1>2. 0 \notin f.due /\ n \notin f.due /\ ~(n < f.first_unheard)
  <2>1. f.first_unheard <= n /\ \A id \in f.due : id < f.first_unheard
    BY Zenon DEF HeardOK
  <2>2. ~(n < f.first_unheard) /\ 0 \notin 1 .. MaxId
    BY <2>1, FrameFields, SMTT(60)
  <2> QED
    BY <2>1, <2>2, FrameFields, ZenonT(60)
<1>3. ASSUME NEW j \in Listeners!Indices
      PROVE  /\ t[j] # 0 /\ t[j] < f.first_unheard => t[j] \in f.due
             /\ t[j] \in Listeners!Called(f) => TurnCame(f, j)
             /\ TurnCame(f, j) /\ t[j] \in f.due => t[j] \in Listeners!Called(f)
  <2>1. CASE t[j] = s[j]
    BY <2>1, Zenon DEF HeardOK
  <2>2. CASE t[j] = 0 \/ t[j] = n
    BY <1>2, <2>2, Zenon DEF HeardOK
  <2> QED
    BY <2>1, <2>2, Zenon
<1> QED
  BY <1>1, <1>3, ZenonT(60) DEF HeardOK

\* dispatch notes who is subscribed, and the id of the next who will be.
LEMMA FrameStarts ==
  ASSUME NEW s \in SlotMaps, NEW n \in 1 .. MaxId, Capacity \in Nat,
         \A j \in Listeners!Indices : s[j] < n,
         NEW f, f = [pc |-> "loop", i |-> 0, first_unheard |-> n,
                     due |-> {s[j] : j \in Listeners!Indices} \ {0}, called |-> <<>>]
  PROVE  f \in Listeners!Frames /\ HeardOK(f, s, n)
<1>1. /\ f.pc = "loop" /\ f.i = 0 /\ f.first_unheard = n /\ f.called = <<>>
      /\ f.due = {s[j] : j \in Listeners!Indices} \ {0}
  OBVIOUS
<1>2. f.due \subseteq 1 .. MaxId
  <2>1. \A j \in Listeners!Indices : s[j] \in 0 .. MaxId
    BY Zenon DEF SlotMaps
  <2>2. \A k \in 0 .. MaxId : k # 0 => k \in 1 .. MaxId
    OBVIOUS
  <2> QED
    BY <1>1, <2>1, <2>2, ZenonT(60)
<1>3. f \in Listeners!Frames
  <2>1. 0 \in 0 .. Capacity /\ <<>> \in Seq(1 .. MaxId)
    BY SMTT(60)
  <2> QED
    BY <1>1, <1>2, <2>1, ZenonT(60) DEF Listeners!Frames, Listeners!Ids
<1>4. \A k \in 1 .. Len(f.called) : FALSE
  BY <1>1, SMTT(60)
<1>5. \A x : x \notin Listeners!Called(f)
  BY <1>4, ZenonT(60) DEF Listeners!Called
<1>6. n <= n /\ \A j \in Listeners!Indices : ~(j < 0)
  BY SMTT(60) DEF Listeners!Indices
<1>7. \A j \in Listeners!Indices : ~TurnCame(f, j)
  BY <1>1, <1>6, SMTT(60) DEF TurnCame
<1>8. \A id \in f.due : id < n
  BY <1>1, ZenonT(60)
<1>9. \A j \in Listeners!Indices : s[j] # 0 => s[j] \in f.due
  BY <1>1, ZenonT(60)
<1>10. f.pc # "listener"
  BY <1>1, SMTT(60)
<1> QED
  BY <1>1, <1>3, <1>4, <1>5, <1>6, <1>7, <1>8, <1>9, <1>10, ZenonT(60) DEF HeardOK

\* One more listener called, not called before.
LEMMA CalledOnce ==
  ASSUME NEW S, NEW c \in Seq(S), NEW x \in S, NEW d, d = Append(c, x)
  PROVE  /\ \A y : (\E k \in 1 .. Len(d) : y = d[k]) <=> y = x \/ \E k \in 1 .. Len(c) : y = c[k]
         /\ (\A k, l \in 1 .. Len(c) : c[k] = c[l] => k = l) /\ (\A k \in 1 .. Len(c) : c[k] # x)
              => \A k, l \in 1 .. Len(d) : d[k] = d[l] => k = l
<1>1. /\ Len(c) \in Nat /\ Len(d) = Len(c) + 1 /\ d[Len(d)] = x
      /\ \A k \in 1 .. Len(c) : d[k] = c[k]
  BY SMTT(60)
<1>2. \A k : k \in 1 .. Len(d) <=> k \in 1 .. Len(c) \/ k = Len(d)
  BY <1>1, SMTT(60)
<1>3. ASSUME NEW y
      PROVE  (\E k \in 1 .. Len(d) : y = d[k]) <=> y = x \/ \E k \in 1 .. Len(c) : y = c[k]
  BY <1>1, <1>2, ZenonT(60)
<1>4. ASSUME \A k, l \in 1 .. Len(c) : c[k] = c[l] => k = l, \A k \in 1 .. Len(c) : c[k] # x,
             NEW k \in 1 .. Len(d), NEW l \in 1 .. Len(d), d[k] = d[l]
      PROVE  k = l
  <2>1. CASE k = Len(d)
    BY <1>1, <1>2, <1>4, <2>1, ZenonT(60)
  <2>2. CASE l = Len(d)
    BY <1>1, <1>2, <1>4, <2>2, ZenonT(60)
  <2>3. CASE k \in 1 .. Len(c) /\ l \in 1 .. Len(c)
    BY <1>1, <1>4, <2>3, ZenonT(60)
  <2> QED
    BY <1>2, <2>1, <2>2, <2>3, ZenonT(60)
<1> QED
  BY <1>3, <1>4, ZenonT(60)

\* The turn of a listener that hears the event.
LEMMA FrameHears ==
  ASSUME NEW f \in Listeners!Frames, NEW s \in SlotMaps, NEW n \in 1 .. MaxId, HeardOK(f, s, n),
         \A i, j \in Listeners!Indices : s[i] = s[j] /\ s[i] # 0 => i = j,
         f.pc = "loop", f.i \in Listeners!Indices, f.i < Capacity,
         s[f.i] # 0, s[f.i] < f.first_unheard,
         NEW g, g.pc = "listener", g.i = f.i, g.first_unheard = f.first_unheard,
         g.due = f.due, g.called = Append(f.called, s[f.i])
  PROVE  HeardOK(g, s, n)
<1>1. PICK id \in 1 .. MaxId : id = s[f.i]
  <2>1. s[f.i] \in 0 .. MaxId
    BY Zenon DEF SlotMaps
  <2> QED
    BY <2>1, SMTT(60)
<1>2. PICK c \in Seq(1 .. MaxId) : c = f.called
  BY FrameFields, Zenon
<1>3. g.called = Append(c, id)
  BY <1>1, <1>2, Zenon
<1>4. id \in f.due
  BY <1>1, ZenonT(60) DEF HeardOK
<1>5. ~(f.i < f.i) /\ "loop" # "listener"
  BY DEF Listeners!Indices
<1>6. id \notin Listeners!Called(f)
  BY <1>1, <1>5, ZenonT(60) DEF HeardOK, TurnCame
<1>7. Listeners!Called(g) = Listeners!Called(f) \cup {id}
      /\ \A k, l \in 1 .. Len(g.called) : g.called[k] = g.called[l] => k = l
  <2>1. PICK d : d = Append(c, id)
    BY ZenonT(60)
  <2>2. /\ \A y : (\E k \in 1 .. Len(d) : y = d[k]) <=> y = id \/ \E k \in 1 .. Len(c) : y = c[k]
        /\ (\A k, l \in 1 .. Len(c) : c[k] = c[l] => k = l) /\ (\A k \in 1 .. Len(c) : c[k] # id)
             => \A k, l \in 1 .. Len(d) : d[k] = d[l] => k = l
    BY <2>1, CalledOnce, SMTT(60)
  <2>3. d = g.called
    BY <1>3, <2>1, ZenonT(60)
  <2>4. \A y : /\ y \in Listeners!Called(g) <=> \E k \in 1 .. Len(d) : y = d[k]
               /\ y \in Listeners!Called(f) <=> \E k \in 1 .. Len(c) : y = c[k]
    BY <1>2, <2>3, ZenonT(60) DEF Listeners!Called
  <2>5. \A k, l \in 1 .. Len(c) : c[k] = c[l] => k = l
    BY <1>2, Zenon DEF HeardOK
  <2>6. \A k \in 1 .. Len(c) : c[k] # id
    BY <1>6, <2>4, ZenonT(60)
  <2>7. \A k, l \in 1 .. Len(d) : d[k] = d[l] => k = l
    BY <2>2, <2>5, <2>6, ZenonT(60)
  <2>8. \A y : y \in Listeners!Called(g) <=> y \in Listeners!Called(f) \cup {id}
    BY <2>2, <2>4, ZenonT(60)
  <2>9. Listeners!Called(g) = Listeners!Called(f) \cup {id}
    BY <2>8, Zenon
  <2> QED
    BY <2>3, <2>7, <2>9, ZenonT(60)
<1>8. \A j : TurnCame(g, j) <=> TurnCame(f, j) \/ j = f.i
  BY <1>3, <1>5, Zenon DEF TurnCame
<1>9. ASSUME NEW j \in Listeners!Indices
       PROVE  /\ s[j] # 0 /\ s[j] < g.first_unheard => s[j] \in g.due
              /\ s[j] \in Listeners!Called(g) => TurnCame(g, j)
              /\ TurnCame(g, j) /\ s[j] \in g.due => s[j] \in Listeners!Called(g)
  <2>1. s[j] # 0 /\ s[j] < g.first_unheard => s[j] \in g.due
    BY <1>3, Zenon DEF HeardOK
  <2>2. s[j] = id => j = f.i
    BY <1>1, Zenon
  <2>3. s[j] \in Listeners!Called(g) => TurnCame(g, j)
    BY <1>7, <1>8, <2>2, ZenonT(60) DEF HeardOK
  <2>4. TurnCame(g, j) /\ s[j] \in g.due => s[j] \in Listeners!Called(g)
    BY <1>1, <1>3, <1>7, <1>8, ZenonT(60) DEF HeardOK
  <2> QED
    BY <2>1, <2>3, <2>4, Zenon
<1> QED
  BY <1>3, <1>4, <1>7, <1>9, ZenonT(60) DEF HeardOK

\* The turn of an empty slot or of a listener that came too late.
LEMMA FrameSkips ==
  ASSUME NEW f \in Listeners!Frames, NEW s \in SlotMaps, NEW n \in 1 .. MaxId, HeardOK(f, s, n),
         f.pc = "loop", f.i \in Listeners!Indices, ~(s[f.i] # 0 /\ s[f.i] < f.first_unheard),
         NEW g, g.pc = "loop", g.i = f.i + 1, g.first_unheard = f.first_unheard,
         g.due = f.due, g.called = f.called
  PROVE  HeardOK(g, s, n)
<1>1. f.i \in Int /\ \A j \in Listeners!Indices : j \in Int
  BY FrameFields, SMTT(60) DEF Listeners!Indices
<1>2. Listeners!Called(g) = Listeners!Called(f)
  BY ZenonT(60) DEF Listeners!Called
<1>3. "loop" # "listener" /\ \A j \in Listeners!Indices : j < f.i + 1 <=> j < f.i \/ j = f.i
  BY <1>1, SMTT(60)
<1>4. \A j \in Listeners!Indices : TurnCame(g, j) <=> TurnCame(f, j) \/ j = f.i
  BY <1>3, Zenon DEF TurnCame
<1>5. s[f.i] \notin f.due
  <2>1. 0 \notin 1 .. MaxId
    BY SMTT(60)
  <2> QED
    BY <2>1, FrameFields, ZenonT(60) DEF HeardOK
<1>6. ASSUME NEW j \in Listeners!Indices
      PROVE  /\ s[j] # 0 /\ s[j] < g.first_unheard => s[j] \in g.due
             /\ s[j] \in Listeners!Called(g) => TurnCame(g, j)
             /\ TurnCame(g, j) /\ s[j] \in g.due => s[j] \in Listeners!Called(g)
  BY <1>2, <1>4, <1>5, ZenonT(60) DEF HeardOK
<1> QED
  BY <1>2, <1>3, <1>6, ZenonT(60) DEF HeardOK

\* A listener returns: the turn of its slot is over.
LEMMA FrameReturns ==
  ASSUME NEW f \in Listeners!Frames, NEW s \in SlotMaps, NEW n \in 1 .. MaxId, HeardOK(f, s, n),
         f.pc = "listener", NEW g, g.pc = "loop", g.i = f.i + 1,
         g.first_unheard = f.first_unheard, g.due = f.due, g.called = f.called
  PROVE  HeardOK(g, s, n)
<1>1. f.i \in Int /\ \A j \in Listeners!Indices : j \in Int
  BY FrameFields, SMTT(60) DEF Listeners!Indices
<1>2. Listeners!Called(g) = Listeners!Called(f)
  BY ZenonT(60) DEF Listeners!Called
<1>3. "loop" # "listener" /\ \A j \in Listeners!Indices : j < f.i + 1 <=> j < f.i \/ j = f.i
  BY <1>1, SMTT(60)
<1>4. \A j \in Listeners!Indices : TurnCame(g, j) <=> TurnCame(f, j)
  BY <1>3, Zenon DEF TurnCame
<1>5. ASSUME NEW j \in Listeners!Indices
      PROVE  /\ s[j] # 0 /\ s[j] < g.first_unheard => s[j] \in g.due
             /\ s[j] \in Listeners!Called(g) => TurnCame(g, j)
             /\ TurnCame(g, j) /\ s[j] \in g.due => s[j] \in Listeners!Called(g)
  BY <1>2, <1>4, ZenonT(60) DEF HeardOK
<1> QED
  BY <1>2, <1>3, <1>5, ZenonT(60) DEF HeardOK

LEMMA ListenersTyped ==
  ASSUME ListenersInv
  PROVE  /\ slots_ \in SlotMaps /\ next_id_ \in 1 .. MaxId /\ issued \subseteq 1 .. MaxId
         /\ events \in Seq(Listeners!Frames) /\ Len(events) \in Nat
         /\ \A k \in 1 .. Len(events) : events[k] \in Listeners!Frames
<1>1. /\ slots_ \in SlotMaps /\ next_id_ \in 1 .. MaxId /\ issued \subseteq 1 .. MaxId
      /\ events \in Seq(Listeners!Frames)
  BY Zenon DEF ListenersInv, Listeners!TypeOK, Listeners!Ids, SlotMaps
<1> QED
  BY <1>1, SeqFacts, ZenonT(60)

\* What a step of the listeners changes: the slots, never a dispatch.
LEMMA SlotsStep ==
  ASSUME ListenersInv, UNCHANGED events, slots_' \in SlotMaps,
         next_id_' \in 1 .. MaxId, next_id_ <= next_id_',
         \A j \in Listeners!Indices : slots_'[j] = slots_[j] \/ slots_'[j] = 0 \/ slots_'[j] = next_id_,
         \A i, j \in Listeners!Indices : slots_'[i] = slots_'[j] /\ slots_'[i] # 0 => i = j,
         \A j \in Listeners!Indices : slots_'[j] < next_id_',
         issued' \subseteq 1 .. MaxId, \A id \in issued' : id < next_id_'
  PROVE  ListenersInv' /\ Listeners!NewIdsOnly
<1>1. PICK s, t, n, m : s = slots_ /\ t = slots_' /\ n = next_id_ /\ m = next_id_'
  BY Zenon
<1>2. /\ s \in SlotMaps /\ t \in SlotMaps /\ n \in 1 .. MaxId /\ m \in 1 .. MaxId /\ n <= m
      /\ \A j \in Listeners!Indices : t[j] = s[j] \/ t[j] = 0 \/ t[j] = n
  BY <1>1, ListenersTyped, ZenonT(60)
<1>3. ASSUME NEW k \in 1 .. Len(events)
      PROVE  HeardOK(events[k], t, m)
  <2>1. PICK f \in Listeners!Frames : f = events[k]
    BY ListenersTyped, Zenon
  <2>2. HeardOK(f, s, n)
    BY <1>1, <2>1, ZenonT(60) DEF ListenersInv
  <2>3. HeardOK(f, t, m)
    BY <1>2, <2>2, SlotsMove, ZenonT(60)
  <2> QED
    BY <2>1, <2>3, ZenonT(60)
<1>4. Listeners!TypeOK'
  BY ListenersTyped, Zenon DEF Listeners!TypeOK, Listeners!Ids, SlotMaps
<1>5. ListenersInv'
  BY <1>1, <1>3, <1>4, Zenon DEF ListenersInv
<1>6. Listeners!NewIdsOnly
  <2> SUFFICES ASSUME NEW id \in issued, id \notin Listeners!Subscribed, id \in Listeners!Subscribed'
               PROVE  FALSE
    BY Zenon DEF Listeners!NewIdsOnly
  <2>1. PICK j \in Listeners!Indices : id = slots_'[j] /\ id # 0
    BY Zenon DEF Listeners!Subscribed
  <2>2. id < next_id_ /\ next_id_ \in 1 .. MaxId
    BY ListenersTyped, ZenonT(60) DEF ListenersInv
  <2>3. id # next_id_
    BY <2>2, SMTT(60)
  <2>4. id # slots_[j]
    BY <2>1, ZenonT(60) DEF Listeners!Subscribed
  <2> QED
    BY <2>1, <2>3, <2>4, Zenon
<1> QED
  BY <1>5, <1>6, ZenonT(60)

LEMMA SubscribeStep ==
  ASSUME MaxId \in Nat, ListenersInv, Listeners!try_subscribe
  PROVE  ListenersInv' /\ Listeners!NewIdsOnly
<1>1. PICK i \in Listeners!Indices : slots_[i] = 0 /\ slots_' = [slots_ EXCEPT ![i] = next_id_]
  BY Zenon DEF Listeners!try_subscribe
<1>2. /\ next_id_ < MaxId /\ next_id_' = next_id_ + 1 /\ issued' = issued \cup {next_id_}
      /\ UNCHANGED events
  BY ZenonT(60) DEF Listeners!try_subscribe
<1>3. /\ slots_ \in SlotMaps /\ next_id_ \in 1 .. MaxId /\ issued \subseteq 1 .. MaxId
      /\ \A j \in Listeners!Indices : slots_[j] \in 0 .. MaxId
  BY ListenersTyped, ZenonT(60) DEF SlotMaps
<1>4. next_id_' \in 1 .. MaxId /\ next_id_ <= next_id_' /\ next_id_ < next_id_' /\ next_id_ \in 0 .. MaxId
  BY <1>2, <1>3, SMTT(60)
<1>5. /\ slots_' \in SlotMaps
      /\ \A j \in Listeners!Indices : slots_'[j] = IF j = i THEN next_id_ ELSE slots_[j]
  BY <1>1, <1>3, <1>4, ZenonT(60) DEF SlotMaps
<1>6. \A j \in Listeners!Indices : slots_[j] < next_id_ /\ slots_[j] # next_id_ /\ slots_[j] < next_id_'
  <2>1. \A j \in Listeners!Indices : slots_[j] < next_id_
    BY Zenon DEF ListenersInv
  <2> QED
    BY <1>2, <1>3, <2>1, SMTT(60)
<1>7. \A id \in issued' : id < next_id_'
  <2>1. \A id \in issued : id < next_id_
    BY Zenon DEF ListenersInv
  <2>2. \A id \in 1 .. MaxId : id < next_id_ => id < next_id_'
    BY <1>2, <1>3, SMTT(60)
  <2> QED
    BY <1>2, <1>3, <1>4, <2>1, <2>2, ZenonT(60)
<1>8. \A k, l \in Listeners!Indices : slots_'[k] = slots_'[l] /\ slots_'[k] # 0 => k = l
  BY <1>5, <1>6, ZenonT(60) DEF ListenersInv
<1>9. /\ \A j \in Listeners!Indices : slots_'[j] = slots_[j] \/ slots_'[j] = 0 \/ slots_'[j] = next_id_
      /\ \A j \in Listeners!Indices : slots_'[j] < next_id_'
      /\ issued' \subseteq 1 .. MaxId
  BY <1>2, <1>3, <1>4, <1>5, <1>6, ZenonT(60)
<1> QED
  BY <1>2, <1>4, <1>5, <1>7, <1>8, <1>9, SlotsStep, ZenonT(60)

\* unsubscribe and clear empty slots.
LEMMA RemovalStep ==
  ASSUME ListenersInv, slots_' \in [Listeners!Indices -> 0 .. MaxId],
         \A j \in Listeners!Indices : slots_'[j] = slots_[j] \/ slots_'[j] = 0,
         UNCHANGED <<next_id_, events, issued>>
  PROVE  ListenersInv' /\ Listeners!NewIdsOnly
<1>1. /\ next_id_ \in 1 .. MaxId /\ issued \subseteq 1 .. MaxId /\ slots_' \in SlotMaps
      /\ \A j \in Listeners!Indices : slots_[j] < next_id_
      /\ \A id \in issued : id < next_id_
  BY ListenersTyped, ZenonT(60) DEF ListenersInv, SlotMaps
<1>2. 0 < next_id_ /\ next_id_ <= next_id_
  BY <1>1, SMTT(60)
<1>3. /\ \A j \in Listeners!Indices : slots_'[j] < next_id_
      /\ \A i, j \in Listeners!Indices : slots_'[i] = slots_'[j] /\ slots_'[i] # 0 => i = j
  BY <1>1, <1>2, ZenonT(60) DEF ListenersInv
<1> QED
  BY <1>1, <1>2, <1>3, SlotsStep, ZenonT(60)

\* What a step of a dispatch changes: the dispatches, never a slot.
LEMMA EventsStep ==
  ASSUME ListenersInv, UNCHANGED <<slots_, next_id_, issued>>, events' \in Seq(Listeners!Frames),
         \A k \in 1 .. Len(events') : HeardOK(events'[k], slots_, next_id_)
  PROVE  ListenersInv' /\ Listeners!NewIdsOnly
<1>1. Listeners!TypeOK'
  BY Zenon DEF ListenersInv, Listeners!TypeOK
<1>2. ListenersInv'
  BY <1>1, Zenon DEF ListenersInv
<1>3. Listeners!NewIdsOnly
  BY Zenon DEF Listeners!NewIdsOnly, Listeners!Subscribed
<1> QED
  BY <1>2, <1>3, ZenonT(60)

LEMMA SwapStep ==
  ASSUME ListenersInv, UNCHANGED <<slots_, next_id_, issued>>, events # <<>>,
         NEW g \in Listeners!Frames, HeardOK(g, slots_, next_id_),
         events' = Append(Listeners!Below, g)
  PROVE  ListenersInv' /\ Listeners!NewIdsOnly
<1>1. PICK s \in Seq(Listeners!Frames) : s = events
  BY ListenersTyped, Zenon
<1>2. events' = Swap(s, g) /\ s # <<>>
  BY <1>1, Zenon DEF Listeners!Below, Swap
<1>3. /\ Swap(s, g) \in Seq(Listeners!Frames) /\ Len(Swap(s, g)) = Len(s)
      /\ Swap(s, g)[Len(s)] = g
      /\ \A k \in 1 .. Len(s) : k # Len(s) => Swap(s, g)[k] = s[k]
  BY <1>2, Swapped, ZenonT(60)
<1>4. ASSUME NEW k \in 1 .. Len(events')
      PROVE  HeardOK(events'[k], slots_, next_id_)
  <2>1. k \in 1 .. Len(s)
    BY <1>2, <1>3, Zenon
  <2>2. CASE k = Len(s)
    BY <1>2, <1>3, <2>2, Zenon
  <2>3. CASE k # Len(s)
    BY <1>1, <1>2, <1>3, <2>1, <2>3, ZenonT(60) DEF ListenersInv
  <2> QED
    BY <2>2, <2>3, Zenon
<1>5. events' \in Seq(Listeners!Frames)
  BY <1>2, <1>3, ZenonT(60)
<1> QED
  BY <1>4, <1>5, EventsStep, ZenonT(60)

LEMMA PopStep ==
  ASSUME ListenersInv, UNCHANGED <<slots_, next_id_, issued>>, events # <<>>,
         events' = Listeners!Below
  PROVE  ListenersInv' /\ Listeners!NewIdsOnly
<1>1. PICK s \in Seq(Listeners!Frames) : s = events
  BY ListenersTyped, Zenon
<1>2. events' = SubSeq(s, 1, Len(s) - 1) /\ s # <<>>
  BY <1>1, Zenon DEF Listeners!Below
<1>3. /\ SubSeq(s, 1, Len(s) - 1) \in Seq(Listeners!Frames)
      /\ Len(SubSeq(s, 1, Len(s) - 1)) = Len(s) - 1
      /\ \A k \in 1 .. Len(s) - 1 : SubSeq(s, 1, Len(s) - 1)[k] = s[k]
      /\ \A k : k \in 1 .. Len(s) - 1 <=> k \in 1 .. Len(s) /\ k # Len(s)
  BY <1>2, Popped, ZenonT(60)
<1>4. ASSUME NEW k \in 1 .. Len(events')
      PROVE  HeardOK(events'[k], slots_, next_id_)
  <2>1. k \in 1 .. Len(s) /\ events'[k] = s[k]
    BY <1>2, <1>3, ZenonT(60)
  <2> QED
    BY <1>1, <2>1, ZenonT(60) DEF ListenersInv
<1>5. events' \in Seq(Listeners!Frames)
  BY <1>2, <1>3, ZenonT(60)
<1> QED
  BY <1>4, <1>5, EventsStep, ZenonT(60)

LEMMA DispatchStarts ==
  ASSUME Capacity \in Nat, ListenersInv, Listeners!dispatch
  PROVE  ListenersInv' /\ Listeners!NewIdsOnly
<1>1. PICK f : f = [pc |-> "loop", i |-> 0, first_unheard |-> next_id_,
                    due |-> {slots_[j] : j \in Listeners!Indices} \ {0}, called |-> <<>>]
  BY Zenon
<1>2. PICK s \in Seq(Listeners!Frames), t \in SlotMaps, n \in 1 .. MaxId :
        s = events /\ t = slots_ /\ n = next_id_
  BY ListenersTyped, Zenon
<1>3. \A j \in Listeners!Indices : t[j] < n
  BY <1>2, Zenon DEF ListenersInv
<1>4. f = [pc |-> "loop", i |-> 0, first_unheard |-> n,
           due |-> {t[j] : j \in Listeners!Indices} \ {0}, called |-> <<>>]
  BY <1>1, <1>2, ZenonT(60)
<1>5. f \in Listeners!Frames /\ HeardOK(f, t, n)
  BY <1>3, <1>4, FrameStarts, ZenonT(60)
<1>6. events' = Append(s, f) /\ UNCHANGED <<slots_, next_id_, issued>>
  BY <1>1, <1>2, ZenonT(60) DEF Listeners!dispatch, Listeners!Subscribed
<1>7. /\ Append(s, f) \in Seq(Listeners!Frames) /\ Len(s) \in Nat
      /\ Len(Append(s, f)) = Len(s) + 1 /\ Append(s, f)[Len(s) + 1] = f
      /\ \A k \in 1 .. Len(s) : Append(s, f)[k] = s[k]
  BY <1>5, Pushed, SMTT(60)
<1>8. \A k : k \in 1 .. Len(s) + 1 => k \in 1 .. Len(s) \/ k = Len(s) + 1
  BY <1>7, SMTT(60)
<1>9. ASSUME NEW k \in 1 .. Len(events')
      PROVE  HeardOK(events'[k], slots_, next_id_)
  <2>1. k \in 1 .. Len(s) \/ k = Len(s) + 1
    BY <1>6, <1>7, <1>8, ZenonT(60)
  <2>2. CASE k = Len(s) + 1
    BY <1>2, <1>5, <1>6, <1>7, <2>2, ZenonT(60)
  <2>3. CASE k \in 1 .. Len(s)
    BY <1>2, <1>6, <1>7, <2>3, ZenonT(60) DEF ListenersInv
  <2> QED
    BY <2>1, <2>2, <2>3, ZenonT(60)
<1>10. events' \in Seq(Listeners!Frames)
  BY <1>6, <1>7, ZenonT(60)
<1> QED
  BY <1>6, <1>9, <1>10, EventsStep, ZenonT(60)

LEMMA LoopStepKeeps ==
  ASSUME Capacity \in Nat, ListenersInv, Listeners!LoopStep
  PROVE  ListenersInv' /\ Listeners!NewIdsOnly
<1>1. /\ events # <<>> /\ Listeners!Top.pc = "loop" /\ Listeners!Top.i < Capacity
      /\ UNCHANGED <<slots_, next_id_, issued>>
  BY Zenon DEF Listeners!LoopStep, Listeners!InLoop
<1>2. PICK f \in Listeners!Frames : f = Listeners!Top /\ HeardOK(f, slots_, next_id_)
  <2>1. Len(events) \in 1 .. Len(events)
    BY <1>1, ListenersTyped, Popped, ZenonT(60)
  <2> QED
    BY <2>1, ListenersTyped, ZenonT(60) DEF ListenersInv, Listeners!Top
<1>3. f.pc = "loop" /\ f.i \in 0 .. Capacity /\ f.i < Capacity
  BY <1>1, <1>2, FrameFields, ZenonT(60)
<1>4. f.i \in Listeners!Indices /\ f.i + 1 \in 0 .. Capacity
  BY <1>3, SMTT(60) DEF Listeners!Indices
<1>5. slots_ \in SlotMaps /\ next_id_ \in 1 .. MaxId
  BY ListenersTyped, Zenon
<1>6. CASE slots_[f.i] # 0 /\ slots_[f.i] < f.first_unheard
  <2>1. events' = Append(Listeners!Below,
                         [f EXCEPT !.pc = "listener", !.called = Append(@, slots_[f.i])])
    BY <1>2, <1>6, ZenonT(60) DEF Listeners!LoopStep, Listeners!Hears, Listeners!SetTop
  <2>2. PICK g : g = [f EXCEPT !.pc = "listener", !.called = Append(@, slots_[f.i])]
    BY ZenonT(60)
  <2>3. slots_[f.i] \in 1 .. MaxId
    <3>1. slots_[f.i] \in 0 .. MaxId
      BY <1>4, <1>5, ZenonT(60) DEF SlotMaps
    <3> QED
      BY <1>6, <3>1, SMTT(60)
  <2>4. /\ g \in Listeners!Frames
        /\ g.pc = "listener" /\ g.i = f.i /\ g.first_unheard = f.first_unheard /\ g.due = f.due
        /\ g.called = Append(f.called, slots_[f.i])
    <3>1. PICK c \in Seq(1 .. MaxId) : c = Append(f.called, slots_[f.i])
      BY <2>3, FrameFields, Pushed, ZenonT(60)
    <3>2. g = [f EXCEPT !.pc = "listener", !.called = c]
      BY <2>2, <3>1, ZenonT(60)
    <3>3. /\ g \in Listeners!Frames
          /\ g.pc = "listener" /\ g.i = f.i /\ g.first_unheard = f.first_unheard /\ g.due = f.due
          /\ g.called = c
      BY <3>2, ZenonT(60) DEF Listeners!Frames, Listeners!Ids
    <3> QED
      BY <3>1, <3>3, ZenonT(60)
  <2>5. \A i, j \in Listeners!Indices : slots_[i] = slots_[j] /\ slots_[i] # 0 => i = j
    BY Zenon DEF ListenersInv
  <2>6. HeardOK(g, slots_, next_id_)
    BY <1>2, <1>3, <1>4, <1>5, <1>6, <2>4, <2>5, FrameHears, ZenonT(60)
  <2>7. events' = Append(Listeners!Below, g)
    BY <2>1, <2>2, ZenonT(60)
  <2> QED
    BY <1>1, <2>4, <2>6, <2>7, SwapStep, ZenonT(60)
<1>7. CASE ~(slots_[f.i] # 0 /\ slots_[f.i] < f.first_unheard)
  <2>1. events' = Append(Listeners!Below, [f EXCEPT !.i = @ + 1])
    BY <1>2, <1>7, ZenonT(60) DEF Listeners!LoopStep, Listeners!Hears, Listeners!SetTop
  <2>2. PICK g : g = [f EXCEPT !.i = @ + 1]
    BY Zenon
  <2>3. /\ g \in Listeners!Frames
        /\ g.pc = f.pc /\ g.i = f.i + 1 /\ g.first_unheard = f.first_unheard /\ g.due = f.due
        /\ g.called = f.called
    BY <1>4, <2>2, FrameMovesOn, ZenonT(60)
  <2>4. HeardOK(g, slots_, next_id_)
    BY <1>2, <1>3, <1>4, <1>5, <1>7, <2>3, FrameSkips, ZenonT(60)
  <2>5. events' = Append(Listeners!Below, g)
    BY <2>1, <2>2, ZenonT(60)
  <2> QED
    BY <1>1, <2>3, <2>4, <2>5, SwapStep, ZenonT(60)
<1> QED
  BY <1>6, <1>7, ZenonT(60)

LEMMA ListenerReturnsKeeps ==
  ASSUME Capacity \in Nat, ListenersInv, Listeners!ListenerReturns
  PROVE  ListenersInv' /\ Listeners!NewIdsOnly
<1>1. /\ events # <<>> /\ Listeners!Top.pc = "listener" /\ UNCHANGED <<slots_, next_id_, issued>>
  BY Zenon DEF Listeners!ListenerReturns
<1>2. PICK f \in Listeners!Frames : f = Listeners!Top /\ HeardOK(f, slots_, next_id_)
  <2>1. Len(events) \in 1 .. Len(events)
    BY <1>1, ListenersTyped, Popped, ZenonT(60)
  <2> QED
    BY <2>1, ListenersTyped, ZenonT(60) DEF ListenersInv, Listeners!Top
<1>3. f.pc = "listener" /\ f.i \in 0 .. Capacity /\ f.i < Capacity
  BY <1>1, <1>2, FrameFields, ZenonT(60) DEF HeardOK
<1>4. f.i + 1 \in 0 .. Capacity
  BY <1>3, SMTT(60)
<1>5. events' = Append(Listeners!Below, [f EXCEPT !.pc = "loop", !.i = @ + 1])
  BY <1>2, Zenon DEF Listeners!ListenerReturns, Listeners!SetTop
<1>6. PICK g : g = [f EXCEPT !.pc = "loop", !.i = @ + 1]
  BY Zenon
<1>7. /\ g \in Listeners!Frames
      /\ g.pc = "loop" /\ g.i = f.i + 1 /\ g.first_unheard = f.first_unheard /\ g.due = f.due
      /\ g.called = f.called
  BY <1>4, <1>6, FrameMovesOn, ZenonT(60)
<1>8. slots_ \in SlotMaps /\ next_id_ \in 1 .. MaxId
  BY ListenersTyped, Zenon
<1>9. HeardOK(g, slots_, next_id_)
  BY <1>2, <1>3, <1>7, <1>8, FrameReturns, ZenonT(60)
<1>10. events' = Append(Listeners!Below, g)
  BY <1>5, <1>6, ZenonT(60)
<1> QED
  BY <1>1, <1>7, <1>9, <1>10, SwapStep, ZenonT(60)

(***************************************************************************)
(* For every capacity and every nesting of dispatches whose listeners      *)
(* subscribe, unsubscribe, clear, dispatch and throw: an event goes at     *)
(* most once to a listener, only to those subscribed when its dispatch     *)
(* began, and to each of them still subscribed when its turn comes, and an *)
(* id once gone names no listener again                                    *)
(* (event_dispatcher.hpp:93-98, 106-125, 152-163).                         *)
(***************************************************************************)
THEOREM EventsSafe ==
  ASSUME Capacity \in Nat, MaxId \in Nat \ {0}
  PROVE  Listeners!Spec => /\ []Listeners!EventReachesItsListeners
                           /\ Listeners!IdsNeverReused
<1>1. Listeners!Init => ListenersInv
  <2> SUFFICES ASSUME Listeners!Init
               PROVE  ListenersInv
    BY Zenon
  <2>1. /\ slots_ = [i \in Listeners!Indices |-> 0] /\ next_id_ = 1 /\ events = <<>> /\ issued = {}
    BY Zenon DEF Listeners!Init
  <2>2. /\ 0 \in 0 .. MaxId /\ 1 \in 1 .. MaxId /\ 0 < 1 /\ events \in Seq(Listeners!Frames)
        /\ \A k \in 1 .. Len(events) : FALSE
    BY <2>1, SMTT(60)
  <2>3. /\ slots_ \in [Listeners!Indices -> 0 .. MaxId]
        /\ \A j \in Listeners!Indices : slots_[j] = 0
    BY <2>1, <2>2, ZenonT(60)
  <2>4. Listeners!TypeOK
    BY <2>1, <2>2, <2>3, ZenonT(60) DEF Listeners!TypeOK, Listeners!Ids
  <2> QED
    BY <2>1, <2>2, <2>3, <2>4, ZenonT(60) DEF ListenersInv
<1>2. ListenersInv /\ [Listeners!Next]_(Listeners!vars)
        => ListenersInv' /\ [Listeners!NewIdsOnly]_(Listeners!vars)
  <2> SUFFICES ASSUME ListenersInv, [Listeners!Next]_(Listeners!vars)
               PROVE  ListenersInv' /\ [Listeners!NewIdsOnly]_(Listeners!vars)
    BY ZenonT(60)
  <2>1. CASE Listeners!try_subscribe
    <3>1. MaxId \in Nat
      BY SMTT(60)
    <3> QED
      BY <2>1, <3>1, SubscribeStep, ZenonT(60)
  <2>2. ASSUME NEW id \in 0 .. MaxId, Listeners!unsubscribe(id)
        PROVE  ListenersInv' /\ Listeners!NewIdsOnly
    <3>1. PICK i \in Listeners!Indices : slots_' = [slots_ EXCEPT ![i] = 0]
      BY <2>2, ZenonT(60) DEF Listeners!unsubscribe
    <3>2. slots_ \in [Listeners!Indices -> 0 .. MaxId] /\ 0 \in 0 .. MaxId
      BY ListenersTyped, SMTT(60) DEF SlotMaps
    <3>3. /\ slots_' \in [Listeners!Indices -> 0 .. MaxId]
          /\ \A j \in Listeners!Indices : slots_'[j] = slots_[j] \/ slots_'[j] = 0
      BY <3>1, <3>2, SMTT(60)
    <3> QED
      BY <2>2, <3>3, RemovalStep, ZenonT(60) DEF Listeners!unsubscribe
  <2>3. CASE Listeners!clear
    <3>1. slots_' = [i \in Listeners!Indices |-> 0] /\ 0 \in 0 .. MaxId
      BY <2>3, SMTT(60) DEF Listeners!clear
    <3>2. /\ slots_' \in [Listeners!Indices -> 0 .. MaxId]
          /\ \A j \in Listeners!Indices : slots_'[j] = slots_[j] \/ slots_'[j] = 0
      BY <3>1, Zenon
    <3> QED
      BY <2>3, <3>2, RemovalStep, ZenonT(60) DEF Listeners!clear
  <2>4. CASE Listeners!dispatch
    BY <2>4, DispatchStarts, ZenonT(60)
  <2>5. CASE Listeners!LoopStep
    BY <2>5, LoopStepKeeps, ZenonT(60)
  <2>6. CASE Listeners!ListenerReturns
    BY <2>6, ListenerReturnsKeeps, ZenonT(60)
  <2>7. CASE Listeners!ListenerThrows \/ Listeners!DispatchReturns
    BY <2>7, PopStep, ZenonT(60) DEF Listeners!ListenerThrows, Listeners!DispatchReturns, Listeners!InLoop
  <2>8. CASE UNCHANGED Listeners!vars
    <3>1. UNCHANGED <<slots_, next_id_, issued>> /\ events' = events
      BY <2>8, ZenonT(60) DEF Listeners!vars
    <3>2. /\ events' \in Seq(Listeners!Frames)
          /\ \A k \in 1 .. Len(events') : HeardOK(events'[k], slots_, next_id_)
      BY <3>1, ListenersTyped, ZenonT(60) DEF ListenersInv
    <3> QED
      BY <3>1, <3>2, EventsStep, ZenonT(60)
  <2> QED
    BY <2>1, <2>2, <2>3, <2>4, <2>5, <2>6, <2>7, <2>8, ZenonT(60) DEF Listeners!Next
<1>3. ListenersInv => Listeners!EventReachesItsListeners
  <2> SUFFICES ASSUME ListenersInv, NEW k \in 1 .. Len(events)
               PROVE  /\ Listeners!Called(events[k]) \subseteq events[k].due
                      /\ \A m, n \in 1 .. Len(events[k].called) :
                           events[k].called[m] = events[k].called[n] => m = n
                      /\ \A j \in 0 .. events[k].i - 1 :
                           slots_[j] \in events[k].due => slots_[j] \in Listeners!Called(events[k])
    BY Zenon DEF Listeners!EventReachesItsListeners
  <2>1. PICK f \in Listeners!Frames : f = events[k] /\ HeardOK(f, slots_, next_id_)
    BY ListenersTyped, ZenonT(60) DEF ListenersInv
  <2>2. \A j \in 0 .. f.i - 1 : j \in Listeners!Indices /\ j < f.i
    BY FrameFields, SMTT(60) DEF Listeners!Indices
  <2> QED
    BY <2>1, <2>2, ZenonT(60) DEF HeardOK, TurnCame
<1> QED
  BY <1>1, <1>2, <1>3, PTL DEF Listeners!Spec, Listeners!IdsNeverReused

=============================================================================
