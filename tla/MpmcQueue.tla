----------------------------- MODULE MpmcQueue ------------------------------
(***************************************************************************)
(* metl::mpmc_queue (mpmc_queue.hpp): a bounded ring for any number of     *)
(* producers and consumers.  Each cell carries a sequence number that says *)
(* whose turn it is; a thread claims the ticket at the head of its side    *)
(* with a compare-exchange, which may fail spuriously, and then owns the   *)
(* cell until it stores the next sequence number.  One action per access   *)
(* to shared memory.                                                       *)
(*                                                                         *)
(* Tickets are std::size_t and wrap.  MaxStall bounds how many tickets may *)
(* be issued on a side while a thread of that side holds one it has read   *)
(* and not yet claimed; MaxStall = Wrap is no bound at all.                *)
(***************************************************************************)
EXTENDS IndexDistance, Sequences, TLC

CONSTANTS Producers, Consumers,   \* the threads of each side
          Values, NoValue,
          MaxStall,
          Teams                   \* the sets of threads that may run in a behaviour

ASSUME MpmcAssumption ==
  /\ Producers \cap Consumers = {}
  /\ NoValue \notin Values
  /\ MaxStall \in 1 .. Wrap

VARIABLES
  enqueue_pos_, dequeue_pos_,   \* the next ticket of each side
  sequence, storage,            \* cells_[i].sequence and cells_[i].storage
  pc, pos,                      \* per thread: next access, local ticket
  val,                          \* per thread: the argument, or the moved-out element
  returned,                     \* <<thread, answer>> if the last step was a return, else <<>>
  alive

vars == <<enqueue_pos_, dequeue_pos_, sequence, storage, pc, pos, val, returned, alive>>

Threads == Producers \cup Consumers

Init ==
  /\ enqueue_pos_ = 0 /\ dequeue_pos_ = 0
  /\ sequence = [i \in Slots |-> i]
  /\ storage = [i \in Slots |-> NoValue]
  /\ pc = [t \in Threads |-> "idle"]
  /\ pos = [t \in Threads |-> 0]
  /\ val = [t \in Threads |-> NoValue]
  /\ returned = <<>>
  /\ alive = TRUE

Goto(t, label) == pc' = [pc EXCEPT ![t] = label] /\ returned' = <<>>

\* The locals die with the call.
Return(t, answer) ==
  /\ pc' = [pc EXCEPT ![t] = "idle"]
  /\ returned' = <<t, answer>>
  /\ pos' = [pos EXCEPT ![t] = 0]
  /\ val' = [val EXCEPT ![t] = NoValue]

\* No thread of this side has sat on a ticket for more than MaxStall issues.
StallBounded(side, counter) ==
  \A t \in side : pc[t] \in {"sequence", "claim"} => Minus(counter, pos[t]) < MaxStall

-----------------------------------------------------------------------------
(***************************************************************************)
(* Producers: try_claim_and_construct.                                     *)
(***************************************************************************)

\* Entry and the first load of enqueue_pos_.
TryPush(p, v) ==
  /\ alive /\ pc[p] = "idle"
  /\ pos' = [pos EXCEPT ![p] = enqueue_pos_]
  /\ val' = [val EXCEPT ![p] = v]
  /\ Goto(p, "sequence")
  /\ UNCHANGED <<enqueue_pos_, dequeue_pos_, sequence, storage, alive>>

PushLoadSequence(p) ==
  LET difference == compare_tickets(sequence[Slot(pos[p])], pos[p])
  IN  /\ pc[p] = "sequence"
      /\ \/ difference = 0 /\ Goto(p, "claim") /\ UNCHANGED <<pos, val>>
         \/ difference < 0 /\ Return(p, FALSE)
         \/ difference > 0 /\ Goto(p, "reload") /\ UNCHANGED <<pos, val>>
      /\ UNCHANGED <<enqueue_pos_, dequeue_pos_, sequence, storage, alive>>

PushReload(p) ==
  /\ pc[p] = "reload"
  /\ pos' = [pos EXCEPT ![p] = enqueue_pos_]
  /\ Goto(p, "sequence")
  /\ UNCHANGED <<enqueue_pos_, dequeue_pos_, sequence, storage, val, alive>>

\* Fault: the ticket is taken by a load and a store instead of a compare-exchange.
PushClaim_NotAtomic(p) ==
  /\ pc[p] = "claim"
  /\ StallBounded(Producers, enqueue_pos_)
  /\ enqueue_pos_' = Plus(pos[p], 1)
  /\ Goto(p, "construct")
  /\ UNCHANGED <<dequeue_pos_, sequence, storage, pos, val, alive>>

\* The compare-exchange succeeds.
PushClaim(p) ==
  /\ pc[p] = "claim" /\ enqueue_pos_ = pos[p]
  /\ StallBounded(Producers, enqueue_pos_)
  /\ enqueue_pos_' = Plus(enqueue_pos_, 1)
  /\ Goto(p, "construct")
  /\ UNCHANGED <<dequeue_pos_, sequence, storage, pos, val, alive>>

\* It fails, because another producer won or spuriously, and refreshes pos.
PushClaimFails(p) ==
  /\ pc[p] = "claim"
  /\ pos' = [pos EXCEPT ![p] = enqueue_pos_]
  /\ Goto(p, "sequence")
  /\ UNCHANGED <<enqueue_pos_, dequeue_pos_, sequence, storage, val, alive>>

Construct(p) ==
  /\ pc[p] = "construct"
  /\ storage' = [storage EXCEPT ![Slot(pos[p])] = val[p]]
  /\ Goto(p, "publish")
  /\ UNCHANGED <<enqueue_pos_, dequeue_pos_, sequence, pos, val, alive>>

Publish(p) ==
  /\ pc[p] = "publish"
  /\ sequence' = [sequence EXCEPT ![Slot(pos[p])] = Plus(pos[p], 1)]
  /\ Return(p, TRUE)
  /\ UNCHANGED <<enqueue_pos_, dequeue_pos_, storage, alive>>

-----------------------------------------------------------------------------
(***************************************************************************)
(* Consumers: try_pop.                                                     *)
(***************************************************************************)

TryPop(c) ==
  /\ alive /\ pc[c] = "idle"
  /\ pos' = [pos EXCEPT ![c] = dequeue_pos_]
  /\ Goto(c, "sequence")
  /\ UNCHANGED <<enqueue_pos_, dequeue_pos_, sequence, storage, val, alive>>

\* Faults: the comparison with pos instead of pos + 1, and a retry that keeps
\* the old ticket.
PopLoadSequence_OffByOne(c) ==
  LET difference == compare_tickets(sequence[Slot(pos[c])], pos[c])
  IN  /\ pc[c] = "sequence"
      /\ \/ difference = 0 /\ Goto(c, "claim") /\ UNCHANGED <<pos, val>>
         \/ difference < 0 /\ Return(c, NoValue)
         \/ difference > 0 /\ Goto(c, "reload") /\ UNCHANGED <<pos, val>>
      /\ UNCHANGED <<enqueue_pos_, dequeue_pos_, sequence, storage, alive>>

PopLoadSequence_NoReload(c) ==
  LET difference == compare_tickets(sequence[Slot(pos[c])], Plus(pos[c], 1))
  IN  /\ pc[c] = "sequence"
      /\ \/ difference = 0 /\ Goto(c, "claim") /\ UNCHANGED <<pos, val>>
         \/ difference < 0 /\ Return(c, NoValue)
         \/ difference > 0 /\ Goto(c, "sequence") /\ UNCHANGED <<pos, val>>
      /\ UNCHANGED <<enqueue_pos_, dequeue_pos_, sequence, storage, alive>>

PopLoadSequence(c) ==
  LET difference == compare_tickets(sequence[Slot(pos[c])], Plus(pos[c], 1))
  IN  /\ pc[c] = "sequence"
      /\ \/ difference = 0 /\ Goto(c, "claim") /\ UNCHANGED <<pos, val>>
         \/ difference < 0 /\ Return(c, NoValue)
         \/ difference > 0 /\ Goto(c, "reload") /\ UNCHANGED <<pos, val>>
      /\ UNCHANGED <<enqueue_pos_, dequeue_pos_, sequence, storage, alive>>

PopReload(c) ==
  /\ pc[c] = "reload"
  /\ pos' = [pos EXCEPT ![c] = dequeue_pos_]
  /\ Goto(c, "sequence")
  /\ UNCHANGED <<enqueue_pos_, dequeue_pos_, sequence, storage, val, alive>>

PopClaim(c) ==
  /\ pc[c] = "claim" /\ dequeue_pos_ = pos[c]
  /\ StallBounded(Consumers, dequeue_pos_)
  /\ dequeue_pos_' = Plus(dequeue_pos_, 1)
  /\ Goto(c, "move")
  /\ UNCHANGED <<enqueue_pos_, sequence, storage, pos, val, alive>>

PopClaimFails(c) ==
  /\ pc[c] = "claim"
  /\ pos' = [pos EXCEPT ![c] = dequeue_pos_]
  /\ Goto(c, "sequence")
  /\ UNCHANGED <<enqueue_pos_, dequeue_pos_, sequence, storage, val, alive>>

\* out = std::move(*element); element->~T()
MoveOut(c) ==
  /\ pc[c] = "move"
  /\ val' = [val EXCEPT ![c] = storage[Slot(pos[c])]]
  /\ storage' = [storage EXCEPT ![Slot(pos[c])] = NoValue]
  /\ Goto(c, "release")
  /\ UNCHANGED <<enqueue_pos_, dequeue_pos_, sequence, pos, alive>>

\* Hands the cell to the producer whose ticket is pos + Capacity.
Release(c) ==
  /\ pc[c] = "release"
  /\ sequence' = [sequence EXCEPT ![Slot(pos[c])] = Plus(pos[c], Capacity)]
  /\ Return(c, val[c])
  /\ UNCHANGED <<enqueue_pos_, dequeue_pos_, storage, alive>>

\* ~mpmc_queue, with no thread inside: destroys the cells between the counters.
Destroy ==
  /\ alive /\ \A t \in Threads : pc[t] = "idle"
  /\ alive' = FALSE
  /\ storage' = [s \in Slots |->
       IF \E k \in 0 .. Minus(enqueue_pos_, dequeue_pos_) - 1 :
            s = Slot(Plus(dequeue_pos_, k))
       THEN NoValue ELSE storage[s]]
  /\ returned' = <<>>
  /\ UNCHANGED <<enqueue_pos_, dequeue_pos_, sequence, pc, pos, val>>

-----------------------------------------------------------------------------
ProducerStep(p) ==
  \/ \E v \in Values : TryPush(p, v)
  \/ PushLoadSequence(p) \/ PushReload(p) \/ PushClaim(p) \/ PushClaimFails(p)
  \/ Construct(p) \/ Publish(p)

ConsumerStep(c) ==
  \/ TryPop(c)
  \/ PopLoadSequence(c) \/ PopReload(c) \/ PopClaim(c) \/ PopClaimFails(c)
  \/ MoveOut(c) \/ Release(c)

Next ==
  \/ \E p \in Producers : ProducerStep(p)
  \/ \E c \in Consumers : ConsumerStep(c)
  \/ Destroy

Spec == Init /\ [][Next]_vars

(***************************************************************************)
(* Consumers that keep calling try_pop and keep being run, and a           *)
(* compare-exchange that does not fail spuriously for ever.  Producers may *)
(* stop anywhere.                                                          *)
(***************************************************************************)
FairSpec ==
  /\ Spec
  /\ \A c \in Consumers : WF_vars(ConsumerStep(c)) /\ SF_vars(PopClaim(c))

-----------------------------------------------------------------------------
TypeOK ==
  /\ enqueue_pos_ \in Index /\ dequeue_pos_ \in Index
  /\ sequence \in [Slots -> Index]
  /\ storage \in [Slots -> Values \cup {NoValue}]
  /\ \A p \in Producers :
       pc[p] \in {"idle", "sequence", "claim", "reload", "construct", "publish"}
  /\ \A c \in Consumers :
       pc[c] \in {"idle", "sequence", "claim", "reload", "move", "release"}
  /\ pos \in [Threads -> Index]
  /\ val \in [Threads -> Values \cup {NoValue}]
  /\ alive \in BOOLEAN

\* The threads that have claimed a cell and not yet handed it on.
Owners == {t \in Threads : pc[t] \in {"construct", "publish", "move", "release"}}

(***************************************************************************)
(* A claimed cell has one owner: no other thread reads or writes its       *)
(* storage or stores its sequence number until the owner does, and that    *)
(* number still says it is the owner's turn.                               *)
(***************************************************************************)
CellHasOneOwner ==
  \A t \in Owners :
    /\ sequence[Slot(pos[t])] = IF t \in Producers THEN pos[t] ELSE Plus(pos[t], 1)
    /\ \A u \in Owners \ {t} : Slot(pos[u]) # Slot(pos[t])

(***************************************************************************)
(* A cell holds an element exactly from its construction to its move out:  *)
(* no element is constructed over a live one, none is taken twice, and the *)
(* destructor's range "is exactly the live elements"                       *)
(* (mpmc_queue.hpp:156-158).                                               *)
(***************************************************************************)
LiveCells ==
  LET live == {Plus(dequeue_pos_, k) : k \in 0 .. Minus(enqueue_pos_, dequeue_pos_) - 1}
      raw  == {pos[p] : p \in {q \in Producers : pc[q] = "construct"}}
      kept == {pos[c] : c \in {d \in Consumers : pc[d] = "move"}}
  IN  \A s \in Slots :
        storage[s] # NoValue
          <=> (alive /\ \E i \in (live \ raw) \cup kept : Slot(i) = s)

(***************************************************************************)
(* After construction, cell i's sequence is i or i + 1 modulo Capacity,    *)
(* through every wrap of the tickets: the debug assertion on cell 1        *)
(* (mpmc_queue.hpp:264-275) never fires on a constructed queue, for any    *)
(* Capacity above 2.                                                       *)
(***************************************************************************)
SequenceResidue ==
  /\ \A i \in Slots : Slot(sequence[i]) \in {i, Slot(i + 1)}
  /\ Capacity > 2 => sequence[1] # 0

(***************************************************************************)
(* The state is well typed, a cell holds an element exactly from its       *)
(* construction to its move out, and its sequence number is its own or the *)
(* next modulo Capacity (mpmc_queue.hpp:156-158, 225-237, 264-275,         *)
(* 303-311).                                                               *)
(***************************************************************************)
CellsExact == TypeOK /\ LiveCells /\ SequenceResidue

(***************************************************************************)
(* The queue implements TicketFifo: FIFO in the order of claims, and every *)
(* false answer is justified at the instant the cell's sequence number was *)
(* loaded, however old the ticket it is compared with.                     *)
(***************************************************************************)
Contents ==
  [k \in 1 .. Minus(enqueue_pos_, dequeue_pos_) |->
     LET i == Plus(dequeue_pos_, k - 1)
         pending == {p \in Producers : pc[p] \in {"construct", "publish"} /\ pos[p] = i}
     IN  [value |-> IF pending = {} THEN storage[Slot(i)]
                    ELSE val[CHOOSE p \in pending : TRUE],
          by    |-> IF pending = {} THEN NoValue ELSE CHOOSE p \in pending : TRUE,
          ready |-> pending = {}]]

Taking ==
  [c \in Consumers |-> CASE pc[c] = "move"    -> storage[Slot(pos[c])]
                         [] pc[c] = "release" -> val[c]
                         [] OTHER             -> NoValue]

Fifo == INSTANCE TicketFifo WITH queue <- IF alive THEN Contents ELSE <<>>, taking <- Taking

ImplementsTicketFifo == Fifo!Spec

(***************************************************************************)
(* Consumers make progress whatever producers do elsewhere: once the       *)
(* oldest element is published, some consumer takes it, although each      *)
(* consumer may lose every compare-exchange to another.                    *)
(***************************************************************************)
PublishedHeadTaken ==
  (sequence[Slot(dequeue_pos_)] = Plus(dequeue_pos_, 1))
    ~> (\E c \in Consumers : pc[c] = "move") \/ ~alive

-----------------------------------------------------------------------------
\* For TLC: a behaviour has some of the threads, its team; the others never
\* call.
VARIABLE team

TeamInit == Init /\ team \in Teams

TeamConsumerStep(c) == c \in team /\ ConsumerStep(c) /\ UNCHANGED team

TeamNext ==
  \/ \E p \in Producers \cap team : ProducerStep(p) /\ UNCHANGED team
  \/ \E c \in Consumers : TeamConsumerStep(c)
  \/ Destroy /\ UNCHANGED team

TeamSpec == TeamInit /\ [][TeamNext]_<<vars, team>>

TeamFairSpec ==
  /\ TeamSpec
  /\ \A c \in Consumers : /\ WF_<<vars, team>>(TeamConsumerStep(c))
                          /\ SF_<<vars, team>>(PopClaim(c) /\ UNCHANGED team)

\* Values, and the threads of a side, are interchangeable.
Symmetry == Permutations(Values) \cup Permutations(Producers) \cup Permutations(Consumers)

=============================================================================
