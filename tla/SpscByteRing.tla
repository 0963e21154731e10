---------------------------- MODULE SpscByteRing -----------------------------
(***************************************************************************)
(* metl::spsc_byte_ring (spsc_byte_ring.hpp): a byte ring whose producer   *)
(* and consumer work in place, on spans of the storage, or copy.  One      *)
(* action per index load or store and per byte moved.  A byte is           *)
(* abstracted to its position in the stream, modulo Wrap, so a byte lost,  *)
(* repeated or out of order is a wrong byte.                               *)
(*                                                                         *)
(* A load of the other side's index may return any value not older than    *)
(* the last one its thread has seen.                                       *)
(***************************************************************************)
EXTENDS IndexDistance

CONSTANT NoByte   \* storage that was never written

VARIABLES
  head_, tail_,
  storage_,               \* [Slots -> Index \cup {NoByte}]
  ppc, room, done,        \* producer: step, bytes it may write, bytes written
  seen_head,              \* the newest head_ the producer has loaded
  cpc, avail, taken,      \* consumer: step, bytes it may read, bytes read
  seen_tail,              \* the newest tail_ the consumer has loaded
  aborted                 \* a METL_HARDEN failed

producer == <<tail_, ppc, room, done, seen_head>>
consumer == <<head_, cpc, avail, taken, seen_tail>>
vars == <<producer, consumer, storage_, aborted>>

Init ==
  /\ head_ = 0 /\ tail_ = 0 /\ seen_head = 0 /\ seen_tail = 0
  /\ storage_ = [s \in Slots |-> NoByte]
  /\ ppc = "idle" /\ room = 0 /\ done = 0
  /\ cpc = "idle" /\ avail = 0 /\ taken = 0
  /\ aborted = FALSE

Visible(seen, newest) == {Plus(seen, k) : k \in 0 .. Minus(newest, seen)}

Least(a, b) == IF a < b THEN a ELSE b

writable_size(head) == Capacity - Minus(tail_, head)
readable_size(tail) == Minus(tail, head_)

writable_run(head) == Least(writable_size(head), Capacity - Slot(tail_))

\* Fault: the run is not cut at the physical end of the storage.
readable_run_PastEnd(tail) == readable_size(tail)

readable_run(tail) == Least(readable_size(tail), Capacity - Slot(head_))

-----------------------------------------------------------------------------
(***************************************************************************)
(* Producer.                                                               *)
(***************************************************************************)
writable_span ==
  /\ ppc = "idle"
  /\ \E head \in Visible(seen_head, head_) :
       seen_head' = head /\ room' = writable_run(head)
  /\ ppc' = "fill"
  /\ UNCHANGED <<tail_, done, consumer, storage_, aborted>>

\* The caller, or a DMA transfer, writes through the span: no wrap.
FillByte ==
  /\ ppc = "fill" /\ done < room
  /\ storage_' = [storage_ EXCEPT ![Slot(tail_) + done] = Plus(tail_, done)]
  /\ done' = done + 1
  /\ UNCHANGED <<tail_, ppc, room, seen_head, consumer, aborted>>

\* The guard loads head_ again.
commit_write(count) ==
  /\ ppc = "fill" /\ count <= done
  /\ \E head \in Visible(seen_head, head_) :
       /\ seen_head' = head
       /\ IF count <= writable_run(head)
          THEN tail_' = Plus(tail_, count) /\ UNCHANGED aborted
          ELSE aborted' = TRUE /\ UNCHANGED tail_
  /\ ppc' = "idle" /\ room' = 0 /\ done' = 0
  /\ UNCHANGED <<consumer, storage_>>

\* try_write and write of n bytes, all or nothing.
try_write(n) ==
  /\ ppc = "idle"
  /\ \E head \in Visible(seen_head, head_) :
       /\ seen_head' = head
       /\ IF n > writable_size(head)
          THEN UNCHANGED <<ppc, room>>
          ELSE ppc' = "write" /\ room' = n
  /\ UNCHANGED <<tail_, done, consumer, storage_, aborted>>

WriteByte ==
  /\ ppc = "write" /\ done < room
  /\ storage_' = [storage_ EXCEPT ![Slot(Plus(tail_, done))] = Plus(tail_, done)]
  /\ done' = done + 1
  /\ UNCHANGED <<tail_, ppc, room, seen_head, consumer, aborted>>

WritePublish ==
  /\ ppc = "write" /\ done = room
  /\ tail_' = Plus(tail_, room)
  /\ ppc' = "idle" /\ room' = 0 /\ done' = 0
  /\ UNCHANGED <<seen_head, consumer, storage_, aborted>>

-----------------------------------------------------------------------------
(***************************************************************************)
(* Consumer.                                                               *)
(***************************************************************************)
readable_span ==
  /\ cpc = "idle"
  /\ \E tail \in Visible(seen_tail, tail_) :
       seen_tail' = tail /\ avail' = readable_run(tail)
  /\ cpc' = "parse"
  /\ UNCHANGED <<head_, taken, producer, storage_, aborted>>

\* Up to what readable_size said, which may be past the span: the rest is
\* dropped.  The guard loads tail_ again.
consume(count) ==
  /\ cpc = "parse" /\ count <= readable_size(seen_tail)
  /\ \E tail \in Visible(seen_tail, tail_) :
       /\ seen_tail' = tail
       /\ IF count <= readable_size(tail)
          THEN head_' = Plus(head_, count) /\ UNCHANGED aborted
          ELSE aborted' = TRUE /\ UNCHANGED head_
  /\ cpc' = "idle" /\ avail' = 0 /\ taken' = 0
  /\ UNCHANGED <<producer, storage_>>

\* Looks at the next byte of the span, in place.
ParseByte ==
  /\ cpc = "parse" /\ taken < avail
  /\ taken' = taken + 1
  /\ UNCHANGED <<head_, cpc, avail, seen_tail, producer, storage_, aborted>>

read(n) ==
  /\ cpc = "idle"
  /\ \E tail \in Visible(seen_tail, tail_) :
       seen_tail' = tail /\ avail' = Least(readable_size(tail), n)
  /\ cpc' = "copy"
  /\ UNCHANGED <<head_, taken, producer, storage_, aborted>>

CopyByte ==
  /\ cpc = "copy" /\ taken < avail
  /\ taken' = taken + 1
  /\ UNCHANGED <<head_, cpc, avail, seen_tail, producer, storage_, aborted>>

ReadRelease ==
  /\ cpc = "copy" /\ taken = avail
  /\ head_' = Plus(head_, avail)
  /\ cpc' = "idle" /\ avail' = 0 /\ taken' = 0
  /\ UNCHANGED <<seen_tail, producer, storage_, aborted>>

\* clear, with both sides quiesced: both know the new indices.
clear ==
  /\ ppc = "idle" /\ cpc = "idle"
  /\ head_' = 0 /\ tail_' = 0 /\ seen_head' = 0 /\ seen_tail' = 0
  /\ UNCHANGED <<ppc, room, done, cpc, avail, taken, storage_, aborted>>

-----------------------------------------------------------------------------
Next ==
  \/ writable_span \/ FillByte \/ WriteByte \/ WritePublish
  \/ readable_span \/ ParseByte \/ CopyByte \/ ReadRelease \/ clear
  \/ \E n \in 0 .. Capacity + 1 : try_write(n) \/ commit_write(n) \/ read(n) \/ consume(n)

Spec == Init /\ [][Next]_vars

Size == Minus(tail_, head_)

TypeOK ==
  /\ {head_, tail_, seen_head, seen_tail} \subseteq Index
  /\ storage_ \in [Slots -> Index \cup {NoByte}]
  /\ ppc \in {"idle", "fill", "write"} /\ {room, done} \subseteq 0 .. Capacity
  /\ cpc \in {"idle", "parse", "copy"} /\ {avail, taken} \subseteq 0 .. Capacity
  /\ aborted \in BOOLEAN

(***************************************************************************)
(* Every published byte is the byte of its position in the stream: none is *)
(* lost, repeated, torn or published unwritten, across the seam of the     *)
(* storage and the wrap of the indices, however span and copying calls mix *)
(* (spsc_byte_ring.hpp:155-181, 282-291).                                  *)
(***************************************************************************)
StreamIntact ==
  \A k \in 0 .. Size - 1 : storage_[Slot(Plus(head_, k))] = Plus(head_, k)

(***************************************************************************)
(* The bytes the producer may still write and the bytes the consumer may   *)
(* still read lie in the storage and are never the same: a span handed out *)
(* stays good until it is committed or consumed                            *)
(* (spsc_byte_ring.hpp:52-57, 130-133, 209-212).                           *)
(***************************************************************************)
Span(start, n) == {Slot(start) + k : k \in 0 .. n - 1}
Wrapped(start, n) == {Slot(Plus(start, k)) : k \in 0 .. n - 1}

WriteSet == IF ppc = "fill" THEN Span(tail_, room) ELSE Wrapped(tail_, room)
ReadSet == IF cpc = "parse" THEN Span(head_, avail) ELSE Wrapped(head_, avail)

SpansDisjoint == WriteSet \cup ReadSet \subseteq Slots /\ WriteSet \cap ReadSet = {}

(***************************************************************************)
(* A count within the span handed out passes commit_write's guard, and one *)
(* within readable_size passes consume's, whatever the other side did in   *)
(* between: each side's view grows and never shrinks                       *)
(* (spsc_byte_ring.hpp:55-62, 159, 226).                                   *)
(***************************************************************************)
NoAbort == ~aborted

(***************************************************************************)
(* The whole promise of spsc_byte_ring to its two sides: the stream is     *)
(* intact, the spans are disjoint and no guard fails.                      *)
(***************************************************************************)
BytesIntact == TypeOK /\ StreamIntact /\ SpansDisjoint /\ NoAbort

=============================================================================
