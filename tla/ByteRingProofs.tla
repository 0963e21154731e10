--------------------------- MODULE ByteRingProofs ----------------------------
(***************************************************************************)
(* Proof of SpscByteRing's promise for every capacity and index width.     *)
(*                                                                         *)
(* Each side works on what it last saw of the other's index.  That is      *)
(* behind the truth, so the room a producer counts on is there and the     *)
(* bytes a consumer counts on are written (ViewsInv).  The bytes in place  *)
(* are the published ones and those written behind them, and all of them   *)
(* lie within one turn of the ring (StreamInv).                            *)
(***************************************************************************)
EXTENDS SpscByteRing, TLAPS

\* Distances and slots over runs of bytes.

\* Advancing either end of a distance by any number.
LEMMA AdvanceBy ==
  ASSUME NEW a \in Index, NEW b \in Index, NEW n \in Index
  PROVE  /\ Plus(a, n) \in Index /\ Plus(b, n) \in Index
         /\ Minus(a, b) + n < Wrap => Minus(Plus(a, n), b) = Minus(a, b) + n
         /\ n <= Minus(a, b) => Minus(a, Plus(b, n)) = Minus(a, b) - n
<1>1. Plus(a, n) \in Index /\ Plus(b, n) \in Index
  BY IndexClosed, Zenon
<1>2. /\ Plus(a, n) = IF a + n < Wrap THEN a + n ELSE a + n - Wrap
      /\ Plus(b, n) = IF b + n < Wrap THEN b + n ELSE b + n - Wrap
  BY PlusCases, Zenon
<1>3. /\ Minus(a, b) = IF a >= b THEN a - b ELSE a - b + Wrap
      /\ Minus(Plus(a, n), b) =
           IF Plus(a, n) >= b THEN Plus(a, n) - b ELSE Plus(a, n) - b + Wrap
      /\ Minus(a, Plus(b, n)) =
           IF a >= Plus(b, n) THEN a - Plus(b, n) ELSE a - Plus(b, n) + Wrap
  BY <1>1, MinusCases, Zenon
<1> QED
  BY <1>1, <1>2, <1>3, Constants, SMTT(60) DEF Index

\* Bytes before the physical end of the storage follow each other there.
LEMMA RunSlots ==
  ASSUME NEW a \in Index, NEW n \in Index, Slot(a) + n < Capacity
  PROVE  Slot(Plus(a, n)) = Slot(a) + n
<1> DEFINE q == a \div Capacity
           r == a % Capacity
<1>1. r \in 0 .. Capacity - 1 /\ q \in Int /\ a = Capacity * q + r /\ a \in Int /\ n \in Int
  BY DivMod, Constants, SMT DEF Index
<1> HIDE DEF q
<1>2. a + n = Capacity * q + (r + n) /\ r + n \in 0 .. Capacity - 1 /\ a + n \in Int
  BY <1>1, Constants, SMT DEF Slot, Index
<1>3. (a + n) % Capacity = r + n
  BY <1>1, <1>2, Constants, ModUnique, SMTT(60)
<1>4. PICK k \in 1 .. Wrap : Wrap = k * Capacity
  BY CapacityAssumption, Zenon
<1>5. CASE a + n < Wrap
  BY <1>3, <1>5, PlusCases, Zenon DEF Slot
<1>6. CASE a + n >= Wrap
  <2>1. Plus(a, n) = a + n - Wrap
    BY <1>6, PlusCases, Constants, SMT DEF Index
  <2>2. Plus(a, n) = (a + n) + Capacity * (-k) /\ -k \in Int
    BY <2>1, <1>1, <1>4, Constants, SMT
  <2>3. Slot((a + n) + Capacity * (-k)) = Slot(a + n)
    BY <1>2, <2>2, SameSlot, Zenon
  <2> QED
    BY <2>2, <2>3, <1>3, Zenon DEF Slot
<1> QED
  BY <1>1, <1>2, <1>5, <1>6, Constants, SMTT(60)

\* Indices at different distances below Capacity have different slots, and at
\* the same distance they are the same.
LEMMA WindowSlots ==
  ASSUME NEW h \in Index, NEW i \in Index, NEW j \in Index
  PROVE  /\ Minus(i, h) < Minus(j, h) /\ Minus(j, h) < Capacity => Slot(i) # Slot(j)
         /\ Minus(i, h) = Minus(j, h) => i = j
<1>1. /\ Minus(i, h) = IF i >= h THEN i - h ELSE i - h + Wrap
      /\ Minus(j, h) = IF j >= h THEN j - h ELSE j - h + Wrap
      /\ Minus(j, i) = IF j >= i THEN j - i ELSE j - i + Wrap
  BY MinusCases, Zenon
<1>2. Minus(i, h) < Minus(j, h) /\ Minus(j, h) < Capacity
        => 0 < Minus(j, i) /\ Minus(j, i) < Capacity
  BY <1>1, Constants, SMT DEF Index
<1>3. Minus(i, h) < Minus(j, h) /\ Minus(j, h) < Capacity => Slot(i) # Slot(j)
  BY <1>2, SlotsDistinctInWindow, ZenonT(60)
<1>4. Minus(i, h) = Minus(j, h) => i = j
  BY <1>1, Constants, SMTT(60) DEF Index
<1> QED
  BY <1>3, <1>4, Zenon

-----------------------------------------------------------------------------
\* What each side has seen of the other's index is behind it and in the ring;
\* what it was handed fits what it has seen.
ViewsInv ==
  /\ Size <= Minus(tail_, seen_head) /\ Minus(tail_, seen_head) <= Capacity
  /\ Minus(seen_tail, head_) <= Size
  /\ done <= room /\ room <= Capacity - Minus(tail_, seen_head)
  /\ taken <= avail /\ avail <= Minus(seen_tail, head_)
  /\ ppc = "idle" => room = 0
  /\ ppc = "fill" => room <= Capacity - Slot(tail_)
  /\ cpc = "idle" => avail = 0
  /\ cpc = "parse" => avail <= Capacity - Slot(head_)

\* The published bytes and the ones written behind them are in their places.
StreamInv == \A i \in Index : Minus(i, head_) < Size + done => storage_[Slot(i)] = i

ByteInv == TypeOK /\ ViewsInv /\ StreamInv /\ ~aborted

\* A load returns an index between the last one seen and the newest.
LEMMA VisibleBetween ==
  ASSUME NEW seen \in Index, NEW newest \in Index, NEW i \in Visible(seen, newest)
  PROVE  i \in Index /\ Minus(i, seen) <= Minus(newest, seen)
<1>1. PICK k \in 0 .. Minus(newest, seen) : i = Plus(seen, k)
  BY Zenon DEF Visible
<1>2. Minus(newest, seen) \in Index
  BY IndexClosed, Zenon
<1>3. k \in Index /\ k <= Minus(newest, seen)
  BY <1>1, <1>2, Constants, SMTT(60) DEF Index
<1>4. Minus(seen, seen) = 0
  BY PlusZero, Zenon
<1>5. i \in Index /\ (0 + k < Wrap => Minus(i, seen) = 0 + k)
  BY <1>1, <1>3, <1>4, AdvanceBy
<1> QED
  BY <1>3, <1>5, Constants, SMTT(60) DEF Index

\* The numbers of a state of the ring, as the steps use them.
Numbers ==
  /\ head_ \in Index /\ tail_ \in Index /\ seen_head \in Index /\ seen_tail \in Index
  /\ room \in 0 .. Capacity /\ done \in 0 .. Capacity
  /\ avail \in 0 .. Capacity /\ taken \in 0 .. Capacity
  /\ Minus(tail_, head_) \in 0 .. Capacity
  /\ Minus(tail_, seen_head) \in 0 .. Capacity /\ Minus(seen_tail, head_) \in 0 .. Capacity
  /\ Slot(head_) \in 0 .. Capacity - 1 /\ Slot(tail_) \in 0 .. Capacity - 1
  /\ 0 .. Capacity \subseteq Index

LEMMA NumberFacts == TypeOK /\ ViewsInv => Numbers
<1> SUFFICES ASSUME TypeOK, ViewsInv PROVE Numbers
  BY Zenon
<1>1. head_ \in Index /\ tail_ \in Index /\ seen_head \in Index /\ seen_tail \in Index
  BY Zenon DEF TypeOK
<1>2. /\ room \in 0 .. Capacity /\ done \in 0 .. Capacity
      /\ avail \in 0 .. Capacity /\ taken \in 0 .. Capacity
  BY Zenon DEF TypeOK
<1>3. /\ Minus(tail_, head_) \in Index /\ Minus(tail_, seen_head) \in Index
      /\ Minus(seen_tail, head_) \in Index
  BY <1>1, IndexClosed, Zenon
<1>4. /\ Minus(tail_, head_) <= Minus(tail_, seen_head) /\ Minus(tail_, seen_head) <= Capacity
      /\ Minus(seen_tail, head_) <= Minus(tail_, head_)
  BY Zenon DEF ViewsInv, Size
<1>5. Slot(head_) \in 0 .. Capacity - 1 /\ Slot(tail_) \in 0 .. Capacity - 1
  BY <1>1, SlotInRange, Zenon DEF Slots
<1>6. /\ Minus(tail_, head_) \in 0 .. Capacity
      /\ Minus(tail_, seen_head) \in 0 .. Capacity /\ Minus(seen_tail, head_) \in 0 .. Capacity
  BY <1>3, <1>4, Constants, SMTT(60) DEF Index
<1>7. 0 .. Capacity \subseteq Index
  BY Constants, SMTT(60) DEF Index
<1> QED
  BY <1>1, <1>2, <1>5, <1>6, <1>7, Zenon DEF Numbers

\* What a load of the other side's index can return.
LEMMA LoadHead ==
  ASSUME Numbers, ViewsInv, NEW h \in Visible(seen_head, head_)
  PROVE  /\ h \in Index
         /\ Minus(tail_, h) \in 0 .. Capacity
         /\ Size <= Minus(tail_, h) /\ Minus(tail_, h) <= Minus(tail_, seen_head)
<1>1. h \in Index /\ Minus(h, seen_head) <= Minus(head_, seen_head)
  BY VisibleBetween, Zenon DEF Numbers
<1>2. Size <= Minus(tail_, h) /\ Minus(tail_, h) <= Minus(tail_, seen_head)
  BY <1>1, Between, Zenon DEF Numbers, ViewsInv, Size
<1>3. Minus(tail_, h) \in Index
  BY <1>1, IndexClosed, ZenonT(60) DEF Numbers
<1> QED
  BY <1>1, <1>2, <1>3, Constants, SMT DEF Numbers, Index

LEMMA LoadTail ==
  ASSUME Numbers, ViewsInv, NEW t \in Visible(seen_tail, tail_)
  PROVE  /\ t \in Index
         /\ Minus(t, head_) \in 0 .. Capacity
         /\ Minus(seen_tail, head_) <= Minus(t, head_) /\ Minus(t, head_) <= Size
<1>1. t \in Index /\ Minus(t, seen_tail) <= Minus(tail_, seen_tail)
  BY VisibleBetween, Zenon DEF Numbers
<1>2. Minus(seen_tail, head_) <= Minus(t, head_) /\ Minus(t, head_) <= Size
  BY <1>1, BetweenFrom, Zenon DEF Numbers, ViewsInv, Size
<1>3. Minus(t, head_) \in Index
  BY <1>1, IndexClosed, Zenon DEF Numbers
<1> QED
  BY <1>1, <1>2, <1>3, Constants, SMT DEF Numbers, Index, Size

\* Writing the next byte behind the ones in place, where no byte in place is.
LEMMA WriteNext ==
  ASSUME ByteInv, done < room,
         storage_' = [storage_ EXCEPT ![Slot(Plus(tail_, done))] = Plus(tail_, done)],
         done' = done + 1, UNCHANGED <<head_, tail_>>
  PROVE  storage_' \in [Slots -> Index \cup {NoByte}] /\ StreamInv'
<1> DEFINE j == Plus(tail_, done)
<1>0. Numbers
  BY NumberFacts, ZenonT(60) DEF ByteInv
<1>1. done \in Index /\ Size + done < Capacity /\ Size + done \in Nat
  BY <1>0, Constants, SMTT(60) DEF Numbers, ByteInv, ViewsInv, Size
<1>2. j \in Index /\ (Minus(tail_, head_) + done < Wrap => Minus(j, head_) = Minus(tail_, head_) + done)
  BY <1>0, <1>1, AdvanceBy, SMTT(60) DEF Numbers
<1>3. Minus(j, head_) = Size + done
  BY <1>1, <1>2, Constants, SMT DEF Size
<1> HIDE DEF j
<1>4. storage_' = [storage_ EXCEPT ![Slot(j)] = j] /\ Slot(j) \in Slots
  BY <1>2, SlotInRange, Zenon DEF j
<1>5. storage_ \in [Slots -> Index \cup {NoByte}]
  BY Zenon DEF ByteInv, TypeOK
<1>6. ASSUME NEW i \in Index, Minus(i, head_) < Size + (done + 1)
      PROVE  storage_'[Slot(i)] = i
  <2>1. Minus(i, head_) \in Index /\ Slot(i) \in Slots
    BY <1>0, IndexClosed, SlotInRange, Zenon DEF Numbers
  <2>2. CASE Minus(i, head_) = Size + done
    <3>1. i = j
      BY <1>0, <1>2, <1>3, <2>2, WindowSlots, ZenonT(60) DEF Numbers
    <3> QED
      BY <3>1, <1>4, <1>5, Zenon
  <2>3. CASE Minus(i, head_) < Size + done
    <3>1. Slot(i) # Slot(j)
      <4>1. head_ \in Index /\ Minus(i, head_) < Minus(j, head_) /\ Minus(j, head_) < Capacity
        BY <1>0, <1>1, <1>3, <2>3, Zenon DEF Numbers
      <4> QED
        BY <4>1, <1>2, WindowSlots, Zenon
    <3>2. storage_[Slot(i)] = i
      BY <2>3, Zenon DEF ByteInv, StreamInv
    <3> QED
      BY <3>1, <3>2, <1>4, <1>5, <2>1, Zenon
  <2>4. Minus(i, head_) = Size + done \/ Minus(i, head_) < Size + done
    BY <1>0, <1>6, <2>1, SMT DEF Numbers, Size, Index
  <2> QED
    BY <2>2, <2>3, <2>4, Zenon
<1>7. Size' = Size
  BY Zenon DEF Size
<1> QED
  BY <1>2, <1>4, <1>5, <1>6, <1>7, ZenonT(60) DEF StreamInv

\* Publishing n of the bytes written, within what the producer has seen free.
LEMMA PublishSome ==
  ASSUME ByteInv, NEW n \in Nat, n <= done, NEW h \in Index,
         Minus(tail_, h) \in 0 .. Capacity, Size <= Minus(tail_, h),
         Minus(tail_, h) <= Minus(tail_, seen_head),
         tail_' = Plus(tail_, n), seen_head' = h, ppc' = "idle", room' = 0, done' = 0,
         UNCHANGED <<consumer, storage_, aborted>>
  PROVE  ByteInv'
<1>0. Numbers
  BY NumberFacts, Zenon DEF ByteInv
<1>1. n \in Index /\ Minus(tail_, h) + n <= Capacity /\ Size + n <= Capacity
  BY <1>0, Constants, SMT DEF Numbers, ByteInv, ViewsInv, Size, Index
<1>2. /\ tail_' \in Index
      /\ Minus(tail_, h) + n < Wrap => Minus(tail_', h) = Minus(tail_, h) + n
      /\ Minus(tail_, head_) + n < Wrap => Minus(tail_', head_) = Minus(tail_, head_) + n
  BY <1>0, <1>1, AdvanceBy, SMTT(60) DEF Numbers
<1>3. Minus(tail_', h) = Minus(tail_, h) + n /\ Minus(tail_', head_) = Minus(tail_, head_) + n
  BY <1>0, <1>1, <1>2, Constants, SMT DEF Numbers, Size
<1>4. UNCHANGED <<head_, cpc, avail, taken, seen_tail>>
  BY Zenon DEF consumer
<1>5. TypeOK'
  BY <1>2, <1>4, Constants, SMT DEF ByteInv, TypeOK
<1>6. ViewsInv'
  <2>1. Size' = Size + n
    BY <1>3, <1>4, Zenon DEF Size
  <2>2. Size' <= Minus(tail_', seen_head') /\ Minus(tail_', seen_head') <= Capacity
    BY <2>1, <1>0, <1>1, <1>3, Constants, SMTT(60) DEF Numbers, Size
  <2>3. Minus(seen_tail, head_) <= Size'
    BY <2>1, <1>0, SMTT(60) DEF Numbers, ByteInv, ViewsInv, Size
  <2>4. room' <= Capacity - Minus(tail_', seen_head') /\ done' <= room'
    BY <1>0, <1>1, <1>3, Constants, SMTT(60) DEF Numbers
  <2> QED
    BY <1>4, <2>2, <2>3, <2>4, Zenon DEF ByteInv, ViewsInv
<1>7. StreamInv'
  <2>1. Size' = Size + n
    BY <1>3, <1>4, Zenon DEF Size
  <2>2. ASSUME NEW i \in Index, Minus(i, head_) < Size' + done' PROVE Minus(i, head_) < Size + done
    <3>1. Minus(i, head_) \in Int
      BY <1>0, IndexClosed DEF Numbers, Index
    <3> QED
      BY <3>1, <2>1, <2>2, <1>0, SMTT(60) DEF Numbers, Size
  <2> QED
    BY <2>2, <1>4, Zenon DEF ByteInv, StreamInv
<1> QED
  BY <1>5, <1>6, <1>7, Zenon DEF ByteInv

\* Releasing n bytes, within what the consumer has seen published.
LEMMA ReleaseSome ==
  ASSUME ByteInv, NEW n \in Nat, NEW t \in Index,
         Minus(t, head_) \in 0 .. Capacity, n <= Minus(t, head_), Minus(t, head_) <= Size,
         head_' = Plus(head_, n), seen_tail' = t, cpc' = "idle", avail' = 0, taken' = 0,
         UNCHANGED <<producer, storage_, aborted>>
  PROVE  ByteInv'
<1>0. Numbers
  BY NumberFacts, Zenon DEF ByteInv
<1>1. n \in Index /\ n <= Minus(tail_, head_)
  BY <1>0, Constants, SMT DEF Numbers, Size, Index
<1>2. /\ head_' \in Index
      /\ Minus(t, head_') = Minus(t, head_) - n
      /\ Minus(tail_, head_') = Minus(tail_, head_) - n
  BY <1>0, <1>1, AdvanceBy DEF Numbers
<1>4. UNCHANGED <<tail_, ppc, room, done, seen_head>>
  BY Zenon DEF producer
<1>5. TypeOK'
  BY <1>2, <1>4, Constants, SMT DEF ByteInv, TypeOK
<1>6. ViewsInv'
  <2>1. Size' = Size - n
    BY <1>2, <1>4, Zenon DEF Size
  <2>2. Size' <= Minus(tail_, seen_head)
    BY <2>1, <1>0, SMT DEF Numbers, ByteInv, ViewsInv, Size
  <2>3. Minus(seen_tail', head_') <= Size'
    BY <2>1, <1>0, <1>2, SMT DEF Numbers, Size
  <2>4. avail' <= Minus(seen_tail', head_') /\ taken' <= avail'
    BY <1>2, SMT
  <2> QED
    BY <1>4, <2>2, <2>3, <2>4, Zenon DEF ByteInv, ViewsInv
<1>7. StreamInv'
  <2>1. Size' = Size - n
    BY <1>2, <1>4, Zenon DEF Size
  <2>2. ASSUME NEW i \in Index, Minus(i, head_') < Size' + done' PROVE Minus(i, head_) < Size + done
    <3>1. Minus(i, head_') \in Index
      BY <1>2, IndexClosed, ZenonT(60)
    <3>2. /\ Minus(i, head_) = IF i >= head_ THEN i - head_ ELSE i - head_ + Wrap
          /\ Minus(i, head_') = IF i >= head_' THEN i - head_' ELSE i - head_' + Wrap
          /\ head_' = IF head_ + n < Wrap THEN head_ + n ELSE head_ + n - Wrap
      BY <1>0, <1>1, <1>2, MinusCases, PlusCases, SMTT(60) DEF Numbers
    <3>3. Minus(i, head_') + n < Wrap
      BY <3>1, <2>1, <2>2, <1>0, <1>4, Constants, SMTT(60) DEF Numbers, ByteInv, ViewsInv, Size, Index
    <3>4. Minus(i, head_) = Minus(i, head_') + n
      BY <3>2, <3>3, <1>0, <1>1, <1>2, Constants, SMTT(60) DEF Numbers, Index
    <3> QED
      BY <3>1, <3>4, <2>1, <2>2, <1>0, <1>4, SMTT(60) DEF Numbers, Size, Index
  <2> QED
    BY <2>2, <1>4, Zenon DEF ByteInv, StreamInv
<1> QED
  BY <1>5, <1>6, <1>7, Zenon DEF ByteInv

\* A step that changes one side's view or its progress and no byte.
LEMMA ProducerMoves ==
  ASSUME ByteInv, UNCHANGED <<tail_, consumer, storage_, aborted>>, seen_head' \in Index,
         Size <= Minus(tail_, seen_head'), Minus(tail_, seen_head') <= Capacity,
         done' = done, done <= room', room' \in 0 .. Capacity - Minus(tail_, seen_head'),
         ppc' \in {"idle", "fill", "write"}, ppc' = "idle" => room' = 0,
         ppc' = "fill" => room' <= Capacity - Slot(tail_)
  PROVE  ByteInv'
<1>0. Numbers
  BY NumberFacts, Zenon DEF ByteInv
<1>1. UNCHANGED <<head_, cpc, avail, taken, seen_tail>> /\ Size' = Size
  BY Zenon DEF consumer, Size
<1>2. room' \in 0 .. Capacity
  <2>1. Minus(tail_, seen_head') \in Index
    BY <1>0, IndexClosed, Zenon DEF Numbers
  <2> QED
    BY <2>1, Constants, SMT DEF Index
<1>3. TypeOK'
  BY <1>1, <1>2, Zenon DEF ByteInv, TypeOK
<1>4. ViewsInv'
  <2>1. room' <= Capacity - Minus(tail_, seen_head')
    BY SMT
  <2> QED
    BY <1>1, <2>1, Zenon DEF ByteInv, ViewsInv
<1>5. StreamInv'
  BY <1>1, Zenon DEF ByteInv, StreamInv
<1> QED
  BY <1>3, <1>4, <1>5, Zenon DEF ByteInv

LEMMA ConsumerMoves ==
  ASSUME ByteInv, UNCHANGED <<head_, producer, storage_, aborted>>, seen_tail' \in Index,
         Minus(seen_tail', head_) <= Size,
         taken' \in 0 .. avail', avail' \in 0 .. Minus(seen_tail', head_),
         cpc' \in {"idle", "parse", "copy"}, cpc' = "idle" => avail' = 0,
         cpc' = "parse" => avail' <= Capacity - Slot(head_)
  PROVE  ByteInv'
<1>0. Numbers
  BY NumberFacts, Zenon DEF ByteInv
<1>1. UNCHANGED <<tail_, ppc, room, done, seen_head>> /\ Size' = Size
  BY Zenon DEF producer, Size
<1>2. /\ avail' \in 0 .. Capacity /\ taken' \in 0 .. Capacity
      /\ avail' <= Minus(seen_tail', head_) /\ taken' <= avail'
  <2>1. Minus(seen_tail', head_) \in Index
    BY <1>0, IndexClosed, Zenon DEF Numbers
  <2> QED
    BY <2>1, <1>0, Constants, SMT DEF Index, Numbers, Size
<1>3. TypeOK'
  BY <1>1, <1>2, Zenon DEF ByteInv, TypeOK
<1>4. ViewsInv'
  BY <1>1, <1>2, Zenon DEF ByteInv, ViewsInv
<1>5. StreamInv'
  BY <1>1, Zenon DEF ByteInv, StreamInv
<1> QED
  BY <1>3, <1>4, <1>5, Zenon DEF ByteInv

LEMMA ProducerSteps ==
  ASSUME ByteInv,
         \/ writable_span \/ FillByte \/ WriteByte \/ WritePublish
         \/ \E n \in 0 .. Capacity + 1 : try_write(n) \/ commit_write(n)
  PROVE  ByteInv'
<1>0. Numbers /\ ViewsInv
  BY NumberFacts, Zenon DEF ByteInv
<1>1. CASE writable_span
  <2>1. PICK h \in Visible(seen_head, head_) : seen_head' = h /\ room' = writable_run(h)
    BY <1>1, Zenon DEF writable_span
  <2>2. /\ h \in Index /\ Minus(tail_, h) \in 0 .. Capacity
        /\ Size <= Minus(tail_, h) /\ Minus(tail_, h) <= Minus(tail_, seen_head)
    BY <1>0, LoadHead, Zenon
  <2>3. room' \in 0 .. Capacity - Minus(tail_, h) /\ room' <= Capacity - Slot(tail_)
    BY <1>0, <2>1, <2>2, Constants, SMTT(60) DEF writable_run, writable_size, Least, Numbers
  <2>4. done <= room' /\ Minus(tail_, h) <= Capacity
    BY <1>0, <1>1, <2>2, <2>3, SMT DEF writable_span, ViewsInv, Numbers
  <2> QED
    BY <1>1, <2>1, <2>2, <2>3, <2>4, ProducerMoves, ZenonT(60) DEF writable_span
<1>2. ASSUME NEW n \in 0 .. Capacity + 1, try_write(n) PROVE ByteInv'
  <2>1. PICK h \in Visible(seen_head, head_) :
          /\ seen_head' = h
          /\ IF n > writable_size(h) THEN UNCHANGED <<ppc, room>> ELSE ppc' = "write" /\ room' = n
    BY <1>2, Zenon DEF try_write
  <2>2. /\ h \in Index /\ Minus(tail_, h) \in 0 .. Capacity
        /\ Size <= Minus(tail_, h) /\ Minus(tail_, h) <= Minus(tail_, seen_head)
    BY <1>0, LoadHead, Zenon
  <2>3. ppc = "idle" /\ room = 0 /\ done = 0 /\ Minus(tail_, h) <= Capacity
    BY <1>0, <1>2, <2>2, SMT DEF try_write, ViewsInv, Numbers
  <2>4. CASE n > writable_size(h)
    <3>1. room' = 0 /\ ppc' = "idle" /\ room' \in 0 .. Capacity - Minus(tail_, h) /\ done <= room'
      BY <2>1, <2>2, <2>3, <2>4, Constants, SMTT(60)
    <3> QED
      BY <1>2, <2>1, <2>2, <2>3, <3>1, ProducerMoves, Zenon DEF try_write
  <2>5. CASE ~(n > writable_size(h))
    <3>1. ppc' = "write" /\ room' \in 0 .. Capacity - Minus(tail_, h) /\ done <= room'
      BY <2>1, <2>2, <2>3, <2>5, Constants, SMTT(60) DEF writable_size
    <3> QED
      BY <1>2, <2>1, <2>2, <2>3, <3>1, ProducerMoves, Zenon DEF try_write
  <2> QED
    BY <2>4, <2>5, Zenon
<1>3. CASE FillByte \/ WriteByte
  <2>1. done < room /\ done' = done + 1 /\ UNCHANGED <<tail_, ppc, room, seen_head, consumer, aborted>>
    BY <1>3, Zenon DEF FillByte, WriteByte
  <2>2. storage_' = [storage_ EXCEPT ![Slot(Plus(tail_, done))] = Plus(tail_, done)]
    <3>1. CASE FillByte
      <4>1. Slot(tail_) + done < Capacity
        BY <1>0, <2>1, <3>1, Constants, SMT DEF FillByte, ViewsInv, Numbers
      <4>2. Slot(Plus(tail_, done)) = Slot(tail_) + done
        BY <1>0, <4>1, RunSlots, Zenon DEF Numbers
      <4> QED
        BY <3>1, <4>2, Zenon DEF FillByte
    <3>2. CASE WriteByte
      BY <3>2, Zenon DEF WriteByte
    <3> QED
      BY <1>3, <3>1, <3>2, Zenon
  <2>3. UNCHANGED <<head_, tail_>>
    BY <2>1, Zenon DEF consumer
  <2>4. storage_' \in [Slots -> Index \cup {NoByte}] /\ StreamInv'
    BY <2>1, <2>2, <2>3, WriteNext, Zenon
  <2>5. done' \in 0 .. Capacity /\ done' <= room
    BY <1>0, <2>1, Constants, SMT DEF Numbers
  <2>6. TypeOK'
    BY <2>1, <2>4, <2>5, Zenon DEF ByteInv, TypeOK, consumer
  <2>7. ViewsInv'
    BY <2>1, <2>5, Zenon DEF ByteInv, ViewsInv, Size, consumer
  <2> QED
    BY <2>1, <2>4, <2>6, <2>7, Zenon DEF ByteInv
<1>4. ASSUME NEW n \in 0 .. Capacity + 1, commit_write(n) PROVE ByteInv'
  <2>1. PICK h \in Visible(seen_head, head_) :
          /\ seen_head' = h
          /\ IF n <= writable_run(h) THEN tail_' = Plus(tail_, n) /\ UNCHANGED aborted
             ELSE aborted' = TRUE /\ UNCHANGED tail_
    BY <1>4, Zenon DEF commit_write
  <2>2. /\ h \in Index /\ Minus(tail_, h) \in 0 .. Capacity
        /\ Size <= Minus(tail_, h) /\ Minus(tail_, h) <= Minus(tail_, seen_head)
    BY <1>0, LoadHead, Zenon
  <2>3. n \in Nat /\ n <= done
    BY <1>4, Constants, SMTT(60) DEF commit_write
  <2>4. n <= writable_run(h)
    BY <1>0, <1>4, <2>2, <2>3, Constants, SMTT(60)
       DEF commit_write, writable_run, writable_size, Least, ViewsInv, Numbers
  <2> QED
    BY <1>4, <2>1, <2>2, <2>3, <2>4, PublishSome, Zenon DEF commit_write
<1>5. CASE WritePublish
  <2>1. room \in Nat /\ room <= done /\ Minus(tail_, seen_head) <= Minus(tail_, seen_head)
    BY <1>0, <1>5, SMT DEF WritePublish, Numbers
  <2> QED
    BY <1>0, <1>5, <2>1, PublishSome, Zenon DEF WritePublish, Numbers, ViewsInv
<1> QED
  BY <1>1, <1>2, <1>3, <1>4, <1>5, ZenonT(60)

LEMMA ConsumerSteps ==
  ASSUME ByteInv,
         \/ readable_span \/ ParseByte \/ CopyByte \/ ReadRelease
         \/ \E n \in 0 .. Capacity + 1 : read(n) \/ consume(n)
  PROVE  ByteInv'
<1>0. Numbers /\ ViewsInv
  BY NumberFacts, Zenon DEF ByteInv
<1>1. CASE readable_span
  <2>1. PICK t \in Visible(seen_tail, tail_) : seen_tail' = t /\ avail' = readable_run(t)
    BY <1>1, Zenon DEF readable_span
  <2>2. /\ t \in Index /\ Minus(t, head_) \in 0 .. Capacity
        /\ Minus(seen_tail, head_) <= Minus(t, head_) /\ Minus(t, head_) <= Size
    BY <1>0, LoadTail, Zenon
  <2>3. avail' \in 0 .. Minus(t, head_) /\ avail' <= Capacity - Slot(head_)
    BY <1>0, <2>1, <2>2, Constants, SMTT(60) DEF readable_run, readable_size, Least, Numbers
  <2>4. taken' \in 0 .. avail'
    BY <1>0, <1>1, <2>3, SMT DEF readable_span, ViewsInv, Numbers
  <2> QED
    BY <1>1, <2>1, <2>2, <2>3, <2>4, ConsumerMoves, Zenon DEF readable_span
<1>2. ASSUME NEW n \in 0 .. Capacity + 1, read(n) PROVE ByteInv'
  <2>1. PICK t \in Visible(seen_tail, tail_) :
          seen_tail' = t /\ avail' = Least(readable_size(t), n)
    BY <1>2, Zenon DEF read
  <2>2. /\ t \in Index /\ Minus(t, head_) \in 0 .. Capacity
        /\ Minus(seen_tail, head_) <= Minus(t, head_) /\ Minus(t, head_) <= Size
    BY <1>0, LoadTail, Zenon
  <2>3. avail' \in 0 .. Minus(t, head_)
    BY <1>0, <2>1, <2>2, Constants, SMTT(60) DEF readable_size, Least
  <2>4. taken' \in 0 .. avail'
    BY <1>0, <1>2, <2>3, SMT DEF read, ViewsInv, Numbers
  <2> QED
    BY <1>2, <2>1, <2>2, <2>3, <2>4, ConsumerMoves, Zenon DEF read
<1>3. CASE ParseByte \/ CopyByte
  <2>1. /\ taken < avail /\ taken' = taken + 1 /\ avail' = avail /\ cpc' = cpc
        /\ UNCHANGED <<head_, seen_tail, producer, storage_, aborted>>
    BY <1>3, Zenon DEF ParseByte, CopyByte
  <2>2. taken' \in 0 .. avail' /\ avail' \in 0 .. Minus(seen_tail, head_)
    BY <1>0, <2>1, SMT DEF Numbers, ViewsInv
  <2>3. cpc \in {"idle", "parse", "copy"}
    BY Zenon DEF ByteInv, TypeOK
  <2> QED
    BY <1>0, <2>1, <2>2, <2>3, ConsumerMoves, Zenon DEF Numbers, ViewsInv
<1>4. ASSUME NEW n \in 0 .. Capacity + 1, consume(n) PROVE ByteInv'
  <2>1. PICK t \in Visible(seen_tail, tail_) :
          /\ seen_tail' = t
          /\ IF n <= readable_size(t) THEN head_' = Plus(head_, n) /\ UNCHANGED aborted
             ELSE aborted' = TRUE /\ UNCHANGED head_
    BY <1>4, Zenon DEF consume
  <2>2. /\ t \in Index /\ Minus(t, head_) \in 0 .. Capacity
        /\ Minus(seen_tail, head_) <= Minus(t, head_) /\ Minus(t, head_) <= Size
    BY <1>0, LoadTail, Zenon
  <2>3. n \in Nat /\ n <= readable_size(t) /\ n <= Minus(t, head_)
    BY <1>0, <1>4, <2>2, Constants, SMTT(60) DEF consume, readable_size, Numbers
  <2> QED
    BY <1>4, <2>1, <2>2, <2>3, ReleaseSome, Zenon DEF consume
<1>5. CASE ReadRelease
  <2>1. avail \in Nat /\ avail <= Minus(seen_tail, head_)
    BY <1>0, SMT DEF Numbers, ViewsInv
  <2> QED
    BY <1>0, <1>5, <2>1, ReleaseSome, Zenon DEF ReadRelease, Numbers, ViewsInv
<1> QED
  BY <1>1, <1>2, <1>3, <1>4, <1>5, Zenon

LEMMA ByteInit == Init => ByteInv
<1> SUFFICES ASSUME Init PROVE ByteInv
  BY Zenon
<1>1. 0 \in Index /\ 0 \in 0 .. Capacity /\ Slot(0) \in 0 .. Capacity - 1
  BY Constants, SlotInRange, SMT DEF Index, Slots
<1>2. Minus(0, 0) = 0
  BY <1>1, PlusZero, Zenon
<1>3. TypeOK
  BY <1>1, Zenon DEF Init, TypeOK
<1>4. ViewsInv
  BY <1>1, <1>2, Constants, SMT DEF Init, ViewsInv, Size
<1>5. StreamInv
  <2>1. Size = 0 /\ done = 0
    BY <1>2, Zenon DEF Init, Size
  <2>2. \A i \in Index : ~(Minus(i, head_) < 0)
    BY <1>1, IndexClosed, Constants, SMTT(60) DEF Init, Index
  <2> QED
    BY <2>1, <2>2, SMTT(60) DEF StreamInv
<1> QED
  BY <1>3, <1>4, <1>5, Zenon DEF Init, ByteInv

LEMMA ClearStep == ByteInv /\ clear => ByteInv'
<1> SUFFICES ASSUME ByteInv, clear PROVE ByteInv'
  BY Zenon
<1>0. Numbers /\ ViewsInv
  BY NumberFacts, Zenon DEF ByteInv
<1>1. 0 \in Index /\ Slot(0) \in 0 .. Capacity - 1
  BY Constants, SlotInRange DEF Index, Slots
<1>2. Minus(0, 0) = 0
  BY <1>1, PlusZero, Zenon
<1>3. /\ ppc' = "idle" /\ cpc' = "idle" /\ room' = 0 /\ done' = 0 /\ avail' = 0 /\ taken' = 0
      /\ head_' = 0 /\ tail_' = 0 /\ seen_head' = 0 /\ seen_tail' = 0
  BY <1>0, SMT DEF clear, ViewsInv, Numbers
<1>4. TypeOK'
  BY <1>1, <1>3, Zenon DEF clear, ByteInv, TypeOK
<1>5. ViewsInv'
  BY <1>1, <1>2, <1>3, Constants, SMT DEF ViewsInv, Size
<1>6. StreamInv'
  <2>1. Size' + done' = 0
    BY <1>2, <1>3 DEF Size
  <2>2. \A i \in Index : ~(Minus(i, 0) < 0)
    BY <1>1, IndexClosed, Constants, SMT DEF Index
  <2> QED
    BY <1>3, <2>1, <2>2, Zenon DEF StreamInv
<1> QED
  BY <1>4, <1>5, <1>6, Zenon DEF clear, ByteInv

LEMMA ByteStep == ByteInv /\ [Next]_vars => ByteInv'
<1> SUFFICES ASSUME ByteInv, [Next]_vars PROVE ByteInv'
  BY Zenon
<1>1. CASE UNCHANGED vars
  BY <1>1, Zenon DEF vars, producer, consumer, ByteInv, TypeOK, ViewsInv, StreamInv, Size
<1>2. CASE Next
  BY <1>2, ProducerSteps, ConsumerSteps, ClearStep, Zenon DEF Next
<1> QED
  BY <1>1, <1>2, Zenon

\* The bytes a side may touch, by their indices.
LEMMA SpanIndices ==
  ASSUME ByteInv
  PROVE  /\ WriteSet = {Slot(Plus(tail_, k)) : k \in 0 .. room - 1}
         /\ ReadSet = {Slot(Plus(head_, k)) : k \in 0 .. avail - 1}
<1>0. Numbers /\ ViewsInv
  BY NumberFacts, Zenon DEF ByteInv
<1>1. WriteSet = {Slot(Plus(tail_, k)) : k \in 0 .. room - 1}
  <2>1. ASSUME ppc = "fill", NEW k \in 0 .. room - 1
        PROVE  Slot(Plus(tail_, k)) = Slot(tail_) + k
    <3>1. Slot(tail_) + k < Capacity /\ k \in 0 .. Capacity
      BY <1>0, <2>1, Constants, SMT DEF ViewsInv, Numbers
    <3> QED
      BY <1>0, <3>1, RunSlots, Zenon DEF Numbers
  <2>2. CASE ppc = "fill"
    BY <2>1, <2>2, Zenon DEF WriteSet, Span
  <2>3. CASE ppc # "fill"
    BY <2>3, Zenon DEF WriteSet, Wrapped
  <2> QED
    BY <2>2, <2>3, Zenon
<1>2. ReadSet = {Slot(Plus(head_, k)) : k \in 0 .. avail - 1}
  <2>1. ASSUME cpc = "parse", NEW k \in 0 .. avail - 1
        PROVE  Slot(Plus(head_, k)) = Slot(head_) + k
    <3>1. Slot(head_) + k < Capacity /\ k \in 0 .. Capacity
      BY <1>0, <2>1, Constants, SMT DEF ViewsInv, Numbers
    <3> QED
      BY <1>0, <3>1, RunSlots, Zenon DEF Numbers
  <2>2. CASE cpc = "parse"
    BY <2>1, <2>2, Zenon DEF ReadSet, Span
  <2>3. CASE cpc # "parse"
    BY <2>3, Zenon DEF ReadSet, Wrapped
  <2> QED
    BY <2>2, <2>3, Zenon
<1> QED
  BY <1>1, <1>2, Zenon

LEMMA ByteInvIntact == ByteInv => BytesIntact
<1> SUFFICES ASSUME ByteInv PROVE BytesIntact
  BY Zenon
<1>0. Numbers /\ ViewsInv /\ Minus(head_, head_) = 0
  BY NumberFacts, PlusZero, Zenon DEF ByteInv, Numbers
<1>1. ASSUME NEW k \in 0 .. room - 1
      PROVE  /\ Plus(tail_, k) \in Index
             /\ Minus(Plus(tail_, k), head_) = Size + k
             /\ Size + k < Capacity
  <2>1. k \in 0 .. Capacity /\ Size + k < Capacity
    BY <1>0, Constants, SMTT(60) DEF Numbers, ViewsInv, Size
  <2>2. /\ Plus(tail_, k) \in Index
        /\ Size + k < Wrap => Minus(Plus(tail_, k), head_) = Size + k
    BY <1>0, <2>1, AdvanceBy DEF Numbers, Size
  <2> QED
    BY <1>0, <2>1, <2>2, Constants, SMTT(60) DEF Numbers, Size
<1>2. ASSUME NEW k \in 0 .. Size - 1
      PROVE  Plus(head_, k) \in Index /\ Minus(Plus(head_, k), head_) = k
  <2>1. k \in 0 .. Capacity /\ 0 + k < Wrap /\ 0 + k = k
    BY <1>0, Constants, SMT DEF Numbers, Size
  <2> QED
    BY <1>0, <2>1, AdvanceBy, SMTT(60) DEF Numbers
<1>3. StreamIntact
  <2> SUFFICES ASSUME NEW k \in 0 .. Size - 1
               PROVE  storage_[Slot(Plus(head_, k))] = Plus(head_, k)
    BY Zenon DEF StreamIntact
  <2>1. Minus(Plus(head_, k), head_) < Size + done
    BY <1>0, <1>2, SMT DEF Numbers, Size
  <2> QED
    BY <1>2, <2>1, Zenon DEF ByteInv, StreamInv
<1>4. 0 .. avail - 1 \subseteq 0 .. Size - 1
  BY <1>0, SMT DEF Numbers, ViewsInv, Size
<1>5. SpansDisjoint
  <2>1. WriteSet \subseteq Slots
    BY <1>1, SpanIndices, SlotInRange
  <2>2. ReadSet \subseteq Slots
    BY <1>2, <1>4, SpanIndices, SlotInRange
  <2>3. ASSUME NEW k \in 0 .. room - 1, NEW m \in 0 .. avail - 1
        PROVE  Slot(Plus(head_, m)) # Slot(Plus(tail_, k))
    <3>1. m \in 0 .. Size - 1 /\ m < Size + k
      BY <1>0, <1>4, SMT DEF Numbers, Size
    <3>2. /\ Plus(tail_, k) \in Index /\ Plus(head_, m) \in Index /\ head_ \in Index
          /\ Minus(Plus(head_, m), head_) < Minus(Plus(tail_, k), head_)
          /\ Minus(Plus(tail_, k), head_) < Capacity
      BY <1>0, <1>1, <1>2, <3>1, Zenon DEF Numbers
    <3> QED
      BY <3>2, WindowSlots, Zenon
  <2> QED
    BY <2>1, <2>2, <2>3, SpanIndices, Zenon DEF SpansDisjoint
<1> QED
  BY <1>3, <1>5, Zenon DEF BytesIntact, ByteInv, NoAbort

(***************************************************************************)
(* spsc_byte_ring, for every capacity and index width: the stream that is  *)
(* published arrives byte for byte, the bytes the producer may write and   *)
(* the bytes the consumer may read never meet, and no count within what    *)
(* was handed out fails a guard (spsc_byte_ring.hpp:52-62, 130-133,        *)
(* 155-181, 209-226, 282-291).                                             *)
(***************************************************************************)
THEOREM BytesSafe == Spec => []BytesIntact
BY ByteInit, ByteStep, ByteInvIntact, PTL DEF Spec

=============================================================================
