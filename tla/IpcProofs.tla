------------------------------- MODULE IpcProofs -------------------------------
(***************************************************************************)
(* Proofs about three components that share no state: the ring of          *)
(* BT_SPSC_PUSH and BT_SPSC_POP, for every capacity; the journal that is   *)
(* filled through such a ring, for every size of ring, entry, buffer and   *)
(* batch, with fsync on or off and any set of faults; and the shared       *)
(* memory segments, for any number of processes, segments and crashes.     *)
(***************************************************************************)
EXTENDS SpscQueue, Journal, Shmem, SequenceFacts, TLAPS
--------------------------------------------------------------------------------
(* The ring *)

\* "& mask" of an index that has passed the end of the ring at most once.
LEMMA WrapOnce ==
  ASSUME NEW i \in 0 .. 2 * Cap - 1
  PROVE  Wrap(i) = IF i < Cap THEN i ELSE i - Cap
<1>1. CASE i < Cap
  BY <1>1, CapAssumption DEF Wrap
<1>2. CASE i >= Cap
  BY <1>2, CapAssumption DEF Wrap
<1> QED BY <1>1, <1>2, CapAssumption

\* The index after one step lies in the ring again.
LEMMA WrapNext ==
  ASSUME NEW i \in Slots
  PROVE  Wrap(i + 1) = IF i + 1 = Cap THEN 0 ELSE i + 1
BY WrapOnce, CapAssumption DEF Slots

\* The indices, the buffer and the locals of BT_SPSC_PUSH and BT_SPSC_POP keep
\* their types.
LEMMA TypeStep == SpscTypeOK /\ [SpscNext]_spscVars => SpscTypeOK'
<1> SUFFICES ASSUME SpscTypeOK, [SpscNext]_spscVars PROVE SpscTypeOK'
  BY Zenon
<1> USE DEF SpscTypeOK, spscVars, shared, prod, cons
<1>1. ASSUME NEW x \in Items, PushBegin(x) PROVE SpscTypeOK'
  BY <1>1, Zenon DEF PushBegin
<1>2. CASE PushFull
  BY <1>2, Zenon DEF PushFull
<1>3. CASE PushClaim
  BY <1>3, Zenon DEF PushClaim
<1>4. CASE PushWrite
  BY <1>4, Zenon DEF PushWrite
<1>5. CASE PushStore
  BY <1>5, WrapNext, CapAssumption DEF PushStore, Slots
<1>6. CASE PopBegin
  BY <1>6, Zenon DEF PopBegin
<1>7. CASE PopEmpty
  BY <1>7, Zenon DEF PopEmpty
<1>8. CASE PopClaim
  BY <1>8, Zenon DEF PopClaim
<1>9. CASE PopRead
  BY <1>9, Zenon DEF PopRead
<1>10. CASE PopStore
  BY <1>10, WrapNext, CapAssumption DEF PopStore, Slots
<1>11. CASE UNCHANGED spscVars
  BY <1>11, Zenon
<1> QED
  BY <1>1, <1>2, <1>3, <1>4, <1>5, <1>6, <1>7, <1>8, <1>9, <1>10, <1>11, Zenon
  DEF SpscNext, Producer, Consumer

\* The indices stay inside the ring of bt_lockfree_queue.h, for every capacity.
THEOREM TypeCorrect == SpscSpec => []SpscTypeOK
<1>1. SpscInit => SpscTypeOK
  BY CapAssumption DEF SpscInit, SpscTypeOK, Slots
<1> QED
  BY <1>1, TypeStep, PTL DEF SpscSpec
------------------------------------------------------------------------------
\* The stale-view invariant of the two macros is inductive.
LEMMA RingStep == SpscTypeOK /\ RingInv /\ [SpscNext]_spscVars => RingInv'
<1> SUFFICES ASSUME SpscTypeOK, RingInv, [SpscNext]_spscVars PROVE RingInv'
  BY Zenon
<1> USE CapAssumption DEF SpscTypeOK, RingInv, Slots, Dist, spscVars, shared, prod, cons
<1>1. ASSUME NEW x \in Items, PushBegin(x) PROVE RingInv'
  BY <1>1 DEF PushBegin
<1>2. CASE PushFull
  BY <1>2, Zenon DEF PushFull
<1>3. CASE PushClaim
  BY <1>3, Zenon DEF PushClaim, RoomSeen
<1>4. CASE PushWrite
  BY <1>4, Zenon DEF PushWrite
<1>5. CASE PushStore
  BY <1>5, WrapNext DEF PushStore
<1>6. CASE PopBegin
  BY <1>6, Zenon DEF PopBegin
<1>7. CASE PopEmpty
  BY <1>7, Zenon DEF PopEmpty
<1>8. CASE PopClaim
  BY <1>8, Zenon DEF PopClaim, ItemSeen
<1>9. CASE PopRead
  BY <1>9, Zenon DEF PopRead
<1>10. CASE PopStore
  BY <1>10, WrapNext DEF PopStore
<1>11. CASE UNCHANGED spscVars
  BY <1>11, Zenon
<1> QED
  BY <1>1, <1>2, <1>3, <1>4, <1>5, <1>6, <1>7, <1>8, <1>9, <1>10, <1>11, Zenon
  DEF SpscNext, Producer, Consumer

\* The views that BT_SPSC_PUSH and BT_SPSC_POP work with are stale only in the
\* safe direction: a slot claimed for writing is free, one claimed for reading
\* holds an item.
THEOREM RingCorrect == SpscSpec => []RingInv
<1>1. SpscInit => RingInv
  BY Zenon DEF SpscInit, RingInv
<1> QED
  BY <1>1, TypeCorrect, RingStep, PTL DEF SpscSpec

\* Producer and consumer never touch the same slot at the same time.
THEOREM SlotRaceFree == SpscSpec => []NoSlotRace
<1>1. RingInv => NoSlotRace
  BY Zenon DEF RingInv, NoSlotRace
<1> QED
  BY <1>1, RingCorrect, PTL
------------------------------------------------------------------------------
\* The items between head and tail form a sequence of the expected length.
LEMMA ContentsSeq ==
  ASSUME SpscTypeOK
  PROVE  /\ Contents \in Seq(Items \cup {Zero})
         /\ Len(Contents) = Dist(head, tail)
         /\ Dist(head, tail) \in 0 .. Cap - 1
         /\ \A i \in 1 .. Dist(head, tail) : Wrap(head + i - 1) \in Slots
<1>1. Dist(head, tail) \in 0 .. Cap - 1
  BY CapAssumption DEF SpscTypeOK, Slots, Dist
<1>2. \A i \in 1 .. Dist(head, tail) : Wrap(head + i - 1) \in Slots
  BY <1>1, CapAssumption, WrapOnce DEF SpscTypeOK, Slots
<1>3. \A i \in 1 .. Dist(head, tail) : buffer[Wrap(head + i - 1)] \in Items \cup {Zero}
  BY <1>2, Zenon DEF SpscTypeOK
<1> QED
  BY <1>1, <1>2, <1>3 DEF Contents

\* Append and Tail, as functions on positions.
LEMMA AppendAsFunction ==
  ASSUME NEW S, NEW s \in Seq(S), NEW x \in S
  PROVE  Append(s, x) = [i \in 1 .. Len(s) + 1 |-> IF i = Len(s) + 1 THEN x ELSE s[i]]
<1> DEFINE n == Len(s)
           a == Append(s, x)
<1>1. /\ n \in Nat
      /\ a \in [1 .. n + 1 -> S]
      /\ \A i \in 1 .. n : a[i] = s[i]
      /\ a[n + 1] = x
  <2>1. n \in Nat
    BY SeqLen, Zenon
  <2>2. a \in Seq(S) /\ Len(a) = n + 1
    BY SeqAppend, Zenon
  <2>3. a \in [1 .. Len(a) -> S]
    BY <2>2, SeqLen, Zenon
  <2>4. (\A i \in 1 .. n : a[i] = s[i]) /\ a[n + 1] = x
    BY SeqAppend
  <2> QED
    BY <2>1, <2>2, <2>3, <2>4, Zenon
<1> HIDE DEF n, a
<1>2. \A i \in 1 .. n + 1 : a[i] = IF i = n + 1 THEN x ELSE s[i]
  BY <1>1
<1>3. a = [i \in 1 .. n + 1 |-> IF i = n + 1 THEN x ELSE s[i]]
  BY <1>1, <1>2, Zenon
<1> QED
  BY <1>3, Zenon DEF n, a

\* The items that remain after a pop, as a function on positions.
LEMMA TailAsFunction ==
  ASSUME NEW S, NEW s \in Seq(S), s # << >>
  PROVE  Tail(s) = [i \in 1 .. Len(s) - 1 |-> s[i + 1]]
<1>1. /\ Tail(s) \in Seq(S) /\ Len(Tail(s)) = Len(s) - 1
      /\ \A i \in 1 .. Len(Tail(s)) : Tail(s)[i] = s[i + 1]
  BY SeqTail, Zenon
<1>2. Tail(s) \in [1 .. Len(s) - 1 -> S]
  BY <1>1, SeqLen, Zenon
<1> QED
  BY <1>1, <1>2, Zenon

\* Publishing the next tail appends the item written at the old one.
LEMMA PushStoreIsPut ==
  ASSUME SpscTypeOK, RingInv, PushStore
  PROVE  Fifo!Put(item)
<1> USE CapAssumption DEF SpscTypeOK, RingInv, PushStore, shared, prod, cons
<1> DEFINE n == Dist(head, tail)
<1>1. tail' = IF tail + 1 = Cap THEN 0 ELSE tail + 1
  BY WrapNext, Zenon DEF Slots
<1>2. /\ n < Cap - 1
      /\ Dist(head, tail)' = n + 1
  BY <1>1, WrapNext DEF Slots, Dist
<1>3. Wrap(head + n) = tail
  BY WrapOnce DEF Slots, Dist
<1>4. Contents' = Append(Contents, item)
  <2>1. Contents' = [i \in 1 .. n + 1 |-> buffer[Wrap(head + i - 1)]]
    BY <1>2, Zenon DEF Contents
  <2>2. n \in Nat /\ Len(Contents) = n /\ Contents \in Seq(Items \cup {Zero})
    BY ContentsSeq
  <2>3. Append(Contents, item) = [i \in 1 .. n + 1 |-> IF i = n + 1 THEN item ELSE Contents[i]]
    BY <2>2, AppendAsFunction
  <2>4. \A i \in 1 .. n : Contents[i] = buffer[Wrap(head + i - 1)]
    BY <2>2, Zenon DEF Contents
  <2>5. buffer[Wrap(head + (n + 1) - 1)] = item
    BY <1>3, <2>2 DEF Slots
  <2> QED
    BY <2>1, <2>2, <2>3, <2>4, <2>5
<1>5. Len(Contents) < Cap - 1
  BY <1>2, ContentsSeq, Zenon
<1> QED
  BY <1>4, <1>5, Zenon DEF Fifo!Put

\* Publishing the next head removes the oldest item and hands it out.
LEMMA PopStoreIsTake ==
  ASSUME SpscTypeOK, RingInv, PopStore
  PROVE  Fifo!Take
<1> USE CapAssumption DEF SpscTypeOK, RingInv, PopStore, shared, prod, cons
<1> DEFINE n == Dist(head, tail)
<1>1. head' = IF head + 1 = Cap THEN 0 ELSE head + 1
  BY WrapNext, Zenon DEF Slots
<1>2. /\ n \in 1 .. Cap - 1
      /\ Dist(head, tail)' = n - 1
  BY <1>1 DEF Slots, Dist
<1>3. \A i \in 1 .. n - 1 : Wrap(head' + i - 1) = Wrap(head + (i + 1) - 1)
  BY <1>1, <1>2, WrapOnce DEF Slots
<1>4. Len(Contents) = n /\ Contents \in Seq(Items \cup {Zero})
  BY ContentsSeq, Zenon
<1>5. Contents # << >> /\ Head(Contents) = out
  <2>1. Wrap(head + 1 - 1) = head
    BY WrapOnce DEF Slots
  <2> QED
    BY <1>2, <1>4, <2>1 DEF Contents
<1>6. Contents' = Tail(Contents)
  <2>1. Contents' = [i \in 1 .. n - 1 |-> buffer[Wrap(head' + i - 1)]]
    BY <1>2, Zenon DEF Contents
  <2>2. Tail(Contents) = [i \in 1 .. n - 1 |-> Contents[i + 1]]
    BY <1>4, <1>5, TailAsFunction, Zenon
  <2>3. \A i \in 1 .. n - 1 : Contents[i + 1] = buffer[Wrap(head + (i + 1) - 1)]
    BY <1>2 DEF Contents
  <2> QED
    BY <2>1, <2>2, <2>3, <1>3
<1> QED
  BY <1>5, <1>6, Zenon DEF Fifo!Take

\* Writing the claimed slot does not disturb the items that are queued.
LEMMA PushWriteHidden ==
  ASSUME SpscTypeOK, RingInv, PushWrite
  PROVE  UNCHANGED <<Contents, got>>
<1> USE CapAssumption DEF SpscTypeOK, RingInv, PushWrite, cons
<1>1. Dist(head, tail)' = Dist(head, tail)
  BY Zenon DEF Dist
<1>2. \A i \in 1 .. Dist(head, tail) : Wrap(head + i - 1) \in Slots \ {pt}
  BY WrapOnce DEF Slots, Dist
<1>3. \A i \in 1 .. Dist(head, tail) :
        buffer'[Wrap(head + i - 1)] = buffer[Wrap(head + i - 1)]
  BY <1>2, Zenon
<1> QED
  BY <1>1, <1>3, Zenon DEF Contents

\* The ring of BT_SPSC_PUSH and BT_SPSC_POP implements a bounded FIFO.
THEOREM Implements == SpscSpec => FifoSpec
<1>1. SpscInit => Fifo!Init
  BY CapAssumption DEF SpscInit, Fifo!Init, Contents, Dist
<1>2. SpscTypeOK /\ RingInv /\ [SpscNext]_spscVars => [Fifo!Next]_(Fifo!fifoVars)
  <2> SUFFICES ASSUME SpscTypeOK, RingInv, [SpscNext]_spscVars
               PROVE  Fifo!Next \/ UNCHANGED <<Contents, got>>
    BY Zenon DEF Fifo!fifoVars
  <2>1. CASE PushStore
    BY <2>1, PushStoreIsPut, Zenon DEF Fifo!Next, RingInv, PushStore
  <2>2. CASE PopStore
    BY <2>2, PopStoreIsTake, Zenon DEF Fifo!Next
  <2>3. CASE PushWrite
    BY <2>3, PushWriteHidden, Zenon
  <2>4. CASE UNCHANGED <<shared, got>>
    BY <2>4, Zenon DEF Contents, Dist, shared
  <2> QED
    BY <2>1, <2>2, <2>3, <2>4, Zenon
    DEF SpscNext, Producer, Consumer, PushBegin, PushFull, PushClaim, PopBegin,
        PopEmpty, PopClaim, PopRead, spscVars, prod, cons, shared
<1> QED
  BY <1>1, <1>2, TypeCorrect, RingCorrect, PTL DEF SpscSpec, FifoSpec, Fifo!Spec

--------------------------------------------------------------------------------
(* The journal *)

\* The sizes are positive, and the buffer holds at least one entry.
LEMMA Sizes ==
  /\ RingBound \in Nat /\ RingBound > 0
  /\ EntryCells \in Nat /\ EntryCells > 0
  /\ BufCells \in Nat /\ EntryCells <= BufCells
  /\ BatchDrain \in Nat /\ BatchDrain > 0
  /\ MaxAppend \in Nat
  BY JournalAssumption

\* An entry is EntryCells cells.
LEMMA CellsType ==
  ASSUME NEW e \in 1 .. MaxAppend
  PROVE  Cells(e) \in Seq(AnyCell) /\ Len(Cells(e)) = EntryCells
<1>1. Cells(e) \in [1 .. EntryCells -> AnyCell]
  BY Zenon DEF Cells, AnyCell
<1> QED
  BY Sizes, <1>1

\* What one write() takes of the buffer is a sequence of cells.
LEMMA PartOfBuffer ==
  ASSUME NEW b \in Seq(AnyCell), NEW d \in 0 .. Len(b), NEW n \in 1 .. Len(b) - d
  PROVE  SubSeq(b, d + 1, d + n) \in Seq(AnyCell)
  OBVIOUS

\* The initial state.
LEMMA InitBuffer == Init => BufferInv
<1> SUFFICES ASSUME Init PROVE BufferInv
  BY Zenon
<1> USE Sizes DEF Init, NoEntry
<1>0. running \in BOOLEAN /\ failed \in BOOLEAN /\ ~failed
  BY Zenon
<1>1. TypeOK
  BY <1>0 DEF TypeOK, Steps
<1>2. WorkerInv
  BY DEF WorkerInv, Flushing, InHand
<1>3. SubSeq(file, base + 1, Len(file)) = << >>
  OBVIOUS
<1>4. DurableInv /\ NoOverrun
  BY <1>3, Zenon DEF DurableInv, NoOverrun, Written
<1> QED
  BY <1>1, <1>2, <1>4, Zenon DEF BufferInv

--------------------------------------------------------------------------------
(* Every action keeps the types.  One lemma per group of actions. *)

\* The calls of the interface, and the faults that end a run.
LEMMA InterfaceTypes ==
  ASSUME BufferInv, Interface \/ Kill \/ PowerLoss
  PROVE  TypeOK'
<1> USE Sizes DEF BufferInv, TypeOK, api, worker, disk, StartWorker, NoEntry, Steps
<1>1. CASE JournalAppend
  <2>1. calls' \in 1 .. MaxAppend
    BY <1>1 DEF JournalAppend
  <2>2. CASE /\ Len(ring) < RingBound /\ ring' = ring \o <<calls'>>
             /\ appended' = appended \o <<calls'>> /\ UNCHANGED dropped
    <3>2. ring' \in Seq(1 .. MaxAppend) /\ Len(ring') = Len(ring) + 1
      BY <2>2, <2>1
    <3>3. appended' \in Seq(1 .. MaxAppend)
      BY <2>2, <2>1
    <3> QED
      BY <1>1, <2>1, <2>2, <3>2, <3>3 DEF JournalAppend
  <2>3. CASE dropped' = dropped + 1 /\ UNCHANGED <<ring, appended>>
    BY <1>1, <2>1, <2>3 DEF JournalAppend
  <2> QED
    BY <1>1, <2>2, <2>3, Zenon DEF JournalAppend
<1>2. CASE Flush
  <2>1. CASE UNCHANGED <<disk, failed>>
    BY <1>2, <2>1, Zenon DEF Flush
  <2>2. CASE Fdatasync
    <3>1. file' = file /\ synced' \in 0 .. Len(file)
      BY <2>2 DEF Fdatasync
    <3>2. failed' \in BOOLEAN
      BY <2>2, Zenon DEF Fdatasync
    <3> QED
      BY <1>2, <3>1, <3>2, Zenon DEF Flush
  <2> QED
    BY <1>2, <2>1, <2>2, Zenon DEF Flush
<1>3. CASE CloseBegin
  BY <1>3, Zenon DEF CloseBegin
<1>4. CASE CloseEnd
  BY <1>4 DEF CloseEnd
<1>5. CASE Open
  BY <1>5 DEF Open
<1>6. CASE Kill
  <2>1. running' \in BOOLEAN /\ failed' = failed
    BY <1>6, Zenon DEF Kill
  <2> QED
    BY <1>6, <2>1 DEF Kill
<1>7. CASE PowerLoss
  <2>1. PICK n \in synced .. Len(file) : file' = SubSeq(file, 1, n)
    BY <1>7, Zenon DEF PowerLoss
  <2>2. file' \in Seq(AnyCell) /\ Len(file') = n
    BY <2>1
  <2>3. running' \in BOOLEAN /\ failed' = failed
    BY <1>7, Zenon DEF PowerLoss
  <2> QED
    BY <1>7, <2>2, <2>3 DEF PowerLoss
<1> QED
  BY <1>1, <1>2, <1>3, <1>4, <1>5, <1>6, <1>7, Zenon DEF Interface

\* The steps of the worker.
LEMMA WorkerTypes ==
  ASSUME BufferInv, Worker
  PROVE  TypeOK'
<1> USE Sizes DEF BufferInv, TypeOK, api, worker, disk, NoEntry, Steps
<1>1. CASE Start
  BY <1>1, Zenon DEF Start
<1>2. CASE Loop
  BY <1>2 DEF Loop
<1>3. CASE Pop
  <2>1. Head(ring) \in 1 .. MaxAppend /\ Tail(ring) \in Seq(1 .. MaxAppend)
        /\ Len(Tail(ring)) = Len(ring) - 1
    BY <1>3 DEF Pop
  <2> QED
    BY <1>3, <2>1 DEF Pop
<1>4. CASE Copy
  <2>1. entry \in 1 .. MaxAppend /\ drained < BatchDrain /\ done = 0
    BY <1>4 DEF Copy, WorkerInv, InHand, Flushing
  <2>2. buf' \in Seq(AnyCell) /\ Len(buf') = Len(buf) + EntryCells
    <3>1. Cells(entry) \in Seq(AnyCell) /\ Len(Cells(entry)) = EntryCells
      BY <2>1, CellsType, Zenon
    <3>2. buf' = buf \o Cells(entry) /\ buf \in Seq(AnyCell)
      BY <1>4, Zenon DEF Copy
    <3> QED
      BY <3>1, <3>2, SeqConcat, Zenon
  <2> QED
    BY <1>4, <2>1, <2>2 DEF Copy
<1>5. CASE Drained \/ IdleFlush \/ IdleWait \/ WriteDone
  BY <1>5, Zenon DEF Drained, IdleFlush, IdleWait, WriteDone
<1>6. CASE Write
  <2>1. CASE wpc' = "sync" /\ failed' = TRUE /\ UNCHANGED <<file, done>>
    BY <1>6, <2>1, Zenon DEF Write
  <2>2. CASE \E n \in 1 .. Len(buf) - done :
               /\ file' = file \o SubSeq(buf, done + 1, done + n)
               /\ done' = done + n /\ UNCHANGED <<wpc, failed>>
    <3>1. PICK n \in 1 .. Len(buf) - done :
               /\ file' = file \o SubSeq(buf, done + 1, done + n)
               /\ done' = done + n /\ UNCHANGED <<wpc, failed>>
      BY <2>2, Zenon
    <3>2. SubSeq(buf, done + 1, done + n) \in Seq(AnyCell)
      <4>1. buf \in Seq(AnyCell) /\ done \in 0 .. Len(buf)
        BY Zenon
      <4> QED
        BY <4>1, PartOfBuffer, Zenon
    <3>3. file' \in Seq(AnyCell) /\ Len(file') >= Len(file)
      BY <3>1, <3>2
    <3> QED
      BY <1>6, <3>1, <3>3 DEF Write
  <2> QED
    BY <1>6, <2>1, <2>2, Zenon DEF Write
<1>7. CASE Sync
  <2>1. CASE UNCHANGED <<disk, failed>>
    BY <1>7, <2>1, Zenon DEF Sync
  <2>2. CASE Fdatasync
    <3>1. file' = file /\ synced' \in 0 .. Len(file)
      BY <2>2 DEF Fdatasync
    <3>2. failed' \in BOOLEAN
      BY <2>2, Zenon DEF Fdatasync
    <3> QED
      BY <1>7, <3>1, <3>2, Zenon DEF Sync
  <2> QED
    BY <1>7, <2>1, <2>2, Zenon DEF Sync
<1>8. CASE Shift
  <2>1. buf' \in Seq(AnyCell) /\ Len(buf') \in Nat
    BY <1>8 DEF Shift
  <2> QED
    BY <1>8, <2>1 DEF Shift
<1> QED
  BY <1>1, <1>2, <1>3, <1>4, <1>5, <1>6, <1>7, <1>8, Zenon DEF Worker

--------------------------------------------------------------------------------
(* Every action keeps what the worker knows. *)

\* The calls of the interface, and the faults that end a run.
LEMMA InterfaceWorker ==
  ASSUME BufferInv, TypeOK', Interface \/ Kill \/ PowerLoss
  PROVE  WorkerInv'
<1> USE Sizes DEF BufferInv, WorkerInv, Flushing, InHand, api, worker, disk, NoEntry
<1>0. file \in Seq(AnyCell) /\ buf \in Seq(AnyCell) /\ base \in Nat
  BY Zenon DEF TypeOK
<1>1. CASE JournalAppend
  BY <1>1, Zenon DEF JournalAppend
<1>2. CASE Flush
  <2>1. UNCHANGED <<worker, handle, base>> /\ file' = file /\ (failed => failed')
    BY <1>2, Zenon DEF Flush, Fdatasync
  <2> QED
    BY <2>1, Zenon
<1>3. CASE CloseBegin
  BY <1>3, Zenon DEF CloseBegin
<1>4. CASE CloseEnd
  BY <1>4, Zenon DEF CloseEnd
<1>5. CASE Open
  BY <1>0, <1>5 DEF Open, StartWorker
<1>6. CASE Kill
  BY <1>6, Zenon DEF Kill, StartWorker
<1>7. CASE PowerLoss
  BY <1>7, Zenon DEF PowerLoss, StartWorker
<1> QED
  BY <1>1, <1>2, <1>3, <1>4, <1>5, <1>6, <1>7, Zenon DEF Interface

\* The steps of the worker.
LEMMA WorkerWorker ==
  ASSUME BufferInv, TypeOK', Worker
  PROVE  WorkerInv'
<1> USE Sizes DEF BufferInv, WorkerInv, Flushing, InHand, api, worker, disk, NoEntry
<1>0. /\ file \in Seq(AnyCell) /\ buf \in Seq(AnyCell) /\ base \in Nat
      /\ done \in 0 .. Len(buf) /\ drained \in 0 .. BatchDrain
      /\ then \in {"top", "copy", "stopped"}
  BY Zenon DEF TypeOK
<1>1. CASE Start
  BY <1>1, Zenon DEF Start
<1>2. CASE Loop
  BY <1>2, Zenon DEF Loop
<1>3. CASE Pop
  <2>1. entry' # 0
    BY <1>3 DEF Pop, TypeOK
  <2>2. CASE NeedsRoom
    <3>1. buf # << >>
      BY <1>0, <2>2 DEF NeedsRoom
    <3> QED
      BY <1>0, <1>3, <2>1, <2>2, <3>1, Zenon DEF Pop
  <2>3. CASE ~NeedsRoom
    BY <1>0, <1>3, <2>1, <2>3 DEF Pop, NeedsRoom
  <2> QED
    BY <2>2, <2>3, Zenon
<1>4. CASE Copy
  BY <1>0, <1>4, Zenon DEF Copy
<1>5. CASE Drained \/ IdleFlush \/ IdleWait \/ WriteDone
  BY <1>0, <1>5, Zenon DEF Drained, IdleFlush, IdleWait, WriteDone
<1>6. CASE Write
  <2>1. CASE wpc' = "sync" /\ failed' = TRUE /\ UNCHANGED <<file, done>>
    BY <1>6, <2>1, Zenon DEF Write
  <2>2. CASE \E n \in 1 .. Len(buf) - done :
               /\ file' = file \o SubSeq(buf, done + 1, done + n)
               /\ done' = done + n /\ UNCHANGED <<wpc, failed>>
    <3>1. PICK n \in 1 .. Len(buf) - done :
               /\ file' = file \o SubSeq(buf, done + 1, done + n)
               /\ done' = done + n /\ UNCHANGED <<wpc, failed>>
      BY <2>2, Zenon
    <3>2. SubSeq(buf, done + 1, done + n) \in Seq(AnyCell)
      BY <1>0
    <3>3. Len(file') >= Len(file) /\ Len(file') \in Nat
      BY <1>0, <3>1, <3>2
    <3> QED
      BY <1>0, <1>6, <3>1, <3>3 DEF Write
  <2> QED
    BY <1>6, <2>1, <2>2, Zenon DEF Write
<1>7. CASE Sync
  <2>1. file' = file /\ (failed => failed')
    BY <1>7, Zenon DEF Sync, Fdatasync
  <2> QED
    BY <1>7, <2>1, Zenon DEF Sync
<1>8. CASE Shift
  <2>1. done = Len(buf) => buf' = << >>
    BY <1>0, <1>8 DEF Shift
  <2> QED
    BY <1>0, <1>8, <2>1 DEF Shift
<1> QED
  BY <1>1, <1>2, <1>3, <1>4, <1>5, <1>6, <1>7, <1>8, Zenon DEF Worker

--------------------------------------------------------------------------------
(* Every action keeps the two promises about the buffer. *)

\* With fsync on and no error, what the file holds is durable but during a flush.
LEMMA DurableKept ==
  ASSUME BufferInv, TypeOK', Next
  PROVE  DurableInv'
<1> SUFFICES ASSUME SyncOn, ~failed', handle' # "dead"
             PROVE  /\ wpc' = "stopped" => buf' = << >>
                    /\ Written' = << >> \/ synced' = Len(file') \/ wpc' \in {"write", "sync"}
  BY Zenon DEF DurableInv
<1> USE DEF BufferInv, DurableInv, api, worker, disk
<1>0. /\ file \in Seq(AnyCell) /\ buf \in Seq(AnyCell) /\ base \in Nat
      /\ done \in 0 .. Len(buf) /\ then \in {"top", "copy", "stopped"}
  BY Zenon DEF TypeOK
<1>w. ASSUME UNCHANGED <<file, base>> PROVE Written' = Written
  BY <1>w, Zenon DEF Written
<1>1. CASE JournalAppend \/ CloseBegin \/ CloseEnd
  BY <1>1, <1>w, Zenon DEF JournalAppend, CloseBegin, CloseEnd
<1>2. CASE Flush
  BY <1>2, <1>w, Zenon DEF Flush, Fdatasync
<1>3. CASE Open
  <2>1. Written' = << >>
    BY <1>0, <1>3 DEF Open, Written
  <2> QED
    BY <1>3, <2>1, Zenon DEF Open, StartWorker
<1>4. CASE Kill \/ PowerLoss
  BY <1>4, Zenon DEF Kill, PowerLoss
<1>h. CASE Worker
  <2>0. UNCHANGED <<handle, base>> /\ handle # "dead" /\ ~failed
    BY <1>h, Zenon DEF Worker, Start, Loop, Pop, Copy, Drained, IdleFlush, IdleWait, Write,
       WriteDone, Sync, Shift, Fdatasync
  <2>1. CASE Start
    BY <1>w, <2>0, <2>1, Zenon DEF Start
  <2>2. CASE Loop
    BY <1>w, <2>0, <2>2, Zenon DEF Loop
  <2>3. CASE Pop
    BY <1>w, <2>0, <2>3, Zenon DEF Pop
  <2>4. CASE Copy
    BY <1>w, <2>0, <2>4, Zenon DEF Copy
  <2>5. CASE Drained \/ IdleFlush \/ IdleWait
    BY <1>w, <2>0, <2>5, Zenon DEF Drained, IdleFlush, IdleWait
  <2>6. CASE Write \/ WriteDone
    BY <2>0, <2>6, Zenon DEF Write, WriteDone
  <2>7. CASE Sync
    <3>1. done > 0
      BY <1>0, <2>0, <2>7 DEF Sync, WorkerInv, Flushing
    <3>2. synced' = Len(file') /\ wpc' = "shift"
      BY <2>7, <3>1, Zenon DEF Sync, Fdatasync
    <3> QED
      BY <3>2, Zenon
  <2>8. CASE Shift
    <3>1. done = Len(buf)
      BY <2>0, <2>8, Zenon DEF Shift, WorkerInv
    <3>2. buf' = << >>
      BY <1>0, <2>8, <3>1 DEF Shift
    <3> QED
      BY <1>w, <2>0, <2>8, <3>2, Zenon DEF Shift
  <2> QED
    BY <1>h, <2>1, <2>2, <2>3, <2>4, <2>5, <2>6, <2>7, <2>8, Zenon DEF Worker
<1> QED
  BY <1>1, <1>2, <1>3, <1>4, <1>h, Zenon DEF Next, Interface

\* The copy of an entry passes the end of the buffer only after a failed write.
LEMMA NoOverrunKept ==
  ASSUME BufferInv, TypeOK', Next
  PROVE  NoOverrun'
<1> USE Sizes DEF BufferInv, NoOverrun, api, worker, disk
<1>0. /\ buf \in Seq(AnyCell) /\ entry \in 0 .. MaxAppend
      /\ then \in {"top", "copy", "stopped"}
  BY Zenon DEF TypeOK
<1>1. CASE Copy
  <2>1. entry \in 1 .. MaxAppend
    BY <1>0, <1>1 DEF Copy, WorkerInv, InHand, NoEntry
  <2>2. Cells(entry) \in Seq(AnyCell) /\ Len(Cells(entry)) = EntryCells
    BY <2>1, CellsType, Zenon
  <2>3. buf' = buf \o Cells(entry)
    BY <1>1, Zenon DEF Copy
  <2>4. Len(buf') = Len(buf) + EntryCells
    BY <1>0, <2>2, <2>3, SeqConcat, Zenon
  <2> QED
    BY <1>0, <1>1, <2>4 DEF Copy, WorkerInv
<1>2. CASE Interface \/ Kill \/ PowerLoss
  BY <1>2, Zenon DEF Interface, JournalAppend, Flush, Fdatasync, CloseBegin, CloseEnd, Open, Kill,
     PowerLoss, StartWorker
<1>3. CASE Worker /\ ~Copy
  BY <1>0, <1>3, Zenon DEF Worker, Start, Loop, Pop, Drained, IdleFlush, IdleWait, Write, WriteDone,
     Sync, Shift, Fdatasync
<1> QED
  BY <1>1, <1>2, <1>3, Zenon DEF Next

--------------------------------------------------------------------------------
\* The journal is well formed and its worker stays inside the write buffer unless a
\* write failed: bt_journal_thread_core and journal_do_flush, with any fault.
THEOREM BufferCorrect == Spec => []BufferInv
<1>1. BufferInv /\ [Next]_vars => BufferInv'
  <2> SUFFICES ASSUME BufferInv, [Next]_vars PROVE BufferInv'
    BY Zenon
  <2>1. CASE Next
    <3>1. TypeOK'
      BY <2>1, InterfaceTypes, WorkerTypes, Zenon DEF Next
    <3>2. WorkerInv'
      BY <2>1, <3>1, InterfaceWorker, WorkerWorker, Zenon DEF Next
    <3> QED
      BY <2>1, <3>1, <3>2, DurableKept, NoOverrunKept, Zenon DEF BufferInv
  <2>2. CASE UNCHANGED vars
    BY <2>2 DEF vars, api, worker, disk, BufferInv, TypeOK, WorkerInv, Flushing, InHand,
       DurableInv, Written, NoOverrun
  <2> QED
    BY <2>1, <2>2, Zenon
<1> QED
  BY <1>1, InitBuffer, PTL DEF Spec

\* When bt_journal_close returns with fsync on and no error was reported, what the
\* worker had taken from the ring is in the file and durable.
THEOREM CloseDurable == Spec => []CloseIsDurable
<1>1. BufferInv => CloseIsDurable
  BY Zenon DEF BufferInv, WorkerInv, DurableInv, CloseIsDurable
<1> QED
  BY <1>1, BufferCorrect, PTL

--------------------------------------------------------------------------------
(* What fdatasync secured. *)

\* The secured content is the beginning of the file, as long as synced says.
SafeInv == safe \in Seq(AnyCell) /\ synced = Len(safe) /\ SyncedSurvives

\* A file that keeps its first synced cells keeps the secured content.
LEMMA PrefixKept ==
  ASSUME TypeOK, TypeOK', SafeInv, UNCHANGED <<synced, safe>>,
         synced <= Len(file'), \A i \in 1 .. synced : file'[i] = file[i]
  PROVE  SafeInv'
<1>1. file \in Seq(AnyCell) /\ file' \in Seq(AnyCell) /\ safe \in Seq(AnyCell)
  BY Zenon DEF TypeOK, SafeInv
<1>2. SubSeq(file', 1, Len(safe)) = safe
  <2> DEFINE s == SubSeq(file', 1, Len(safe))
  <2>1. Len(safe) \in Nat /\ Len(safe) <= Len(file) /\ Len(safe) <= Len(file') /\ synced = Len(safe)
    BY <1>1 DEF SafeInv, SyncedSurvives
  <2>2. s \in Seq(AnyCell) /\ Len(s) = Len(safe)
    BY <1>1, <2>1
  <2>3. ASSUME NEW i \in 1 .. Len(safe) PROVE s[i] = safe[i]
    <3>1. s[i] = file[i]
      BY <1>1, <2>1
    <3>2. SubSeq(file, 1, Len(safe))[i] = file[i]
      BY <1>1, <2>1
    <3> QED
      BY <3>1, <3>2, Zenon DEF SafeInv, SyncedSurvives
  <2> HIDE DEF s
  <2>4. s = safe
    BY <1>1, <2>2, <2>3, SeqSame, Zenon
  <2> QED
    BY <2>4, Zenon DEF s
<1> QED
  BY <1>1, <1>2, Zenon DEF SafeInv, SyncedSurvives

\* fdatasync secures the whole file, or fails and changes nothing.
LEMMA FdatasyncSafe ==
  ASSUME TypeOK, SafeInv, Fdatasync
  PROVE  SafeInv'
<1>1. CASE UNCHANGED disk
  BY <1>1, Zenon DEF SafeInv, SyncedSurvives, disk
<1>2. CASE synced' = Len(file) /\ safe' = file /\ UNCHANGED file
  BY <1>2 DEF SafeInv, SyncedSurvives, TypeOK
<1> QED
  BY <1>1, <1>2, Zenon DEF Fdatasync

\* What fdatasync secured is still at its place in the file after any sequence of
\* kills, power losses, closes and reopenings (bt_journal_open appends).
THEOREM SyncedStays == Spec => []SyncedSurvives
<1>1. Init => SafeInv
  BY DEF Init, SafeInv, SyncedSurvives
<1>2. TypeOK /\ TypeOK' /\ SafeInv /\ [Next]_vars => SafeInv'
  <2> SUFFICES ASSUME TypeOK, TypeOK', SafeInv, [Next]_vars PROVE SafeInv'
    BY Zenon
  <2>0. file \in Seq(AnyCell) /\ file' \in Seq(AnyCell) /\ synced \in 0 .. Len(file)
    BY Zenon DEF TypeOK
  <2>1. CASE UNCHANGED disk
    BY <2>1, Zenon DEF SafeInv, SyncedSurvives, disk
  <2>2. CASE Fdatasync
    BY <2>2, FdatasyncSafe, Zenon
  <2>3. CASE Write
    <3>1. CASE UNCHANGED file
      BY <2>1, <2>3, <3>1, Zenon DEF Write, disk
    <3>2. CASE \E n \in 1 .. Len(buf) - done : file' = file \o SubSeq(buf, done + 1, done + n)
      <4>1. PICK n \in 1 .. Len(buf) - done : file' = file \o SubSeq(buf, done + 1, done + n)
        BY <3>2, Zenon
      <4>2. SubSeq(buf, done + 1, done + n) \in Seq(AnyCell)
        <5>1. buf \in Seq(AnyCell) /\ done \in 0 .. Len(buf)
          BY Zenon DEF TypeOK
        <5> QED
          BY <5>1
      <4>3. Len(file) <= Len(file') /\ \A i \in 1 .. Len(file) : file'[i] = file[i]
        BY <2>0, <4>1, <4>2
      <4>4. UNCHANGED <<synced, safe>>
        BY <2>3, Zenon DEF Write
      <4> QED
        BY <2>0, <4>3, <4>4, PrefixKept
    <3> QED
      BY <2>3, <3>1, <3>2, Zenon DEF Write
  <2>4. CASE PowerLoss
    <3>1. PICK n \in synced .. Len(file) : file' = SubSeq(file, 1, n)
      BY <2>4, Zenon DEF PowerLoss
    <3>2. synced <= Len(file') /\ \A i \in 1 .. synced : file'[i] = file[i]
      BY <2>0, <3>1
    <3>3. UNCHANGED <<synced, safe>>
      BY <2>4, Zenon DEF PowerLoss
    <3> QED
      BY <3>2, <3>3, PrefixKept, Zenon
  <2>5. CASE Interface \/ Kill
    BY <2>1, <2>2, <2>5, Zenon DEF Interface, JournalAppend, Flush, CloseBegin, CloseEnd, Open, Kill
  <2>6. CASE Worker /\ ~Write
    BY <2>1, <2>2, <2>6, Zenon DEF Worker, Start, Loop, Pop, Copy, Drained, IdleFlush, IdleWait,
       WriteDone, Sync, Shift
  <2>7. CASE UNCHANGED vars
    BY <2>1, <2>7, Zenon DEF vars
  <2> QED
    BY <2>3, <2>4, <2>5, <2>6, <2>7, Zenon DEF Next
<1>3. BufferInv => TypeOK
  BY Zenon DEF BufferInv
<1>4. SafeInv => SyncedSurvives
  BY Zenon DEF SafeInv
<1> QED
  BY <1>1, <1>2, <1>3, <1>4, BufferCorrect, PTL DEF Spec

--------------------------------------------------------------------------------
(* The cells of a sequence of entries. *)

\* Division, from the interval the dividend is in.
LEMMA Division ==
  ASSUME NEW E \in Nat, E > 0, NEW a \in Nat, NEW q \in Nat, q * E <= a, a < q * E + E
  PROVE  a \div E = q /\ a % E = a - q * E
<1>1. a = E * (a \div E) + (a % E) /\ a % E \in 0 .. E - 1 /\ a \div E \in Nat
  OBVIOUS
<1> DEFINE d == a \div E
<1>2. d \in Nat /\ d * E <= a /\ a < d * E + E
  BY <1>1
<1> HIDE DEF d
<1>3. ~(d < q)
  <2> SUFFICES ASSUME d + 1 <= q PROVE FALSE
    BY <1>2
  <2>1. (d + 1) * E <= q * E
    BY <1>2
  <2> QED
    BY <1>2, <2>1
<1>4. ~(q < d)
  <2> SUFFICES ASSUME q + 1 <= d PROVE FALSE
    BY <1>2
  <2>1. (q + 1) * E <= d * E
    BY <1>2
  <2> QED
    BY <1>2, <2>1
<1>5. d = q
  BY <1>2, <1>3, <1>4
<1> QED
  BY <1>1, <1>5 DEF d

\* Every number has its place in that many entries.
LEMMA Placed ==
  ASSUME NEW n \in Nat, NEW k \in 1 .. n * EntryCells
  PROVE  /\ (k - 1) \div EntryCells \in 0 .. n - 1
         /\ (k - 1) % EntryCells \in 0 .. EntryCells - 1
         /\ ((k - 1) \div EntryCells) * EntryCells <= k - 1
         /\ k - 1 < ((k - 1) \div EntryCells) * EntryCells + EntryCells
<1> DEFINE a == k - 1
           d == a \div EntryCells
<1>0. n * EntryCells \in Nat
  BY Sizes
<1>1. a \in Nat /\ a < n * EntryCells
  BY <1>0
<1> HIDE DEF a
<1>2. a = EntryCells * d + (a % EntryCells) /\ a % EntryCells \in 0 .. EntryCells - 1 /\ d \in Nat
  BY <1>1, Sizes
<1> HIDE DEF d
<1>3. d * EntryCells <= a /\ a < d * EntryCells + EntryCells
  BY <1>1, <1>2, Sizes
<1>4. d < n
  <2> SUFFICES ASSUME n <= d PROVE FALSE
    BY <1>2
  <2>1. n * EntryCells <= d * EntryCells
    BY <1>2, Sizes
  <2> QED
    BY <1>1, <1>3, <2>1, <1>2, Sizes
<1> QED
  BY <1>2, <1>3, <1>4 DEF a, d

Entries == Seq(1 .. MaxAppend)

\* They are a sequence of cells, EntryCells for each entry.
LEMMA AllCellsType ==
  ASSUME NEW s \in Entries
  PROVE  AllCells(s) \in Seq(AnyCell) /\ Len(AllCells(s)) = Len(s) * EntryCells
<1>1. Len(s) \in Nat /\ Len(s) * EntryCells \in Nat
  BY Sizes DEF Entries
<1>2. ASSUME NEW k \in 1 .. Len(s) * EntryCells
      PROVE  <<s[1 + ((k - 1) \div EntryCells)], 1 + ((k - 1) % EntryCells)>> \in AnyCell
  <2>1. /\ (k - 1) \div EntryCells \in 0 .. Len(s) - 1
        /\ (k - 1) % EntryCells \in 0 .. EntryCells - 1
    BY <1>1, Placed, Zenon
  <2> QED
    BY <2>1, Sizes, <1>1 DEF AnyCell, Entries
<1>3. AllCells(s) \in [1 .. Len(s) * EntryCells -> AnyCell]
  BY <1>2, Zenon DEF AllCells
<1> QED
  BY <1>1, <1>3

\* No entries have no cells.
LEMMA AllCellsEmpty == AllCells(<< >>) = << >>
<1>1. << >> \in Entries
  BY DEF Entries
<1>2. Len(AllCells(<< >>)) = 0 /\ AllCells(<< >>) \in Seq(AnyCell)
  BY <1>1, AllCellsType, Sizes
<1> QED
  BY <1>2

\* The cells of one more entry come last.
LEMMA AllCellsAppend ==
  ASSUME NEW s \in Entries, NEW e \in 1 .. MaxAppend
  PROVE  AllCells(s \o <<e>>) = AllCells(s) \o Cells(e)
<1> DEFINE se == s \o <<e>>
           L == Len(s)
           N == L * EntryCells
<1>1. L \in Nat /\ N \in Nat /\ se \in Entries /\ Len(se) = L + 1
  BY Sizes DEF Entries
<1>2. /\ \A i \in 1 .. L : se[i] = s[i]
      /\ se[L + 1] = e
  BY DEF Entries
<1>3. (L + 1) * EntryCells = N + EntryCells
  BY <1>1, Sizes
<1> HIDE DEF se
<1>4. AllCells(se) \in Seq(AnyCell) /\ Len(AllCells(se)) = N + EntryCells
  BY <1>1, <1>3, AllCellsType, Zenon
<1>5. AllCells(s) \in Seq(AnyCell) /\ Len(AllCells(s)) = N
  BY AllCellsType, Zenon
<1>6. Cells(e) \in Seq(AnyCell) /\ Len(Cells(e)) = EntryCells
  BY CellsType, Zenon
<1> DEFINE t == AllCells(s) \o Cells(e)
<1>7. /\ t \in Seq(AnyCell) /\ Len(t) = N + EntryCells
      /\ \A i \in 1 .. N : t[i] = AllCells(s)[i]
      /\ \A i \in N + 1 .. N + EntryCells : t[i] = Cells(e)[i - N]
  BY <1>1, <1>5, <1>6, Sizes
<1> HIDE DEF t
<1>8. ASSUME NEW k \in 1 .. N + EntryCells PROVE AllCells(se)[k] = t[k]
  <2>0. AllCells(se)[k] = <<se[1 + ((k - 1) \div EntryCells)], 1 + ((k - 1) % EntryCells)>>
    BY <1>1, <1>3, Zenon DEF AllCells
  <2>1. CASE k \in 1 .. N
    <3>1. (k - 1) \div EntryCells \in 0 .. L - 1
      BY <1>1, <2>1, Placed, Zenon
    <3>2. AllCells(s)[k] = <<s[1 + ((k - 1) \div EntryCells)], 1 + ((k - 1) % EntryCells)>>
      BY <2>1, Zenon DEF AllCells
    <3>3. se[1 + ((k - 1) \div EntryCells)] = s[1 + ((k - 1) \div EntryCells)]
      BY <1>1, <1>2, <3>1
    <3> QED
      BY <1>7, <2>0, <2>1, <3>2, <3>3, Zenon
  <2>2. CASE k \in N + 1 .. N + EntryCells
    <3>1. k - 1 \in Nat /\ L * EntryCells <= k - 1 /\ k - 1 < L * EntryCells + EntryCells
      BY <1>1, <2>2, Sizes
    <3>2. (k - 1) \div EntryCells = L /\ (k - 1) % EntryCells = k - 1 - N
      BY <1>1, <3>1, Division, Sizes, Zenon
    <3>3. k - N \in 1 .. EntryCells /\ 1 + (k - 1 - N) = k - N
      BY <1>1, <2>2, Sizes
    <3>4. Cells(e)[k - N] = <<e, k - N>>
      BY <3>3, Zenon DEF Cells
    <3>5. se[1 + L] = e
      BY <1>1, <1>2
    <3> QED
      BY <1>7, <2>0, <2>2, <3>2, <3>3, <3>4, <3>5, Zenon
  <2> QED
    BY <1>1, <2>1, <2>2
<1>9. AllCells(se) = t
  BY <1>4, <1>7, <1>8, SeqSame, Zenon
<1> QED
  BY <1>9, Zenon DEF se, t

\* The cells of the first entry come first.
LEMMA AllCellsHead ==
  ASSUME NEW s \in Entries, s # << >>
  PROVE  AllCells(s) = Cells(Head(s)) \o AllCells(Tail(s))
<1> DEFINE h == Head(s)
           r == Tail(s)
           L == Len(r)
           N == L * EntryCells
<1>1. /\ h \in 1 .. MaxAppend /\ h = s[1] /\ r \in Entries /\ Len(s) = L + 1 /\ L \in Nat
      /\ \A i \in 1 .. L : r[i] = s[i + 1]
  <2>1. s \in Seq(1 .. MaxAppend) /\ Len(s) \in Nat \ {0}
    BY DEF Entries
  <2>2. Head(s) = s[1]
    BY <2>1
  <2>3. /\ h \in 1 .. MaxAppend /\ r \in Seq(1 .. MaxAppend) /\ L = Len(s) - 1
        /\ \A i \in 1 .. L : r[i] = s[i + 1]
    BY <2>1, SeqTail, Zenon
  <2> HIDE DEF r
  <2> QED
    BY <2>1, <2>2, <2>3 DEF Entries
<1> HIDE DEF h, r
<1>2. N \in Nat /\ Len(s) * EntryCells = N + EntryCells
  BY <1>1, Sizes
<1>3. AllCells(s) \in Seq(AnyCell) /\ Len(AllCells(s)) = N + EntryCells
  BY <1>2, AllCellsType, Zenon
<1>4. AllCells(r) \in Seq(AnyCell) /\ Len(AllCells(r)) = N
  BY <1>1, AllCellsType, Zenon
<1>5. Cells(h) \in Seq(AnyCell) /\ Len(Cells(h)) = EntryCells
  BY <1>1, CellsType, Zenon
<1> DEFINE t == Cells(h) \o AllCells(r)
<1>6. /\ t \in Seq(AnyCell) /\ Len(t) = N + EntryCells
      /\ \A i \in 1 .. EntryCells : t[i] = Cells(h)[i]
      /\ \A i \in EntryCells + 1 .. N + EntryCells : t[i] = AllCells(r)[i - EntryCells]
  <2>1. \A i \in 1 .. EntryCells + N : t[i] = IF i <= EntryCells THEN Cells(h)[i]
                                              ELSE AllCells(r)[i - EntryCells]
    <3> DEFINE c == Cells(h)
               a == AllCells(r)
    <3>1. \A i \in 1 .. Len(c) + Len(a) :
            (c \o a)[i] = IF i <= Len(c) THEN c[i] ELSE a[i - Len(c)]
      BY <1>4, <1>5, SeqConcat, Zenon
    <3> QED
      BY <1>4, <1>5, <3>1, Zenon
  <2>2. t \in Seq(AnyCell) /\ Len(t) = EntryCells + N
    BY <1>4, <1>5, SeqConcat, Zenon
  <2> HIDE DEF t
  <2> QED
    BY <1>2, <2>1, <2>2, Sizes
<1> HIDE DEF t
<1>7. ASSUME NEW k \in 1 .. N + EntryCells PROVE AllCells(s)[k] = t[k]
  <2>0. AllCells(s)[k] = <<s[1 + ((k - 1) \div EntryCells)], 1 + ((k - 1) % EntryCells)>>
    BY <1>2, Zenon DEF AllCells
  <2>1. CASE k \in 1 .. EntryCells
    <3>1. k - 1 \in Nat /\ 0 * EntryCells <= k - 1 /\ k - 1 < 0 * EntryCells + EntryCells
      BY <2>1, Sizes
    <3>2. (k - 1) \div EntryCells = 0 /\ (k - 1) % EntryCells = k - 1 - 0 * EntryCells
      BY <3>1, Division, Sizes, Zenon
    <3>3. 1 + (k - 1 - 0 * EntryCells) = k
      BY <2>1, Sizes
    <3>4. Cells(h)[k] = <<h, k>>
      BY <2>1, Zenon DEF Cells
    <3> QED
      BY <1>1, <1>6, <2>0, <2>1, <3>2, <3>3, <3>4
  <2>2. CASE k \in EntryCells + 1 .. N + EntryCells
    <3> DEFINE j == k - EntryCells
               d == (j - 1) \div EntryCells
    <3>1. j \in 1 .. N /\ k - 1 \in Nat /\ j - 1 \in Nat
      BY <1>2, <2>2, Sizes
    <3>2. d \in 0 .. L - 1 /\ d * EntryCells <= j - 1 /\ j - 1 < d * EntryCells + EntryCells
      BY <1>1, <3>1, Placed, Zenon
    <3>3. (j - 1) % EntryCells = j - 1 - d * EntryCells
      BY <3>1, <3>2, <1>1, Division, Sizes
    <3>4. AllCells(r)[j] = <<r[1 + d], 1 + (j - 1 - d * EntryCells)>>
      BY <3>1, <3>3, Zenon DEF AllCells
    <3> HIDE DEF d
    <3>5. /\ d + 1 \in Nat /\ (d + 1) * EntryCells = d * EntryCells + EntryCells
          /\ (d + 1) * EntryCells <= k - 1 /\ k - 1 < (d + 1) * EntryCells + EntryCells
      BY <1>1, <3>2, Sizes
    <3>6. (k - 1) \div EntryCells = d + 1 /\ (k - 1) % EntryCells = k - 1 - (d + 1) * EntryCells
      BY <3>1, <3>5, Division, Sizes, Zenon
    <3>7. 1 + (k - 1 - (d + 1) * EntryCells) = 1 + (j - 1 - d * EntryCells)
      BY <1>1, <3>2, <3>5, Sizes
    <3>8. s[1 + (d + 1)] = r[1 + d]
      BY <1>1, <3>2
    <3>9. t[k] = AllCells(r)[j]
      BY <1>6, <2>2, Zenon
    <3> QED
      BY <2>0, <3>4, <3>6, <3>7, <3>8, <3>9, Zenon
  <2> QED
    BY <1>2, <2>1, <2>2, Sizes
<1>8. AllCells(s) = t
  BY <1>3, <1>6, <1>7, SeqSame, Zenon
<1> QED
  BY <1>8, Zenon DEF h, r, t

--------------------------------------------------------------------------------
(* Every action keeps the cells of the accepted entries, in order. *)

\* What the worker still has to write, and the entry in its hand.
Unwritten == SubSeq(buf, done + 1, Len(buf))
Hand == IF entry = NoEntry THEN << >> ELSE Cells(entry)

\* The four parts are sequences of cells.
LEMMA PartTypes ==
  ASSUME BufferInv
  PROVE  /\ Unwritten \in Seq(AnyCell) /\ Hand \in Seq(AnyCell)
         /\ AllCells(ring) \in Seq(AnyCell)
         /\ handle # "dead" => Written \in Seq(AnyCell)
<1>1. /\ buf \in Seq(AnyCell) /\ done \in 0 .. Len(buf) /\ entry \in 0 .. MaxAppend
      /\ ring \in Entries /\ file \in Seq(AnyCell) /\ base \in Nat
  BY Zenon DEF BufferInv, TypeOK, Entries
<1>2. Unwritten \in Seq(AnyCell)
  BY <1>1 DEF Unwritten
<1>3. Hand \in Seq(AnyCell)
  <2>1. CASE entry = NoEntry
    BY <2>1 DEF Hand
  <2>2. CASE entry \in 1 .. MaxAppend
    BY <2>2, CellsType DEF Hand, NoEntry
  <2> QED
    BY <1>1, <2>1, <2>2, Sizes DEF NoEntry
<1>4. Written \in Seq(AnyCell)
  BY <1>1 DEF Written
<1> QED
  BY <1>1, <1>2, <1>3, <1>4, AllCellsType, Zenon

\* bt_journal_append puts the cells behind all others.
LEMMA AppendLoses ==
  ASSUME BufferInv, NothingLost, JournalAppend
  PROVE  NothingLost'
<1> SUFFICES ASSUME wpc' # "overrun"
             PROVE  Written' \o Unwritten' \o Hand' \o AllCells(ring') = AllCells(appended')
  BY Zenon DEF NothingLost, Unwritten, Hand
<1>1. Written' = Written /\ Unwritten' = Unwritten /\ Hand' = Hand
  BY Zenon DEF JournalAppend, Written, Unwritten, Hand, worker, disk
<1>2. Written \o Unwritten \o Hand \o AllCells(ring) = AllCells(appended)
  BY Zenon DEF NothingLost, Unwritten, Hand, JournalAppend, worker
<1>3. CASE UNCHANGED <<ring, appended>>
  BY <1>1, <1>2, <1>3, Zenon
<1>4. CASE ring' = ring \o <<calls'>> /\ appended' = appended \o <<calls'>>
  <2>1. calls' \in 1 .. MaxAppend
    BY Sizes DEF JournalAppend, BufferInv, TypeOK
  <2>2. ring \in Entries /\ appended \in Entries
    BY Zenon DEF BufferInv, TypeOK, Entries
  <2>3. /\ AllCells(ring') = AllCells(ring) \o Cells(calls')
        /\ AllCells(appended') = AllCells(appended) \o Cells(calls')
    BY <1>4, <2>1, <2>2, AllCellsAppend, Zenon
  <2> DEFINE w == Written \o Unwritten \o Hand
             r == AllCells(ring)
             c == Cells(calls')
  <2>4. w \in Seq(AnyCell) /\ r \in Seq(AnyCell) /\ c \in Seq(AnyCell)
    <3>1. /\ Written \in Seq(AnyCell) /\ Unwritten \in Seq(AnyCell) /\ Hand \in Seq(AnyCell)
          /\ r \in Seq(AnyCell)
      BY PartTypes, Zenon DEF JournalAppend
    <3>2. c \in Seq(AnyCell)
      BY <2>1, CellsType, Zenon
    <3> QED
      BY <3>1, <3>2, SeqConcat, Zenon
  <2> HIDE DEF w, r, c
  <2>5. (w \o r) \o c = w \o (r \o c)
    BY <2>4, SeqAssociates
  <2> QED
    BY <1>1, <1>2, <2>3, <2>5, Zenon DEF w, r, c
<1> QED
  BY <1>3, <1>4, Zenon DEF JournalAppend

\* An entry taken from the ring is in the worker's hand.
LEMMA PopLoses ==
  ASSUME BufferInv, NothingLost, Pop
  PROVE  NothingLost'
<1> SUFFICES ASSUME handle' \in {"open", "closing"}
             PROVE  Written' \o Unwritten' \o Hand' \o AllCells(ring') = AllCells(appended')
  BY Zenon DEF NothingLost, Unwritten, Hand
<1>1. Written' = Written /\ Unwritten' = Unwritten /\ appended' = appended
  BY Zenon DEF Pop, Written, Unwritten, api, disk
<1>2. Written \o Unwritten \o Hand \o AllCells(ring) = AllCells(appended)
  BY Zenon DEF NothingLost, Unwritten, Hand, Pop, api
<1>3. Hand = << >>
  BY Zenon DEF Pop, BufferInv, WorkerInv, InHand, Flushing, Hand
<1>4. ring \in Entries /\ ring # << >>
  BY Zenon DEF Pop, BufferInv, TypeOK, Entries
<1>5. Head(ring) \in 1 .. MaxAppend /\ Tail(ring) \in Entries
  BY <1>4, SeqTail, Zenon DEF Entries
<1>6. Hand' = Cells(Head(ring)) /\ ring' = Tail(ring)
  BY <1>5 DEF Pop, Hand, NoEntry
<1>7. AllCells(ring) = Hand' \o AllCells(ring')
  BY <1>4, <1>6, AllCellsHead, Zenon
<1>8. Written \o Unwritten \in Seq(AnyCell)
  BY PartTypes, SeqConcat, Zenon DEF Pop, api
<1>9. Hand' \in Seq(AnyCell) /\ AllCells(ring') \in Seq(AnyCell)
  BY <1>5, <1>6, CellsType, AllCellsType, Zenon
<1> DEFINE w == Written \o Unwritten
           h == Hand'
           r == AllCells(ring')
<1> HIDE DEF w, h, r
<1>10. w \in Seq(AnyCell) /\ h \in Seq(AnyCell) /\ r \in Seq(AnyCell)
  BY <1>8, <1>9, Zenon DEF w, h, r
<1>11. w \o << >> = w
  BY <1>10, SeqUnit, Zenon
<1>12. (w \o h) \o r = w \o (h \o r)
  BY <1>10, SeqAssociates
<1> QED
  BY <1>1, <1>2, <1>3, <1>7, <1>11, <1>12, Zenon DEF w, h, r

\* The memcpy into the buffer moves the entry behind what is there.
LEMMA CopyLoses ==
  ASSUME BufferInv, NothingLost, Copy
  PROVE  NothingLost'
<1> SUFFICES ASSUME handle' \in {"open", "closing"}
             PROVE  Written' \o Unwritten' \o Hand' \o AllCells(ring') = AllCells(appended')
  BY Zenon DEF NothingLost, Unwritten, Hand
<1>1. Written' = Written /\ ring' = ring /\ appended' = appended /\ Hand' = << >>
  BY Zenon DEF Copy, Written, Hand, api, disk
<1>2. Written \o Unwritten \o Hand \o AllCells(ring) = AllCells(appended)
  BY Zenon DEF NothingLost, Unwritten, Hand, Copy, api
<1>3. buf \in Seq(AnyCell) /\ done = 0 /\ done' = 0 /\ entry \in 1 .. MaxAppend
  BY DEF Copy, BufferInv, TypeOK, WorkerInv, InHand, Flushing, NoEntry
<1>4. Hand = Cells(entry) /\ Hand \in Seq(AnyCell)
  BY <1>3, CellsType DEF Hand, NoEntry
<1>5. Unwritten = buf
  BY <1>3, SeqWhole DEF Unwritten
<1>6. buf' = buf \o Hand /\ buf' \in Seq(AnyCell)
  BY <1>3, <1>4, SeqConcat, Zenon DEF Copy
<1>7. Unwritten' = Unwritten \o Hand
  <2>1. SubSeq(buf', 1, Len(buf')) = buf'
    BY <1>6, SeqWhole, Zenon
  <2>2. done' + 1 = 1
    BY <1>3
  <2> QED
    BY <1>5, <1>6, <2>1, <2>2, Zenon DEF Unwritten
<1> DEFINE w == Written
           u == Unwritten
           h == Hand
<1>8. w \in Seq(AnyCell) /\ u \in Seq(AnyCell) /\ h \in Seq(AnyCell)
  BY PartTypes, Zenon DEF Copy, api
<1> HIDE DEF w, u, h
<1>9. (w \o u) \o h = w \o (u \o h)
  BY <1>8, SeqAssociates
<1>10. w \o (u \o h) \in Seq(AnyCell)
  BY <1>8, SeqConcat, Zenon
<1>11. (w \o (u \o h)) \o << >> = w \o (u \o h)
  BY <1>10, SeqUnit, Zenon
<1> QED
  BY <1>1, <1>2, <1>7, <1>9, <1>11, Zenon DEF w, u, h

\* A write(), whole or short, moves the cells it wrote to the end of the file.
LEMMA WriteLoses ==
  ASSUME BufferInv, NothingLost, Write, handle' \in {"open", "closing"}
  PROVE  Written' \o Unwritten' = Written \o Unwritten
<1>1. CASE UNCHANGED <<file, done>>
  BY <1>1, Zenon DEF Write, Written, Unwritten, api
<1>2. CASE \E n \in 1 .. Len(buf) - done : /\ file' = file \o SubSeq(buf, done + 1, done + n)
                                           /\ done' = done + n
  <2>1. PICK n \in 1 .. Len(buf) - done : /\ file' = file \o SubSeq(buf, done + 1, done + n)
                                          /\ done' = done + n
    BY <1>2, Zenon
  <2>2. /\ buf \in Seq(AnyCell) /\ file \in Seq(AnyCell) /\ Len(buf) \in Nat /\ Len(file) \in Nat
        /\ done \in 0 .. Len(buf) /\ base \in 0 .. Len(file) /\ UNCHANGED <<buf, base>>
    BY DEF Write, BufferInv, TypeOK, WorkerInv, api
  <2> DEFINE p == SubSeq(buf, done + 1, done + n)
             u == SubSeq(buf, done + n + 1, Len(buf))
  <2>3. p \in Seq(AnyCell) /\ u \in Seq(AnyCell)
    BY <2>2
  <2>4. p \o u = Unwritten
    <3>1. /\ done + 1 \in 1 .. Len(buf) + 1 /\ done + n \in (done + 1) - 1 .. Len(buf)
          /\ Len(buf) \in done + n .. Len(buf)
      BY <2>2
    <3> QED
      BY <2>2, <3>1, SeqMeet, Zenon DEF Unwritten
  <2>5. Unwritten' = u
    BY <2>1, <2>2, Zenon DEF Unwritten
  <2> HIDE DEF p, u
  <2>6. file' = file \o p
    BY <2>1, Zenon DEF p
  <2>7. Written' = Written \o p
    <3>1. Written \in Seq(AnyCell) /\ Len(Written) = Len(file) - base
          /\ \A i \in 1 .. Len(Written) : Written[i] = file[base + i]
      <4>1. base + 1 \in Int /\ \A i \in base + 1 .. Len(file) : file[i] \in AnyCell
        BY <2>2
      <4> DEFINE v == SubSeq(file, base + 1, Len(file))
      <4>2. /\ v \in Seq(AnyCell)
            /\ Len(v) = IF base + 1 <= Len(file) THEN Len(file) - (base + 1) + 1 ELSE 0
            /\ \A i \in 1 .. Len(file) - (base + 1) + 1 : v[i] = file[(base + 1) + i - 1]
        BY <2>2, <4>1, SeqPart
      <4> HIDE DEF v
      <4>3. Len(v) = Len(file) - base /\ \A i \in 1 .. Len(v) : v[i] = file[base + i]
        <5>1. PICK a \in Nat, b \in Nat : a = Len(file) /\ b = base /\ b <= a
          BY <2>2
        <5>2. /\ (IF b + 1 <= a THEN a - (b + 1) + 1 ELSE 0) = a - b /\ a - (b + 1) + 1 = a - b
              /\ \A i \in 1 .. a - b : (b + 1) + i - 1 = b + i
          BY <5>1
        <5> QED BY <4>2, <5>1, <5>2, Zenon
      <4> QED BY <4>2, <4>3, Zenon DEF Written, v
    <3>2. /\ file' \in Seq(AnyCell) /\ Len(file') = Len(file) + Len(p) /\ Len(p) \in Nat
          /\ \A i \in 1 .. Len(file) : file'[i] = file[i]
          /\ \A i \in 1 .. Len(p) : file'[Len(file) + i] = p[i]
      BY <2>2, <2>3, <2>6
    <3>3. /\ Written' \in Seq(AnyCell) /\ Len(Written') = Len(file') - base
          /\ \A i \in 1 .. Len(Written') : Written'[i] = file'[base + i]
      BY <2>2, <3>2 DEF Written
    <3> DEFINE w == Written
               x == Written'
               t == Written \o p
    <3> HIDE DEF w, x
    <3>4. /\ t \in Seq(AnyCell) /\ Len(t) = Len(w) + Len(p)
          /\ \A i \in 1 .. Len(t) : t[i] = IF i <= Len(w) THEN w[i] ELSE p[i - Len(w)]
      <4>1. w \in Seq(AnyCell) /\ t = w \o p
        BY <3>1, Zenon DEF w
      <4>2. /\ w \o p \in Seq(AnyCell) /\ Len(w \o p) = Len(w) + Len(p)
            /\ \A i \in 1 .. Len(w) + Len(p) : (w \o p)[i] = IF i <= Len(w) THEN w[i] ELSE p[i - Len(w)]
        BY <2>3, <4>1, SeqConcat, Zenon
      <4> QED BY <4>1, <4>2, Zenon
    <3> HIDE DEF t
    <3>5. Len(x) = Len(t) /\ x \in Seq(AnyCell) /\ Len(w) \in Nat /\ Len(w) = Len(file) - base
      BY <2>2, <3>1, <3>2, <3>3, <3>4 DEF w, x
    <3>6. ASSUME NEW i \in 1 .. Len(x) PROVE x[i] = t[i]
      <4>1. x[i] = file'[base + i] /\ i \in 1 .. Len(w) + Len(p)
        BY <3>3, <3>4, <3>5, Zenon DEF x
      <4>2. CASE i <= Len(w)
        <5>1. i \in 1 .. Len(w) /\ base + i \in 1 .. Len(file)
          BY <2>2, <3>5, <4>1, <4>2
        <5>2. file'[base + i] = file[base + i]
          BY <3>2, <5>1, Zenon
        <5>3. w[i] = file[base + i]
          BY <3>1, <5>1, Zenon DEF w
        <5> QED
          BY <3>4, <3>5, <4>1, <4>2, <5>2, <5>3, Zenon
      <4>3. CASE i > Len(w)
        <5>1. base + i = Len(file) + (i - Len(w)) /\ i - Len(w) \in 1 .. Len(p)
          BY <2>2, <3>2, <3>5, <4>1, <4>3
        <5>2. file'[base + i] = p[i - Len(w)]
          BY <3>2, <5>1, Zenon
        <5> QED
          BY <3>4, <3>5, <4>1, <4>3, <5>2
      <4> QED
        BY <3>5, <4>2, <4>3
    <3>7. x = t
      BY <3>4, <3>5, <3>6, SeqSame, Zenon
    <3> QED
      BY <3>7, Zenon DEF x, t
  <2>8. Written \in Seq(AnyCell)
    BY PartTypes, Zenon DEF Write, api
  <2> DEFINE w == Written
  <2> HIDE DEF w
  <2>9. (w \o p) \o u = w \o (p \o u)
    BY <2>3, <2>8, SeqAssociates DEF w
  <2> QED
    BY <2>4, <2>5, <2>7, <2>9, Zenon DEF w
<1> QED
  BY <1>1, <1>2, Zenon DEF Write

\* What bt_journal_append accepted is, cell by cell and in order, in the file, in
\* the unwritten part of the buffer, in the worker's hand or in the ring, through
\* short writes, write errors and a missing buffer.
THEOREM NoneLost == Spec => []NothingLost
<1>1. Init => NothingLost
  <2> SUFFICES ASSUME Init PROVE NothingLost
    BY Zenon
  <2>1. Written = << >> /\ Unwritten = << >> /\ Hand = << >>
    BY DEF Init, Written, Unwritten, Hand
  <2>2. AllCells(ring) = << >> /\ AllCells(appended) = << >>
    BY AllCellsEmpty, Zenon DEF Init
  <2>3. Written \o Unwritten \o Hand \o AllCells(ring) = AllCells(appended)
    BY <2>1, <2>2
  <2> QED
    BY <2>3, Zenon DEF NothingLost, Unwritten, Hand
<1>2. BufferInv /\ NothingLost /\ [Next]_vars => NothingLost'
  <2> SUFFICES ASSUME BufferInv, NothingLost, [Next]_vars,
                      handle' \in {"open", "closing"}, wpc' # "overrun"
               PROVE  Written' \o Unwritten' \o Hand' \o AllCells(ring') = AllCells(appended')
    BY Zenon DEF NothingLost, Unwritten, Hand
  <2>0. ASSUME handle \in {"open", "closing"}, wpc # "overrun"
        PROVE  Written \o Unwritten \o Hand \o AllCells(ring) = AllCells(appended)
    BY <2>0, Zenon DEF NothingLost, Unwritten, Hand
  <2>1. ASSUME UNCHANGED <<file, base, buf, done, entry, ring, appended>>,
               handle \in {"open", "closing"}, wpc # "overrun"
        PROVE  Written' \o Unwritten' \o Hand' \o AllCells(ring') = AllCells(appended')
    <3>1. Written' = Written /\ Unwritten' = Unwritten /\ Hand' = Hand
      BY <2>1, Zenon DEF Written, Unwritten, Hand
    <3> QED
      BY <2>0, <2>1, <3>1, Zenon
  <2>2. CASE JournalAppend \/ Pop \/ Copy
    <3>1. NothingLost'
      BY <2>2, AppendLoses, PopLoses, CopyLoses, Zenon
    <3> QED
      BY <3>1, Zenon DEF NothingLost, Unwritten, Hand
  <2>3. CASE Write
    <3>1. Written' \o Unwritten' = Written \o Unwritten
      BY <2>3, WriteLoses, Zenon
    <3>2. Hand' = Hand /\ ring' = ring /\ appended' = appended
      BY <2>3, Zenon DEF Write, Hand, api
    <3>3. Written \o Unwritten \o Hand \o AllCells(ring) = AllCells(appended)
      BY <2>0, <2>3, Zenon DEF Write, api
    <3> QED
      BY <3>1, <3>2, <3>3, Zenon
  <2>4. CASE Shift
    <3>1. Written' = Written /\ Hand' = Hand /\ ring' = ring /\ appended' = appended
      BY <2>4, Zenon DEF Shift, Written, Hand, api, disk
    <3>2. Unwritten \in Seq(AnyCell)
      BY PartTypes, Zenon
    <3>3. buf' = Unwritten /\ done' = 0
      BY <2>4, Zenon DEF Shift, Unwritten
    <3>4. Unwritten' = SubSeq(Unwritten, 1, Len(Unwritten))
      BY <3>3 DEF Unwritten
    <3>5. Unwritten' = Unwritten
      BY <3>2, <3>4, SeqWhole, Zenon
    <3>6. Written \o Unwritten \o Hand \o AllCells(ring) = AllCells(appended)
      BY <2>0, <2>4, Zenon DEF Shift, api
    <3> QED
      BY <3>1, <3>5, <3>6, Zenon
  <2>5. CASE Open
    <3>1. file \in Seq(AnyCell)
      BY Zenon DEF BufferInv, TypeOK
    <3>2. Written' = << >> /\ Unwritten' = << >> /\ Hand' = << >>
      BY <2>5, <3>1 DEF Open, StartWorker, Written, Unwritten, Hand, disk
    <3>3. AllCells(ring') = << >> /\ AllCells(appended') = << >>
      BY <2>5, AllCellsEmpty, Zenon DEF Open
    <3> QED
      BY <3>2, <3>3
  <2>6. CASE Flush \/ CloseBegin \/ CloseEnd
    BY <2>1, <2>6, Zenon DEF Flush, Fdatasync, CloseBegin, CloseEnd, api, worker, disk
  <2>7. CASE Kill \/ PowerLoss
    BY <2>7, Zenon DEF Kill, PowerLoss
  <2>8. CASE Start \/ Loop \/ Drained \/ IdleFlush \/ IdleWait \/ WriteDone \/ Sync
    BY <2>1, <2>8, Zenon DEF Start, Loop, Drained, IdleFlush, IdleWait, WriteDone, Sync, Fdatasync,
       api, disk
  <2>9. CASE UNCHANGED vars
    BY <2>1, <2>9, Zenon DEF vars, api, worker, disk
  <2> QED
    BY <2>2, <2>3, <2>4, <2>5, <2>6, <2>7, <2>8, <2>9, Zenon DEF Next, Interface, Worker
<1> QED
  BY <1>1, <1>2, BufferCorrect, PTL DEF Spec

--------------------------------------------------------------------------------
(* The shared memory segments *)

\* A segment is never empty once it has its size.
LEMMA TotalType == Total \in Nat /\ Total > 0
<1> DEFINE a == Size + Page - 1
<1>1. a \in Nat /\ Page \in Nat /\ Page > 0 /\ HeaderSize \in Nat /\ HeaderSize > 0
  BY ShmemAssumption
<1> HIDE DEF a
<1>2. a \div Page \in Nat
  BY <1>1
<1>3. (a \div Page) * Page \in Nat
  BY <1>1, <1>2
<1> QED
  BY <1>1, <1>3 DEF Total, a

Descriptor == [size : {0, Total}, header : {"zero", "magic", "ready"}]
Pcs == Creating \cup {"none", "stat", "attach", "check", "handle", "open", "unlink"}
HandleOf(n) == [pc : Pcs, fd : 0 .. n, map : 0 .. n, size : {0, Total}, owner : BOOLEAN]

\* The inductive invariant.
IInv == HandlesInv /\ UnlinksItsOwn

\* A process that may unlink the name finds it taken, by its own segment.
LEMMA UnlinkerHasName ==
  ASSUME IInv, NEW p \in Procs, proc[p].owner \/ proc[p].pc \in Creating \cup {"unlink"}
  PROVE  name \in 1 .. Len(segs)
<1>1. name \in 0 .. Len(segs) /\ Len(segs) \in Nat
  BY DEF IInv, HandlesInv, ShmemTypeOK
<1>2. CASE At(p, "unlink")
  BY <1>1, <1>2 DEF IInv, UnlinksItsOwn
<1>3. CASE proc[p].owner \/ proc[p].pc \in Creating
  <2>1. name = Segment(p) /\ proc[p].pc \notin {"none", "unlink"}
    BY <1>3, Zenon DEF IInv, HandlesInv, UnlinksItsOwn, StepsInv, Creating
  <2> QED
    BY <2>1, Zenon DEF IInv, HandlesInv, StepsInv
<1> QED
  BY <1>2, <1>3, Zenon DEF At

\* The initial state.
LEMMA InitShmem == ShmemInit => IInv
<1> SUFFICES ASSUME ShmemInit PROVE IInv
  BY Zenon
<1> USE DEF ShmemInit
<1>1. ShmemTypeOK
  BY TotalType, ShmemAssumption DEF ShmemTypeOK, Fresh
<1>2. NothingHeld /\ NameHasOwner /\ MapsWhole
  BY Zenon DEF NothingHeld, NameHasOwner, MapsWhole, At, Fresh
<1>3. StepsInv
  BY Zenon DEF StepsInv, At, Fresh, Held
<1>4. UnlinksItsOwn
  BY Zenon DEF UnlinksItsOwn, At, Fresh, Creating
<1> QED
  BY <1>1, <1>2, <1>3, <1>4, Zenon DEF IInv, HandlesInv

--------------------------------------------------------------------------------
(* A step of one process, in terms of the handle r it ends with. *)

\* What StepsInv says of one handle r, given the segments sg.
Sound(r, sg) ==
  /\ r.pc \notin {"none", "unlink"} => r.fd \in 1 .. Len(sg)
  /\ r.pc \in {"map"} \cup Held => sg[r.fd].size = Total
  /\ r.pc \in Held => r.map = r.fd /\ r.size = Total
  /\ r.pc = "attach" /\ r.size # 0 => sg[r.fd].size = Total
  /\ r.pc \in {"handle", "open"} => sg[r.fd].header # "zero"
  /\ r.owner => r.pc \in {"magic", "masks", "open"}
  /\ r.pc \in {"magic", "masks"} => r.owner

\* Segments keep their size once they have it, and their magic.
Grows == /\ segs' \in Seq(Descriptor) /\ Len(segs') >= Len(segs)
         /\ \A i \in 1 .. Len(segs) : /\ segs[i].size = Total => segs'[i].size = Total
                                      /\ segs[i].header # "zero" => segs'[i].header # "zero"

\* A handle that will unlink the name, now or when it is destroyed.
Claims(r) == r.owner \/ r.pc \in Creating
MayUnlink(r) == Claims(r) \/ r.pc = "unlink"

\* A sound handle stays sound while the segments grow.
LEMMA SoundGrows ==
  ASSUME NEW r, Sound(r, segs), Grows, Len(segs) \in Nat
  PROVE  Sound(r, segs')
<1>1. r.pc \notin {"none", "unlink"} => r.fd \in 1 .. Len(segs')
  BY DEF Sound, Grows
<1>2. r.pc \in {"map"} \cup Held => segs'[r.fd].size = Total
  BY Zenon DEF Sound, Grows, Held
<1>3. r.pc = "attach" /\ r.size # 0 => segs'[r.fd].size = Total
  BY Zenon DEF Sound, Grows
<1>4. r.pc \in {"handle", "open"} => segs'[r.fd].header # "zero"
  BY Zenon DEF Sound, Grows
<1> QED
  BY <1>1, <1>2, <1>3, <1>4, Zenon DEF Sound

\* What a step of one process keeps of the handles.
LEMMA HandleStep ==
  ASSUME IInv, NEW p \in Procs, NEW r \in HandleOf(Len(segs')), proc' = [proc EXCEPT ![p] = r],
         Grows, Sound(r, segs'), r.pc = "none" => r = Fresh
  PROVE  /\ proc' \in [Procs -> HandleOf(Len(segs'))]
         /\ NothingHeld' /\ StepsInv' /\ MapsWhole'
<1>1. proc \in [Procs -> HandleOf(Len(segs))] /\ Len(segs) \in Nat
  BY DEF IInv, HandlesInv, ShmemTypeOK, HandleOf, Pcs
<1>2. Len(segs') \in Nat /\ Len(segs) <= Len(segs')
  BY DEF Grows
<1>3. HandleOf(Len(segs)) \subseteq HandleOf(Len(segs'))
  BY <1>1, <1>2 DEF HandleOf
<1>4. proc' \in [Procs -> HandleOf(Len(segs'))]
  BY <1>1, <1>3, Zenon
<1>5. /\ proc'[p] = r
      /\ \A q \in Procs : q # p => proc'[q] = proc[q]
  BY <1>1, Zenon
<1>6. NothingHeld'
  BY <1>5, Zenon DEF NothingHeld, At, IInv, HandlesInv
<1>7. ASSUME NEW q \in Procs PROVE Sound(proc'[q], segs')
  <2>1. Sound(proc[q], segs)
    BY Zenon DEF IInv, HandlesInv, StepsInv, Sound, At, Segment
  <2>2. Sound(proc[q], segs')
    BY <1>1, <2>1, SoundGrows, Zenon
  <2> QED
    BY <1>5, <2>2, Zenon
<1>8. StepsInv'
  BY <1>7, Zenon DEF StepsInv, Sound, At, Segment
<1>9. MapsWhole'
  BY <1>8, Zenon DEF StepsInv, MapsWhole, At, Segment, Held
<1> QED
  BY <1>4, <1>6, <1>8, <1>9, Zenon

\* A step that leaves the name alone and claims nothing new keeps it with its owner.
LEMMA NameStays ==
  ASSUME IInv, NEW p \in Procs, NEW r, proc' = [proc EXCEPT ![p] = r], name' = name,
         Claims(r) => Claims(proc[p]) /\ r.fd = proc[p].fd,
         r.pc = "unlink" => Claims(proc[p]) /\ ~Claims(r),
         orphans \subseteq orphans',
         MayUnlink(proc[p]) /\ ~MayUnlink(r) => name \in orphans'
  PROVE  UnlinksItsOwn' /\ NameHasOwner'
<1>0. proc \in [Procs -> HandleOf(Len(segs))]
  BY Zenon DEF IInv, HandlesInv, ShmemTypeOK, HandleOf, Pcs
<1>1. /\ proc'[p] = r
      /\ \A q \in Procs : q # p => proc'[q] = proc[q]
  BY <1>0, Zenon
<1>2. ASSUME NEW q \in Procs, NEW s \in Procs, q # s, Claims(proc[q])
      PROVE  name = proc[q].fd /\ ~MayUnlink(proc[s])
  BY <1>2, Zenon DEF IInv, UnlinksItsOwn, Claims, MayUnlink, Segment
<1>3. ASSUME NEW q \in Procs, NEW s \in Procs, q # s, proc[q].pc = "unlink"
      PROVE  name # 0 /\ ~proc[s].owner /\ proc[s].pc # "unlink"
  BY <1>3, Zenon DEF IInv, UnlinksItsOwn, At
<1>4. ASSUME NEW q \in Procs, MayUnlink(proc[q]) PROVE name # 0
  BY <1>4, UnlinkerHasName DEF MayUnlink, Claims, IInv, HandlesInv, ShmemTypeOK
<1>5. ASSUME NEW q \in Procs, Claims(proc[q]) PROVE name = proc[q].fd
  BY <1>5, Zenon DEF IInv, UnlinksItsOwn, Claims, Segment
<1>6. ASSUME NEW q \in Procs, Claims(proc'[q])
      PROVE  /\ name = proc'[q].fd
             /\ \A s \in Procs \ {q} : ~MayUnlink(proc'[s])
  BY <1>1, <1>2, <1>5, <1>6, Zenon DEF MayUnlink
<1>7. ASSUME NEW q \in Procs, proc'[q].pc = "unlink"
      PROVE  name # 0 /\ \A s \in Procs \ {q} : ~proc'[s].owner /\ proc'[s].pc # "unlink"
  <2>1. MayUnlink(proc[q]) /\ name # 0
    BY <1>1, <1>4, <1>7, Zenon DEF MayUnlink
  <2>2. ASSUME NEW s \in Procs, s # q PROVE ~proc'[s].owner /\ proc'[s].pc # "unlink"
    <3>1. CASE q = p
      BY <1>1, <1>2, <1>7, <2>2, <3>1, Zenon DEF MayUnlink, Claims
    <3>2. CASE q # p /\ s = p
      <4>1. ~Claims(proc[p])
        BY <1>1, <1>2, <1>7, <3>2, Zenon DEF MayUnlink
      <4> QED
        BY <1>1, <3>2, <4>1, Zenon DEF Claims
    <3>3. CASE q # p /\ s # p
      BY <1>1, <1>3, <1>7, <2>2, <3>3, Zenon
    <3> QED
      BY <3>1, <3>2, <3>3, Zenon
  <2> QED
    BY <2>1, <2>2, Zenon
<1>8. UnlinksItsOwn'
  BY <1>6, <1>7, Zenon DEF UnlinksItsOwn, Claims, MayUnlink, Segment, At
<1>9. NameHasOwner'
  <2> SUFFICES ASSUME name # 0, name \notin orphans'
               PROVE  \E q \in Procs : MayUnlink(proc'[q])
    BY Zenon DEF NameHasOwner, MayUnlink, Claims
  <2>1. PICK q \in Procs : MayUnlink(proc[q])
    BY Zenon DEF IInv, HandlesInv, NameHasOwner, MayUnlink, Claims
  <2> QED
    BY <1>1, <2>1, Zenon
<1> QED
  BY <1>8, <1>9, Zenon

\* shm_unlink by the process the name belongs to leaves it to nobody.
LEMMA NameFreed ==
  ASSUME IInv, NEW p \in Procs, MayUnlink(proc[p]), proc' = [proc EXCEPT ![p] = Fresh], name' = 0
  PROVE  UnlinksItsOwn' /\ NameHasOwner'
<1>0. proc \in [Procs -> HandleOf(Len(segs))]
  BY Zenon DEF IInv, HandlesInv, ShmemTypeOK, HandleOf, Pcs
<1>1. /\ proc'[p] = Fresh
      /\ \A q \in Procs : q # p => proc'[q] = proc[q]
  BY <1>0, Zenon
<1>2. ASSUME NEW q \in Procs, NEW s \in Procs, q # s, Claims(proc[q])
      PROVE  ~MayUnlink(proc[s])
  BY <1>2, Zenon DEF IInv, UnlinksItsOwn, Claims, MayUnlink
<1>3. ASSUME NEW q \in Procs, NEW s \in Procs, q # s, proc[q].pc = "unlink"
      PROVE  proc[s].pc # "unlink"
  BY <1>3, Zenon DEF IInv, UnlinksItsOwn, At
<1>4. ASSUME NEW q \in Procs, q # p PROVE ~MayUnlink(proc[q])
  BY <1>2, <1>3, <1>4, Zenon DEF MayUnlink
<1>5. ~MayUnlink(Fresh)
  BY Zenon DEF MayUnlink, Claims, Fresh, Creating
<1>6. \A q \in Procs : ~MayUnlink(proc'[q])
  BY <1>1, <1>4, <1>5, Zenon
<1> QED
  BY <1>6, Zenon DEF UnlinksItsOwn, NameHasOwner, MayUnlink, Claims, At

\* shm_open with O_EXCL gives a free name to the process that creates it.
LEMMA NameTaken ==
  ASSUME IInv, NEW p \in Procs, NEW r, proc' = [proc EXCEPT ![p] = r], name = 0, name' # 0,
         r.pc = "truncate", r.fd = name'
  PROVE  UnlinksItsOwn' /\ NameHasOwner'
<1>0. proc \in [Procs -> HandleOf(Len(segs))]
  BY Zenon DEF IInv, HandlesInv, ShmemTypeOK, HandleOf, Pcs
<1>1. /\ proc'[p] = r
      /\ \A q \in Procs : q # p => proc'[q] = proc[q]
  BY <1>0, Zenon
<1>2. ASSUME NEW q \in Procs PROVE ~MayUnlink(proc[q])
  BY UnlinkerHasName DEF MayUnlink, Claims, IInv, HandlesInv, ShmemTypeOK
<1>3. Claims(r) /\ r.pc # "unlink"
  BY Zenon DEF Claims, Creating
<1>4. \A q \in Procs : q # p => ~MayUnlink(proc'[q])
  BY <1>1, <1>2, Zenon
<1>5. UnlinksItsOwn'
  BY <1>1, <1>3, <1>4, Zenon DEF UnlinksItsOwn, MayUnlink, Claims, Segment, At
<1>6. NameHasOwner'
  BY <1>1, <1>3, Zenon DEF NameHasOwner, Claims
<1> QED
  BY <1>5, <1>6, Zenon

\* The rest of the type invariant.
LEMMA TypesTogether ==
  ASSUME Grows, proc' \in [Procs -> HandleOf(Len(segs'))], name' \in 0 .. Len(segs'),
         orphans' \subseteq 1 .. Len(segs'), crashes' \in 0 .. Crashes
  PROVE  ShmemTypeOK'
  BY Zenon DEF Grows, ShmemTypeOK, HandleOf, Pcs, Descriptor

\* Both parts of a step together.
LEMMA StepTogether ==
  ASSUME ShmemTypeOK', NothingHeld', StepsInv', MapsWhole', UnlinksItsOwn', NameHasOwner'
  PROVE  IInv'
  BY Zenon DEF IInv, HandlesInv

\* A step of one process that changes no segment, leaves the name alone and
\* claims nothing new.
LEMMA QuietStep ==
  ASSUME IInv, NEW p \in Procs, NEW r \in HandleOf(Len(segs)), proc' = [proc EXCEPT ![p] = r],
         UNCHANGED <<segs, name>>, Sound(r, segs), r.pc = "none" => r = Fresh,
         Claims(r) => Claims(proc[p]) /\ r.fd = proc[p].fd,
         r.pc = "unlink" => Claims(proc[p]) /\ ~Claims(r),
         orphans \subseteq orphans', orphans' \subseteq 1 .. Len(segs), crashes' \in 0 .. Crashes,
         MayUnlink(proc[p]) /\ ~MayUnlink(r) => name \in orphans'
  PROVE  IInv'
<1>1. Grows
  BY DEF Grows, IInv, HandlesInv, ShmemTypeOK, Descriptor
<1>2. r \in HandleOf(Len(segs')) /\ Sound(r, segs')
  BY Zenon
<1>3. /\ proc' \in [Procs -> HandleOf(Len(segs'))]
      /\ NothingHeld' /\ StepsInv' /\ MapsWhole'
  BY <1>1, <1>2, HandleStep, Zenon
<1>4. UnlinksItsOwn' /\ NameHasOwner'
  BY NameStays, Zenon
<1>5. ShmemTypeOK'
  BY <1>1, <1>3, TypesTogether, Zenon DEF IInv, HandlesInv, ShmemTypeOK
<1> QED
  BY <1>3, <1>4, <1>5, StepTogether, Zenon

--------------------------------------------------------------------------------
(* The actions. *)

\* What a step starts from.
LEMMA HandleFacts ==
  ASSUME IInv, NEW p \in Procs
  PROVE  /\ proc[p] \in HandleOf(Len(segs)) /\ Sound(proc[p], segs)
         /\ proc \in [Procs -> HandleOf(Len(segs))] /\ segs \in Seq(Descriptor)
         /\ Len(segs) \in Nat /\ name \in 0 .. Len(segs)
         /\ orphans \subseteq 1 .. Len(segs) /\ crashes \in 0 .. Crashes
         /\ proc[p].pc = "none" => proc[p] = Fresh
<1>1. /\ proc \in [Procs -> HandleOf(Len(segs))] /\ segs \in Seq(Descriptor)
      /\ name \in 0 .. Len(segs) /\ orphans \subseteq 1 .. Len(segs) /\ crashes \in 0 .. Crashes
  BY Zenon DEF IInv, HandlesInv, ShmemTypeOK, HandleOf, Pcs, Descriptor
<1>2. Len(segs) \in Nat
  BY <1>1
<1>3. Sound(proc[p], segs)
  BY Zenon DEF IInv, HandlesInv, StepsInv, Sound, At, Segment
<1>4. proc[p].pc = "none" => proc[p] = Fresh
  BY Zenon DEF IInv, HandlesInv, NothingHeld, At
<1> QED
  BY <1>1, <1>2, <1>3, <1>4, Zenon

\* A handle given up is sound and claims nothing.
LEMMA FreshHandle ==
  ASSUME NEW n \in Nat, NEW sg
  PROVE  Fresh \in HandleOf(n) /\ Sound(Fresh, sg) /\ ~MayUnlink(Fresh) /\ Fresh.pc = "none"
  BY DEF Fresh, HandleOf, Pcs, Sound, Held, MayUnlink, Claims, Creating

\* bt_shmem_create after ftruncate, and bt_shmem_attach: steps that change only the
\* handle.
LEMMA HandleSteps ==
  ASSUME IInv, NEW p \in Procs,
         \/ CreateMap(p) \/ CreateAlloc(p) \/ AttachOpen(p) \/ AttachStat(p)
         \/ AttachMap(p) \/ AttachCheck(p) \/ AttachDone(p)
  PROVE  IInv'
<1> DEFINE h == proc[p]
           n == Len(segs)
<1>0. /\ h \in HandleOf(n) /\ Sound(h, segs) /\ n \in Nat /\ name \in 0 .. n
      /\ proc \in [Procs -> HandleOf(n)] /\ segs \in Seq(Descriptor)
      /\ orphans \subseteq 1 .. n /\ crashes \in 0 .. Crashes
      /\ h.pc = "none" => h = Fresh
  BY HandleFacts, Zenon
<1>q. ASSUME NEW r \in HandleOf(n), proc' = [proc EXCEPT ![p] = r],
             UNCHANGED <<segs, name, crashes, orphans>>, Sound(r, segs),
             r.pc \notin {"none", "unlink"}, MayUnlink(r) <=> MayUnlink(h), r.fd = h.fd \/ ~Claims(r),
             h.pc # "unlink"
      PROVE  IInv'
  BY <1>0, <1>q, QuietStep, Zenon DEF MayUnlink
<1> USE <1>0, TotalType DEF At, Segment
<1>1. CASE CreateMap(p)
  <2> DEFINE r == [h EXCEPT !.pc = "alloc", !.map = h.fd, !.size = Total]
  <2>1. proc' = [proc EXCEPT ![p] = r] /\ UNCHANGED <<segs, name, crashes, orphans>>
    BY <1>1, Zenon DEF CreateMap
  <2>2. r \in HandleOf(n)
    BY <1>1, Zenon DEF CreateMap, HandleOf, Pcs, Creating, Descriptor, Sound
  <2>3. Sound(r, segs)
    BY <1>1, Zenon DEF CreateMap, HandleOf, Sound, Held, Descriptor, Mappable, Fresh
  <2>4. /\ r.pc \notin {"none", "unlink"} /\ (MayUnlink(r) <=> MayUnlink(h))
        /\ (r.fd = h.fd \/ ~Claims(r)) /\ h.pc # "unlink"
    BY <1>1, Zenon DEF CreateMap, HandleOf, MayUnlink, Claims, Creating, Sound, Fresh
  <2> QED
    BY <1>q, <2>1, <2>2, <2>3, <2>4, Zenon
<1>2. CASE CreateAlloc(p)
  <2> DEFINE r == [h EXCEPT !.pc = "magic", !.owner = TRUE]
  <2>1. proc' = [proc EXCEPT ![p] = r] /\ UNCHANGED <<segs, name, crashes, orphans>>
    BY <1>2, Zenon DEF CreateAlloc
  <2>2. r \in HandleOf(n)
    BY <1>2, Zenon DEF CreateAlloc, HandleOf, Pcs, Creating, Descriptor, Sound
  <2>3. Sound(r, segs)
    BY <1>2, Zenon DEF CreateAlloc, HandleOf, Sound, Held, Descriptor, Mappable, Fresh
  <2>4. /\ r.pc \notin {"none", "unlink"} /\ (MayUnlink(r) <=> MayUnlink(h))
        /\ (r.fd = h.fd \/ ~Claims(r)) /\ h.pc # "unlink"
    BY <1>2, Zenon DEF CreateAlloc, HandleOf, MayUnlink, Claims, Creating, Sound, Fresh
  <2> QED
    BY <1>q, <2>1, <2>2, <2>3, <2>4, Zenon
<1>3. CASE AttachOpen(p)
  <2> DEFINE r == [h EXCEPT !.pc = "stat", !.fd = name]
  <2>1. proc' = [proc EXCEPT ![p] = r] /\ UNCHANGED <<segs, name, crashes, orphans>>
    BY <1>3, Zenon DEF AttachOpen
  <2>2. r \in HandleOf(n)
    BY <1>3, Zenon DEF AttachOpen, HandleOf, Pcs, Creating, Descriptor, Sound
  <2>3. Sound(r, segs)
    BY <1>3 DEF AttachOpen, HandleOf, Sound, Held, Descriptor, Mappable, Fresh
  <2>4. /\ r.pc \notin {"none", "unlink"} /\ (MayUnlink(r) <=> MayUnlink(h))
        /\ (r.fd = h.fd \/ ~Claims(r)) /\ h.pc # "unlink"
    BY <1>3, Zenon DEF AttachOpen, HandleOf, MayUnlink, Claims, Creating, Sound, Fresh
  <2> QED
    BY <1>q, <2>1, <2>2, <2>3, <2>4, Zenon
<1>4. CASE AttachStat(p)
  <2> DEFINE r == [h EXCEPT !.pc = "attach", !.size = segs[h.fd].size]
  <2>1. proc' = [proc EXCEPT ![p] = r] /\ UNCHANGED <<segs, name, crashes, orphans>>
    BY <1>4, Zenon DEF AttachStat
  <2>2. r \in HandleOf(n)
    <3>1. h.fd \in 1 .. n
      BY <1>4, Zenon DEF AttachStat, Sound
    <3>2. segs[h.fd] \in Descriptor
      BY <3>1
    <3>3. segs[h.fd].size \in {0, Total}
      BY <3>2, Zenon DEF Descriptor
    <3> QED
      BY <3>3, Zenon DEF HandleOf, Pcs
  <2>3. Sound(r, segs)
    BY <1>4 DEF AttachStat, HandleOf, Sound, Held, Descriptor, Mappable, Fresh
  <2>4. /\ r.pc \notin {"none", "unlink"} /\ (MayUnlink(r) <=> MayUnlink(h))
        /\ (r.fd = h.fd \/ ~Claims(r)) /\ h.pc # "unlink"
    BY <1>4, Zenon DEF AttachStat, HandleOf, MayUnlink, Claims, Creating, Sound, Fresh
  <2> QED
    BY <1>q, <2>1, <2>2, <2>3, <2>4, Zenon
<1>5. CASE AttachMap(p)
  <2> DEFINE r == [h EXCEPT !.pc = "check", !.map = h.fd]
  <2>1. proc' = [proc EXCEPT ![p] = r] /\ UNCHANGED <<segs, name, crashes, orphans>>
    BY <1>5, Zenon DEF AttachMap
  <2>2. r \in HandleOf(n)
    BY <1>5, Zenon DEF AttachMap, HandleOf, Pcs, Creating, Descriptor, Sound
  <2>3. Sound(r, segs)
    BY <1>5 DEF AttachMap, HandleOf, Sound, Held, Descriptor, Mappable, Fresh
  <2>4. /\ r.pc \notin {"none", "unlink"} /\ (MayUnlink(r) <=> MayUnlink(h))
        /\ (r.fd = h.fd \/ ~Claims(r)) /\ h.pc # "unlink"
    BY <1>5, Zenon DEF AttachMap, HandleOf, MayUnlink, Claims, Creating, Sound, Fresh
  <2> QED
    BY <1>q, <2>1, <2>2, <2>3, <2>4, Zenon
<1>6. CASE AttachCheck(p)
  <2> DEFINE r == [h EXCEPT !.pc = "handle"]
  <2>1. proc' = [proc EXCEPT ![p] = r] /\ UNCHANGED <<segs, name, crashes, orphans>>
    BY <1>6, Zenon DEF AttachCheck
  <2>2. r \in HandleOf(n)
    BY <1>6, Zenon DEF AttachCheck, HandleOf, Pcs, Creating, Descriptor, Sound
  <2>3. Sound(r, segs)
    BY <1>6, Zenon DEF AttachCheck, HandleOf, Sound, Held, Descriptor, Mappable, Fresh
  <2>4. /\ r.pc \notin {"none", "unlink"} /\ (MayUnlink(r) <=> MayUnlink(h))
        /\ (r.fd = h.fd \/ ~Claims(r)) /\ h.pc # "unlink"
    BY <1>6, Zenon DEF AttachCheck, HandleOf, MayUnlink, Claims, Creating, Sound, Fresh
  <2> QED
    BY <1>q, <2>1, <2>2, <2>3, <2>4, Zenon
<1>7. CASE AttachDone(p)
  <2> DEFINE r == [h EXCEPT !.pc = "open", !.owner = FALSE]
  <2>1. proc' = [proc EXCEPT ![p] = r] /\ UNCHANGED <<segs, name, crashes, orphans>>
    BY <1>7, Zenon DEF AttachDone
  <2>2. r \in HandleOf(n)
    BY <1>7, Zenon DEF AttachDone, HandleOf, Pcs, Creating, Descriptor, Sound
  <2>3. Sound(r, segs)
    BY <1>7, Zenon DEF AttachDone, HandleOf, Sound, Held, Descriptor, Mappable, Fresh
  <2>4. /\ r.pc \notin {"none", "unlink"} /\ (MayUnlink(r) <=> MayUnlink(h))
        /\ (r.fd = h.fd \/ ~Claims(r)) /\ h.pc # "unlink"
    BY <1>7, Zenon DEF AttachDone, HandleOf, MayUnlink, Claims, Creating, Sound, Fresh
  <2> QED
    BY <1>q, <2>1, <2>2, <2>3, <2>4, Zenon
<1> QED
  BY <1>1, <1>2, <1>3, <1>4, <1>5, <1>6, <1>7, Zenon

\* The steps that give the handle up and leave the name alone: a failing
\* bt_shmem_attach, bt_shmem_detach, the first half of bt_shmem_destroy, a crash.
LEMMA LeavingSteps ==
  ASSUME IInv, NEW p \in Procs, AttachFails(p) \/ Detach(p) \/ Destroy(p) \/ Crash(p)
  PROVE  IInv'
<1> DEFINE h == proc[p]
           n == Len(segs)
<1>0. /\ h \in HandleOf(n) /\ Sound(h, segs) /\ n \in Nat
      /\ proc \in [Procs -> HandleOf(n)]
      /\ orphans \subseteq 1 .. n /\ crashes \in 0 .. Crashes
  BY HandleFacts, Zenon
<1>1. Fresh \in HandleOf(n) /\ Sound(Fresh, segs) /\ ~MayUnlink(Fresh) /\ Fresh.pc = "none"
  BY <1>0, FreshHandle, Zenon
<1>2. MayUnlink(h) => name \in 1 .. n
  BY UnlinkerHasName, Zenon DEF MayUnlink, Claims
<1>3. Left(p) = IF MayUnlink(h) THEN {name} ELSE {}
  BY Zenon DEF Left, MayUnlink, Claims
<1>q. ASSUME proc' = [proc EXCEPT ![p] = Fresh], UNCHANGED <<segs, name>>,
             orphans' = orphans \cup Left(p), crashes' \in 0 .. Crashes
      PROVE  IInv'
  <2>1. orphans \subseteq orphans' /\ orphans' \subseteq 1 .. n /\ (MayUnlink(h) => name \in orphans')
    BY <1>0, <1>2, <1>3, <1>q, Zenon
  <2>2. ~Claims(Fresh) /\ Fresh.pc # "unlink"
    BY <1>1, Zenon DEF MayUnlink
  <2> QED
    BY <1>0, <1>1, <1>q, <2>1, <2>2, QuietStep, Zenon
<1>4. CASE AttachFails(p)
  <2>1. ~MayUnlink(h)
    BY <1>0, <1>4, Zenon DEF AttachFails, MayUnlink, Claims, Creating, Sound
  <2>2. orphans' = orphans \cup Left(p)
    BY <1>3, <1>4, <2>1, Zenon DEF AttachFails
  <2> QED
    BY <1>0, <1>4, <1>q, <2>2, Zenon DEF AttachFails, Dropped
<1>5. CASE Detach(p)
  BY <1>0, <1>5, <1>q, Zenon DEF Detach
<1>6. CASE Crash(p)
  <2>1. crashes' \in 0 .. Crashes
    BY <1>0, <1>6, ShmemAssumption DEF Crash
  <2> QED
    BY <1>6, <1>q, <2>1, Zenon DEF Crash
<1>7. CASE Destroy(p)
  <2>0. h.pc = "open" /\ (MayUnlink(h) <=> h.owner) /\ (h.owner => Claims(h))
    BY <1>7, Zenon DEF Destroy, At, MayUnlink, Claims, Creating
  <2>1. CASE h.owner
    <3> DEFINE r == [Fresh EXCEPT !.pc = "unlink"]
    <3>1. proc' = [proc EXCEPT ![p] = r] /\ UNCHANGED <<segs, name, crashes, orphans>>
      BY <1>7, <2>1, Zenon DEF Destroy
    <3>2. r \in HandleOf(n) /\ Sound(r, segs) /\ r.pc = "unlink" /\ ~Claims(r) /\ MayUnlink(r)
      <4>2. r.pc = "unlink" /\ ~r.owner
        BY Zenon DEF Fresh
      <4>3. r \in HandleOf(n)
        BY <1>1, Zenon DEF HandleOf, Pcs
      <4> HIDE DEF r
      <4> QED
        BY <4>2, <4>3, Zenon DEF Sound, Held, MayUnlink, Claims, Creating
    <3> HIDE DEF r
    <3>3. r.pc # "none"
      BY <3>2, Zenon
    <3> QED
      BY <1>0, <2>0, <2>1, <3>1, <3>2, <3>3, QuietStep, Zenon
  <2>2. CASE ~h.owner
    <3>1. proc' = [proc EXCEPT ![p] = Fresh] /\ UNCHANGED <<segs, name, crashes, orphans>>
      <4>1. [Fresh EXCEPT !.pc = "none"] = Fresh
        BY DEF Fresh
      <4> QED
        BY <1>7, <2>2, <4>1, Zenon DEF Destroy
    <3>2. orphans' = orphans \cup Left(p)
      BY <1>3, <2>0, <2>2, <3>1, Zenon
    <3> QED
      BY <1>0, <1>q, <3>1, <3>2, Zenon
  <2> QED
    BY <2>1, <2>2, Zenon
<1> QED
  BY <1>4, <1>5, <1>6, <1>7, Zenon

\* shm_unlink: bt_shmem_destroy by the owner, and a bt_shmem_create that fails.
LEMMA UnlinkSteps ==
  ASSUME IInv, NEW p \in Procs, CreateFails(p) \/ Unlink(p)
  PROVE  IInv'
<1>0. /\ Len(segs) \in Nat /\ segs \in Seq(Descriptor) /\ orphans \subseteq 1 .. Len(segs)
      /\ crashes \in 0 .. Crashes
  BY HandleFacts, Zenon
<1>1. /\ proc' = [proc EXCEPT ![p] = Fresh] /\ name' = 0 /\ UNCHANGED <<segs, crashes, orphans>>
      /\ MayUnlink(proc[p])
  BY Zenon DEF CreateFails, Unlink, Unlinked, MayUnlink, Claims, Creating, At
<1>2. Grows
  BY <1>0, <1>1 DEF Grows
<1>3. /\ Fresh \in HandleOf(Len(segs')) /\ Sound(Fresh, segs')
  BY <1>0, <1>1, FreshHandle, Zenon
<1>4. /\ proc' \in [Procs -> HandleOf(Len(segs'))]
      /\ NothingHeld' /\ StepsInv' /\ MapsWhole'
  BY <1>1, <1>2, <1>3, HandleStep, Zenon
<1>5. UnlinksItsOwn' /\ NameHasOwner'
  BY <1>1, NameFreed, Zenon
<1>6. ShmemTypeOK'
  BY <1>0, <1>1, <1>2, <1>4, TypesTogether
<1> QED
  BY <1>4, <1>5, <1>6, StepTogether, Zenon

\* The steps of bt_shmem_create that make, size or fill a segment.
LEMMA SegmentSteps ==
  ASSUME IInv, NEW p \in Procs,
         CreateOpen(p) \/ CreateTruncate(p) \/ CreateMagic(p) \/ CreateMasks(p)
  PROVE  IInv'
<1> DEFINE h == proc[p]
           n == Len(segs)
<1>0. /\ h \in HandleOf(n) /\ Sound(h, segs) /\ n \in Nat /\ name \in 0 .. n
      /\ proc \in [Procs -> HandleOf(n)] /\ segs \in Seq(Descriptor)
      /\ orphans \subseteq 1 .. n /\ crashes \in 0 .. Crashes
      /\ h.pc = "none" => h = Fresh
  BY HandleFacts, Zenon
<1>q. ASSUME NEW r \in HandleOf(n), proc' = [proc EXCEPT ![p] = r], Sound(r, segs'), Grows,
             Len(segs') = n, UNCHANGED <<name, crashes, orphans>>,
             r.pc \notin {"none", "unlink"}, Claims(r) /\ Claims(h), r.fd = h.fd
      PROVE  IInv'
  <2>1. /\ proc' \in [Procs -> HandleOf(Len(segs'))]
        /\ NothingHeld' /\ StepsInv' /\ MapsWhole'
    BY <1>q, HandleStep, Zenon
  <2>2. UnlinksItsOwn' /\ NameHasOwner'
    BY <1>q, NameStays, Zenon DEF MayUnlink
  <2>3. ShmemTypeOK'
    BY <1>0, <1>q, <2>1, TypesTogether, Zenon
  <2> QED
    BY <2>1, <2>2, <2>3, StepTogether, Zenon
<1>f. ASSUME h.pc \in Creating PROVE h.fd \in 1 .. n /\ segs[h.fd] \in Descriptor
  <2>1. h.fd \in 1 .. n
    BY <1>0, <1>f, Zenon DEF Sound, Creating
  <2> QED
    BY <1>0, <2>1
<1>1. CASE CreateOpen(p)
  <2> DEFINE r == [h EXCEPT !.pc = "truncate", !.fd = Len(segs')]
             d == [size |-> 0, header |-> "zero"]
  <2>1. d \in Descriptor /\ segs' = Append(segs, d)
    BY <1>1, Zenon DEF CreateOpen, Descriptor
  <2>2. /\ segs' \in Seq(Descriptor) /\ Len(segs') = n + 1
        /\ \A i \in 1 .. n : segs'[i] = segs[i]
    <3>1. segs \in Seq(Descriptor)
      BY <1>0, Zenon
    <3> QED BY <2>1, <3>1, SeqAppend
  <2>3. Grows
    BY <1>0, <2>2 DEF Grows
  <2>4. /\ h = Fresh /\ name = 0 /\ name' = Len(segs') /\ proc' = [proc EXCEPT ![p] = r]
        /\ UNCHANGED <<crashes, orphans>>
    BY <1>0, <1>1, Zenon DEF CreateOpen, At
  <2>5. r.pc = "truncate" /\ r.fd = Len(segs') /\ ~r.owner
    BY <1>0, <2>4 DEF Fresh, HandleOf
  <2>6. r \in HandleOf(Len(segs'))
    <3>1. Len(segs') \in 0 .. Len(segs') /\ 0 .. n \subseteq 0 .. Len(segs')
      BY <1>0, <2>2
    <3>2. h \in HandleOf(Len(segs'))
      BY <1>0, <3>1, Zenon DEF HandleOf
    <3> QED
      BY <3>1, <3>2, Zenon DEF HandleOf, Pcs, Creating
  <2> HIDE DEF r, d
  <2>7. Sound(r, segs')
    <3>1. n + 1 \in 1 .. n + 1
      BY <1>0
    <3> QED BY <2>2, <2>5, <3>1, Zenon DEF Sound, Held
  <2>8. r.pc = "truncate" /\ r.fd = name' /\ name' # 0
    BY <1>0, <2>2, <2>4, <2>5
  <2>9. r.pc # "none"
    BY <2>8, Zenon
  <2>10. /\ proc' \in [Procs -> HandleOf(Len(segs'))]
         /\ NothingHeld' /\ StepsInv' /\ MapsWhole'
    BY <2>3, <2>4, <2>6, <2>7, <2>9, HandleStep, Zenon
  <2>11. UnlinksItsOwn' /\ NameHasOwner'
    BY <2>4, <2>8, NameTaken, Zenon
  <2>12. ShmemTypeOK'
    <3>1. name' \in 0 .. Len(segs') /\ orphans' \subseteq 1 .. Len(segs') /\ crashes' \in 0 .. Crashes
      BY <1>0, <2>2, <2>4
    <3> QED
      BY <2>3, <2>10, <3>1, TypesTogether, Zenon
  <2> QED
    BY <2>10, <2>11, <2>12, StepTogether, Zenon
<1>2. CASE CreateTruncate(p)
  <2> DEFINE r == [h EXCEPT !.pc = "map"]
             d == [segs[h.fd] EXCEPT !.size = Total]
  <2>1. h.pc = "truncate" /\ h.fd \in 1 .. n /\ segs[h.fd] \in Descriptor
    BY <1>2, <1>f, Zenon DEF CreateTruncate, At, Creating
  <2>2. d \in Descriptor /\ d.size = Total /\ d.header = segs[h.fd].header
    BY <2>1, Zenon DEF Descriptor
  <2>3. segs' = [segs EXCEPT ![h.fd] = d]
    BY <1>2, Zenon DEF CreateTruncate, Segment
  <2>4. proc' = [proc EXCEPT ![p] = r] /\ UNCHANGED <<name, crashes, orphans>>
    BY <1>2, Zenon DEF CreateTruncate
  <2> HIDE DEF d
  <2>5. /\ segs' \in Seq(Descriptor) /\ Len(segs') = n
        /\ \A i \in 1 .. n : segs'[i] = IF i = h.fd THEN d ELSE segs[i]
    <3>1. segs \in Seq(Descriptor)
      BY <1>0, Zenon
    <3>2. h.fd \in 1 .. Len(segs) /\ d \in Descriptor
      BY <2>1, <2>2, Zenon
    <3> QED BY <2>3, <3>1, <3>2, SeqWrite
  <2>6. Grows
    BY <1>0, <2>2, <2>5 DEF Grows
  <2>7. r \in HandleOf(n) /\ r.pc = "map" /\ r.fd = h.fd /\ ~r.owner
    BY <1>0, <2>1, Zenon DEF HandleOf, Pcs, Creating, Sound
  <2> HIDE DEF r
  <2>8. Sound(r, segs')
    BY <2>1, <2>2, <2>5, <2>7, Zenon DEF Sound, Held
  <2> QED
    BY <1>q, <2>1, <2>4, <2>5, <2>6, <2>7, <2>8, Zenon DEF Claims, Creating
<1>3. CASE CreateMagic(p)
  <2> DEFINE r == [h EXCEPT !.pc = "masks"]
             d == [segs[h.fd] EXCEPT !.header = "magic"]
  <2>1. h.pc = "magic" /\ h.fd \in 1 .. n /\ segs[h.fd] \in Descriptor
    BY <1>3, <1>f, Zenon DEF CreateMagic, At, Creating
  <2>2. d \in Descriptor /\ d.size = segs[h.fd].size /\ d.header # "zero"
    BY <2>1, Zenon DEF Descriptor
  <2>3. segs' = [segs EXCEPT ![h.fd] = d]
    BY <1>3, Zenon DEF CreateMagic, Segment
  <2>4. proc' = [proc EXCEPT ![p] = r] /\ UNCHANGED <<name, crashes, orphans>>
    BY <1>3, Zenon DEF CreateMagic
  <2> HIDE DEF d
  <2>5. /\ segs' \in Seq(Descriptor) /\ Len(segs') = n
        /\ \A i \in 1 .. n : segs'[i] = IF i = h.fd THEN d ELSE segs[i]
    <3>1. segs \in Seq(Descriptor)
      BY <1>0, Zenon
    <3>2. h.fd \in 1 .. Len(segs) /\ d \in Descriptor
      BY <2>1, <2>2, Zenon
    <3> QED BY <2>3, <3>1, <3>2, SeqWrite
  <2>6. Grows
    BY <1>0, <2>2, <2>5 DEF Grows
  <2>7. /\ r \in HandleOf(n) /\ r.pc = "masks" /\ r.fd = h.fd /\ r.owner
        /\ r.map = r.fd /\ r.size = Total /\ segs[h.fd].size = Total
    BY <1>0, <2>1, Zenon DEF HandleOf, Pcs, Creating, Sound, Held
  <2> HIDE DEF r
  <2>8. Sound(r, segs')
    BY <2>1, <2>2, <2>5, <2>7, Zenon DEF Sound, Held
  <2> QED
    BY <1>q, <2>1, <2>4, <2>5, <2>6, <2>7, <2>8, Zenon DEF Claims, Creating
<1>4. CASE CreateMasks(p)
  <2> DEFINE r == [h EXCEPT !.pc = "open"]
             d == [segs[h.fd] EXCEPT !.header = "ready"]
  <2>1. h.pc = "masks" /\ h.fd \in 1 .. n /\ segs[h.fd] \in Descriptor
    BY <1>4, <1>f, Zenon DEF CreateMasks, At, Creating
  <2>2. d \in Descriptor /\ d.size = segs[h.fd].size /\ d.header # "zero"
    BY <2>1, Zenon DEF Descriptor
  <2>3. segs' = [segs EXCEPT ![h.fd] = d]
    BY <1>4, Zenon DEF CreateMasks, Segment
  <2>4. proc' = [proc EXCEPT ![p] = r] /\ UNCHANGED <<name, crashes, orphans>>
    BY <1>4, Zenon DEF CreateMasks
  <2> HIDE DEF d
  <2>5. /\ segs' \in Seq(Descriptor) /\ Len(segs') = n
        /\ \A i \in 1 .. n : segs'[i] = IF i = h.fd THEN d ELSE segs[i]
    <3>1. segs \in Seq(Descriptor)
      BY <1>0, Zenon
    <3>2. h.fd \in 1 .. Len(segs) /\ d \in Descriptor
      BY <2>1, <2>2, Zenon
    <3> QED BY <2>3, <3>1, <3>2, SeqWrite
  <2>6. Grows
    BY <1>0, <2>2, <2>5 DEF Grows
  <2>7. /\ r \in HandleOf(n) /\ r.pc = "open" /\ r.fd = h.fd /\ r.owner
        /\ r.map = r.fd /\ r.size = Total /\ segs[h.fd].size = Total
    BY <1>0, <2>1, Zenon DEF HandleOf, Pcs, Creating, Sound, Held
  <2> HIDE DEF r
  <2>8. Sound(r, segs')
    BY <2>1, <2>2, <2>5, <2>7, Zenon DEF Sound, Held
  <2> QED
    BY <1>q, <2>1, <2>4, <2>5, <2>6, <2>7, <2>8, Zenon DEF Claims, Creating
<1> QED
  BY <1>1, <1>2, <1>3, <1>4, Zenon

--------------------------------------------------------------------------------
\* The inductive invariant of bt_shmem_create, attach, detach and destroy under
\* failing system calls and dying processes.
THEOREM ShmemInvariant == ShmemSpec => []IInv
<1>1. IInv /\ [ShmemNext]_shmemVars => IInv'
  <2> SUFFICES ASSUME IInv, [ShmemNext]_shmemVars PROVE IInv'
    BY Zenon
  <2>1. CASE ShmemNext
    <3>1. PICK p \in Procs : Create(p) \/ Attach(p) \/ Detach(p) \/ Destroy(p) \/ Unlink(p) \/ Crash(p)
      BY <2>1, Zenon DEF ShmemNext
    <3> QED
      BY <3>1, HandleSteps, LeavingSteps, UnlinkSteps, SegmentSteps, Zenon DEF Create, Attach
  <2>2. CASE UNCHANGED shmemVars
    <3>1. UNCHANGED <<segs, name, proc, crashes, orphans>>
      BY <2>2, Zenon DEF shmemVars
    <3>2. ShmemTypeOK' /\ NothingHeld' /\ NameHasOwner'
      BY <3>1, Zenon DEF IInv, HandlesInv, ShmemTypeOK, NothingHeld, NameHasOwner, At
    <3>3. StepsInv' /\ MapsWhole'
      BY <3>1, Zenon DEF IInv, HandlesInv, StepsInv, MapsWhole, At, Segment
    <3>4. UnlinksItsOwn'
      BY <3>1, Zenon DEF IInv, UnlinksItsOwn, At, Segment
    <3> QED
      BY <3>2, <3>3, <3>4, StepTogether, Zenon
  <2> QED
    BY <2>1, <2>2, Zenon
<1> QED
  BY <1>1, InitShmem, PTL DEF ShmemSpec

\* shm_unlink never removes a segment of another process: whoever will unlink the
\* name, an owner or a bt_shmem_create that may fail, created what is under it.
THEOREM UnlinkIsOwn == ShmemSpec => []UnlinksItsOwn
<1>1. IInv => UnlinksItsOwn
  BY Zenon DEF IInv
<1> QED
  BY <1>1, ShmemInvariant, PTL

\* No call leaves a descriptor, a mapping or an ownerless name behind, and an open
\* handle maps the whole of a segment that has its magic.
THEOREM HandlesWhole == ShmemSpec => []HandlesInv
<1>1. IInv => HandlesInv
  BY Zenon DEF IInv
<1> QED
  BY <1>1, ShmemInvariant, PTL
================================================================================
