-------------------------------- MODULE Journal --------------------------------
(***************************************************************************)
(* The append-only journal (persistence/journal.c): bt_journal_append puts *)
(* entries into a ring, one worker thread gathers them in a buffer and     *)
(* writes the buffer to the file, fdatasync makes it durable.              *)
(*                                                                         *)
(* The ring is the bounded queue that SpscQueue implements.  An entry is   *)
(* EntryCells cells, so that write() can stop inside one.  What can go     *)
(* wrong in a run is chosen by Faults.                                     *)
(***************************************************************************)
EXTENDS Integers, Sequences

CONSTANTS RingBound,    \* entries the ring holds (JOURNAL_RING_SIZE - 1)
          EntryCells,   \* sizeof(bt_journal_entry_t)
          BufCells,     \* BT_CFG_JOURNAL_BUF_SIZE
          BatchDrain,   \* JOURNAL_BATCH_DRAIN
          SyncOn,       \* sync_interval_ms > 0
          Faults,       \* of "short", "error", "nosync", "nobuf", "kill", "power"
          MaxAppend,    \* bound: calls of bt_journal_append, over all runs
          MaxOpen       \* bound: times the journal is opened

ASSUME JournalAssumption ==
  /\ {RingBound, EntryCells, BufCells, BatchDrain} \subseteq Nat \ {0}
  /\ EntryCells <= BufCells
  /\ {MaxAppend, MaxOpen} \subseteq Nat
  /\ SyncOn \in BOOLEAN

VARIABLES handle, opens,        \* "open", "closing", "closed" or "dead"; times opened
          running, ring, dropped,
          wpc, entry, buf, drained,  \* worker: step, popped entry, buffer, count
          done, then,           \* journal_do_flush: written_total, return point
          file, synced,         \* the file, and the length fdatasync has secured
          calls, base, appended,  \* history: appends made, file length at open,
          safe, failed            \* accepted entries, secured file content,
                                  \* whether a call of the system has failed

api == <<handle, opens, running, dropped, calls, base, appended>>
worker == <<wpc, entry, buf, drained, done, then>>
disk == <<file, synced, safe>>
vars == <<api, ring, worker, disk, failed>>

NoEntry == 0
Cells(e) == [i \in 1 .. EntryCells |-> <<e, i>>]
AllCells(s) == [k \in 1 .. Len(s) * EntryCells |->
                  <<s[1 + ((k - 1) \div EntryCells)], 1 + ((k - 1) % EntryCells)>>]
Written == SubSeq(file, base + 1, Len(file))

StartWorker == /\ wpc' = "start" /\ entry' = NoEntry /\ buf' = << >>
               /\ drained' = 0 /\ done' = 0 /\ then' = "top"

Init == /\ handle = "open" /\ opens = 1
        /\ running = TRUE /\ ring = << >> /\ dropped = 0
        /\ wpc = "start" /\ entry = NoEntry /\ buf = << >>
        /\ drained = 0 /\ done = 0 /\ then = "top"
        /\ file = << >> /\ synced = 0
        /\ calls = 0 /\ base = 0 /\ appended = << >>
        /\ safe = << >> /\ failed = FALSE

\* fdatasync: its result is ignored by the code
Fdatasync == \/ /\ synced' = Len(file) /\ safe' = file
                /\ UNCHANGED <<file, failed>>
             \/ /\ "nosync" \in Faults
                /\ failed' = TRUE
                /\ UNCHANGED disk
--------------------------------------------------------------------------------
(* The interface, called by the pipeline threads and by main *)

JournalAppend == /\ handle = "open" /\ calls < MaxAppend
          /\ calls' = calls + 1
          /\ \/ /\ Len(ring) < RingBound
                /\ ring' = ring \o <<calls'>>
                /\ appended' = appended \o <<calls'>>
                /\ UNCHANGED dropped
             \/ /\ Len(ring) = RingBound
                /\ dropped' = dropped + 1
                /\ UNCHANGED <<ring, appended>>
          /\ UNCHANGED <<handle, opens, running, base, worker, disk, failed>>

\* bt_journal_flush
Flush == /\ handle = "open"
         /\ IF SyncOn THEN Fdatasync ELSE UNCHANGED <<disk, failed>>
         /\ UNCHANGED <<api, ring, worker>>

\* bt_journal_close: stop the worker, wait for it, release everything
CloseBegin == /\ handle = "open"
              /\ handle' = "closing" /\ running' = FALSE
              /\ UNCHANGED <<opens, dropped, calls, base, appended, ring, worker, disk, failed>>

CloseEnd == /\ handle = "closing" /\ wpc = "stopped"
            /\ handle' = "closed" /\ ring' = << >>
            /\ UNCHANGED <<opens, running, dropped, calls, base, appended, worker, disk, failed>>

\* mutant: the file is opened without O_APPEND
Open_Truncate == /\ handle \in {"closed", "dead"} /\ opens < MaxOpen
                 /\ handle' = "open" /\ opens' = opens + 1
                 /\ running' = TRUE /\ ring' = << >> /\ dropped' = 0
                 /\ file' = << >> /\ synced' = 0
                 /\ base' = 0 /\ appended' = << >>
                 /\ StartWorker
                 /\ UNCHANGED <<calls, safe, failed>>

\* bt_journal_open on the file of an earlier run (O_APPEND)
Open == /\ handle \in {"closed", "dead"} /\ opens < MaxOpen
        /\ handle' = "open" /\ opens' = opens + 1
        /\ running' = TRUE /\ ring' = << >> /\ dropped' = 0
        /\ base' = Len(file) /\ appended' = << >>
        /\ StartWorker
        /\ UNCHANGED <<calls, disk, failed>>
--------------------------------------------------------------------------------
(* bt_journal_thread_core *)

\* malloc of the write buffer
Start == /\ wpc = "start" /\ handle # "dead"
         /\ \/ wpc' = "top" /\ UNCHANGED failed
            \/ "nobuf" \in Faults /\ wpc' = "stopped" /\ failed' = TRUE
         /\ UNCHANGED <<api, ring, entry, buf, drained, done, then, disk>>

\* mutant: no flush on the way out
Loop_NoFinal == /\ wpc = "top"
                /\ drained' = 0
                /\ wpc' = IF running THEN "drain" ELSE "stopped"
                /\ UNCHANGED <<api, ring, entry, buf, done, then, disk, failed>>

\* the loop condition; on the way out, the final flush
Loop == /\ wpc = "top"
        /\ drained' = 0
        /\ IF running
           THEN wpc' = "drain" /\ UNCHANGED then
           ELSE /\ wpc' = IF buf # << >> THEN "write" ELSE "stopped"
                /\ then' = "stopped"
        /\ UNCHANGED <<api, ring, entry, buf, done, disk, failed>>

\* mutant: off by one in the capacity test
NeedsRoom_OffByOne == Len(buf) > BufCells

NeedsRoom == Len(buf) + EntryCells > BufCells

\* take one entry; flush first if the buffer has no room for it
Pop == /\ wpc = "drain" /\ drained < BatchDrain /\ ring # << >>
       /\ entry' = Head(ring) /\ ring' = Tail(ring)
       /\ IF NeedsRoom
          THEN wpc' = "write" /\ then' = "copy"
          ELSE wpc' = "copy" /\ UNCHANGED then
       /\ UNCHANGED <<api, buf, drained, done, disk, failed>>

\* memcpy into the buffer; past its end the program is undefined
Copy == /\ wpc = "copy"
        /\ buf' = buf \o Cells(entry)
        /\ entry' = NoEntry
        /\ drained' = drained + 1
        /\ wpc' = IF Len(buf') > BufCells THEN "overrun" ELSE "drain"
        /\ UNCHANGED <<api, ring, done, then, disk, failed>>

\* mutant: the idle branch is never taken
Drained_Busy == /\ wpc = "drain" /\ (drained = BatchDrain \/ ring = << >>)
                /\ wpc' = "top"
                /\ UNCHANGED <<api, ring, entry, buf, drained, done, then, disk, failed>>

\* the batch is over; without a single entry, the idle branch
Drained == /\ wpc = "drain" /\ (drained = BatchDrain \/ ring = << >>)
           /\ wpc' = IF drained = 0 THEN "idle" ELSE "top"
           /\ UNCHANGED <<api, ring, entry, buf, drained, done, then, disk, failed>>

\* the timer is due, or not yet
IdleFlush == /\ wpc = "idle" /\ buf # << >>
             /\ wpc' = "write" /\ then' = "top"
             /\ UNCHANGED <<api, ring, entry, buf, drained, done, disk, failed>>

IdleWait == /\ wpc = "idle"
            /\ wpc' = "top"
            /\ UNCHANGED <<api, ring, entry, buf, drained, done, then, disk, failed>>
--------------------------------------------------------------------------------
(* journal_do_flush, called with a buffer that is not empty *)

\* one write(): all that is left, a part of it, or an error; EINTR changes nothing
Write == /\ wpc = "write" /\ done < Len(buf)
         /\ \/ \E n \in 1 .. Len(buf) - done :
                 /\ "short" \in Faults \/ n = Len(buf) - done
                 /\ file' = file \o SubSeq(buf, done + 1, done + n)
                 /\ done' = done + n
                 /\ UNCHANGED <<wpc, failed>>
            \/ /\ "error" \in Faults
               /\ wpc' = "sync" /\ failed' = TRUE
               /\ UNCHANGED <<file, done>>
         /\ UNCHANGED <<api, ring, entry, buf, drained, then, synced, safe>>

WriteDone == /\ wpc = "write" /\ done = Len(buf)
             /\ wpc' = "sync"
             /\ UNCHANGED <<api, ring, entry, buf, drained, done, then, disk, failed>>

Sync == /\ wpc = "sync"
        /\ IF done > 0 /\ SyncOn THEN Fdatasync ELSE UNCHANGED <<disk, failed>>
        /\ wpc' = "shift"
        /\ UNCHANGED <<api, ring, entry, buf, drained, done, then>>

\* mutant: the unwritten rest is dropped
Shift_Drop == /\ wpc = "shift"
              /\ buf' = << >> /\ done' = 0 /\ wpc' = then
              /\ UNCHANGED <<api, ring, entry, drained, then, disk, failed>>

\* mutant: the offset into the buffer is not reset
Shift_KeepDone == /\ wpc = "shift"
                  /\ buf' = SubSeq(buf, done + 1, Len(buf)) /\ wpc' = then
                  /\ UNCHANGED <<api, ring, entry, drained, done, then, disk, failed>>

\* keep what was not written; return to the caller
Shift == /\ wpc = "shift"
         /\ buf' = SubSeq(buf, done + 1, Len(buf))
         /\ done' = 0 /\ wpc' = then
         /\ UNCHANGED <<api, ring, entry, drained, then, disk, failed>>
--------------------------------------------------------------------------------
(* The process is killed; the machine loses power.  External. *)

Kill == /\ "kill" \in Faults /\ handle \in {"open", "closing"}
        /\ handle' = "dead" /\ running' = FALSE /\ ring' = << >>
        /\ StartWorker
        /\ UNCHANGED <<opens, dropped, calls, base, appended, disk, failed>>

\* only what fdatasync secured is certain to be there afterwards
PowerLoss == /\ "power" \in Faults /\ handle \in {"open", "closing"}
             /\ \E n \in synced .. Len(file) : file' = SubSeq(file, 1, n)
             /\ handle' = "dead" /\ running' = FALSE /\ ring' = << >>
             /\ StartWorker
             /\ UNCHANGED <<opens, dropped, calls, base, appended, synced, safe, failed>>
--------------------------------------------------------------------------------
Interface == JournalAppend \/ Flush \/ CloseBegin \/ CloseEnd \/ Open

Worker == Start \/ Loop \/ Pop \/ Copy \/ Drained \/ IdleFlush \/ IdleWait
          \/ Write \/ WriteDone \/ Sync \/ Shift

Next == Interface \/ Worker \/ Kill \/ PowerLoss

Spec == Init /\ [][Next]_vars

\* The worker is a thread that keeps running, bt_journal_close does not give up
\* waiting for it, and the timer becomes due: time passes while the worker idles.
FairSpec == Spec /\ WF_vars(Worker) /\ WF_vars(CloseEnd) /\ SF_vars(IdleFlush)
--------------------------------------------------------------------------------
Steps == {"start", "top", "drain", "copy", "idle", "write", "sync", "shift",
          "stopped", "overrun"}
AnyCell == (1 .. MaxAppend) \X (1 .. EntryCells)

\* Type invariant of the journal and its worker.
TypeOK == /\ handle \in {"open", "closing", "closed", "dead"} /\ opens \in Nat
          /\ running \in BOOLEAN
          /\ ring \in Seq(1 .. MaxAppend) /\ Len(ring) <= RingBound
          /\ wpc \in Steps /\ then \in {"top", "copy", "stopped"}
          /\ entry \in 0 .. MaxAppend
          /\ buf \in Seq(AnyCell) /\ file \in Seq(AnyCell)
          /\ drained \in 0 .. BatchDrain /\ done \in 0 .. Len(buf)
          /\ synced \in 0 .. Len(file) /\ base \in Nat
          /\ dropped \in Nat /\ calls \in 0 .. MaxAppend
          /\ appended \in Seq(1 .. MaxAppend) /\ failed \in BOOLEAN

Flushing == wpc \in {"write", "sync", "shift"}
InHand == wpc = "copy" \/ (Flushing /\ then = "copy")

\* What the worker knows between its steps: journal_do_flush has something to
\* write and, short of an error, writes all of it; an entry in hand belongs to the
\* batch and, short of an error, finds the room it needs.
WorkerInv == /\ Flushing => buf # << >>
             /\ ~Flushing => done = 0
             /\ wpc \in {"sync", "shift"} => done = Len(buf) \/ failed
             /\ entry # NoEntry <=> InHand
             /\ InHand => drained < BatchDrain
             /\ wpc = "copy" => Len(buf) + EntryCells <= BufCells \/ failed
             /\ handle = "closed" => wpc = "stopped"
             /\ handle # "dead" => base <= Len(file)

\* With fsync on and no error, the file has more than is durable only between the
\* first write of a flush and its fdatasync.
DurableInv == SyncOn /\ ~failed /\ handle # "dead" =>
                /\ wpc = "stopped" => buf = << >>
                /\ Written = << >> \/ synced = Len(file) \/ wpc \in {"write", "sync"}

\* What bt_journal_append accepted is, cell by cell and in order, in the file, in
\* the unwritten part of the buffer, in the worker's hand or in the ring: no
\* short write, write error or missing buffer loses, repeats or reorders any of it.
NothingLost == handle \in {"open", "closing"} /\ wpc # "overrun"
                 => Written \o SubSeq(buf, done + 1, Len(buf))
                      \o (IF entry = NoEntry THEN << >> ELSE Cells(entry))
                      \o AllCells(ring)
                    = AllCells(appended)

\* What fdatasync secured is still at its place in the file after any sequence of
\* kills, power losses, closes and reopenings of the journal.
SyncedSurvives == Len(safe) <= Len(file) /\ safe = SubSeq(file, 1, Len(safe))

\* Short writes alone never make bt_journal_thread_core copy an entry past the end
\* of its buffer: only a write that failed leaves it without the room.
NoOverrun == wpc = "overrun" => failed

\* The journal is well formed and its worker stays inside the write buffer unless a
\* write failed.
BufferInv == TypeOK /\ WorkerInv /\ DurableInv /\ NoOverrun

\* When bt_journal_close returns and fsync is on, every entry the worker had taken
\* from the ring is in the file and durable, unless the system reported an error.
CloseIsDurable == handle = "closed" /\ SyncOn /\ ~failed
                    => buf = << >> /\ (Written = << >> \/ synced = Len(file))

Durable(e) == \E i \in 1 .. synced : file[i] = <<e, EntryCells>>

\* An accepted entry becomes durable while the journal stays open, without any
\* further call: the idle timer of the worker sees to it.
EventuallyDurable == \A e \in 1 .. MaxAppend :
  (\E i \in DOMAIN appended : appended[i] = e) ~> (Durable(e) \/ handle # "open" \/ failed)
================================================================================
