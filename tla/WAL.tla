-------------------------------- MODULE WAL --------------------------------
(***************************************************************************)
(* One write-ahead log object of KevoDB (pkg/wal/wal.go, type WAL).        *)
(*                                                                         *)
(* The log is abstracted to a sequence of physical records; a record       *)
(* carries the id of the call that wrote it, its sequence number and its   *)
(* record type (Full, First, Last).  Keys, values, CRCs and byte layout    *)
(* are left out: no property here tells them apart.  Sizes are counted in  *)
(* records: an entry is Small (one Full record) or Large (its payload      *)
(* exceeds MaxRecordSize, written as a First and a Last fragment).         *)
(*                                                                         *)
(* Three positions split the log: records 1..synced were fsync'd,          *)
(* records 1..flushed were handed to the OS, the rest sit in the bufio     *)
(* writer whose capacity is bufCap records.                                *)
(*                                                                         *)
(* w.mu serialises every operation except SetRotating and SetActive, which *)
(* store the status atomically without the mutex.  Every mutex-holding     *)
(* operation is therefore one atomic step, except the append family: their *)
(* status check and write happen in one step, and their trailing           *)
(* maybeSync, which re-reads the status, in a second step (Return).  At    *)
(* most one call is in flight between the two, the one holding w.mu.       *)
(***************************************************************************)
EXTENDS Naturals, Sequences, FiniteSets

CONSTANTS
  SeqWidth,        \* width of sequence numbers (64 in the code)
  Margin,          \* MaxUint - MaxSequenceNumber (1_000_000 in the code)
  WarnMargin,      \* MaxUint - SequenceWarningThreshold (10_000_000)
  BufferSize,      \* capacity of the bufio writer, in records (64 KiB)
  SyncModes,       \* the cfg.WALSyncMode values checked
  WALSyncBytes,    \* cfg.WALSyncBytes, in records
  EntrySizes,      \* sizes of single entries callers append
  BatchShapes,     \* the batches callers submit: sequences of entry sizes
  ReplicaSeqs,     \* sequence numbers a replica passes to *WithSequence
  ExactSeqs,       \* sequence numbers passed to AppendExactBytes
  RecoveredSeqs,   \* arguments of UpdateNextSequence after recovery
  MaxCalls,        \* bound: number of calls that write records
  None             \* model value: no call in flight

Small == 1
Large == 2

MaxUint == 2^SeqWidth - 1
MaxSequenceNumber == MaxUint - Margin
SequenceWarningThreshold == MaxUint - WarnMargin
SeqNums == 0..MaxUint

ASSUME /\ SyncModes \subseteq {"SyncNone", "SyncBatch", "SyncImmediate"}
       /\ 0 < Margin /\ Margin < WarnMargin /\ WarnMargin < MaxUint
       /\ BufferSize \in Nat \ {0}
       /\ EntrySizes \subseteq {Small, Large}
       /\ BatchShapes \subseteq Seq({Small, Large})
       /\ ReplicaSeqs \cup ExactSeqs \cup RecoveredSeqs \subseteq SeqNums

VARIABLES
  status,           \* w.status
  nextSequence,     \* w.nextSequence
  overflowWarning,  \* w.overflowWarning
  log,              \* every record written to the writer, in order
  flushed,          \* records 1..flushed have left the bufio buffer
  synced,           \* records 1..synced have been fsync'd
  bufCap,           \* w.writer.Size(), grown by AppendBatch
  batchByteSize,    \* w.batchByteSize, in records
  inflight,         \* the call holding w.mu between write and maybeSync
  calls,            \* number of writing calls so far (their ids)
  acked,            \* ids of writing calls that returned success
  failed,           \* ids of writing calls that returned an error
  ret,              \* the result of the last call that returned
  syncMode,         \* w.cfg.WALSyncMode, fixed when the WAL is opened
  notified          \* the entries observers were told of, in order

vars == <<status, nextSequence, overflowWarning, log, flushed, synced,
          bufCap, batchByteSize, inflight, calls, acked, failed, ret, syncMode,
          notified>>

Record == [call : Nat, seq : SeqNums, type : {"Full", "First", "Last"}]

\* notifyEntryObservers / notifyBatchObservers, under w.mu and before
\* maybeSync: each observer's OnWALEntryWritten or OnWALBatchWritten gets
\* the entries, here the call and the sequence number of each.
Notify(id, s, n) ==
  notified' = notified \o [i \in 1..n |-> [call |-> id, seq |-> s]]

(***************************************************************************)
(* The bufio writer.  Writing k one-record chunks on top of b buffered     *)
(* records flushes the whole buffer each time it is full before a write,   *)
(* so b + k records fit without a flush and otherwise the buffer ends      *)
(* holding ((b + k - 1) % cap) + 1 records.                                *)
(***************************************************************************)
Buffered == Len(log) - flushed

BufferedAfter(b, k, cap) ==
  IF b + k <= cap THEN b + k ELSE ((b + k - 1) % cap) + 1

\* writeRecordData for each record of recs, through a writer of capacity
\* cap whose first f records were already flushed.
WriteRecords(recs, f, cap) ==
  /\ log' = log \o recs
  /\ flushed' = Len(log) + Len(recs) - BufferedAfter(Len(log) - f, Len(recs), cap)
  /\ batchByteSize' = batchByteSize + Len(recs)

\* The records of one logical entry: Full when it fits in MaxRecordSize,
\* otherwise writeFragmentedRecord's First and Last fragments.
EntryRecords(id, s, size) ==
  IF size = Small
  THEN << [call |-> id, seq |-> s, type |-> "Full"] >>
  ELSE << [call |-> id, seq |-> s, type |-> "First"],
          [call |-> id, seq |-> s, type |-> "Last"] >>

StatusError ==
  IF status = "Closed" THEN "ErrWALClosed" ELSE "ErrWALRotating"

\* An early return under w.mu: nothing but the caller's result changes.
Reject(err) ==
  /\ ret' = err
  /\ UNCHANGED <<status, nextSequence, overflowWarning, log, flushed, synced,
                 bufCap, batchByteSize, inflight, calls, acked, failed, syncMode,
                 notified>>

\* The call has written its records and keeps w.mu for maybeSync.
Hold ==
  /\ inflight' = calls
  /\ calls' = calls + 1
  /\ UNCHANGED <<status, synced, acked, failed, ret, syncMode>>

Free == inflight = None /\ calls < MaxCalls

\* Mutant: Append without its overflow check.
WALAppendNoOverflowCheck(size) ==
  /\ Free
  /\ \/ status # "Active" /\ Reject(StatusError)
     \/ /\ status = "Active"
        /\ overflowWarning' = (overflowWarning \/ nextSequence >= SequenceWarningThreshold)
        /\ nextSequence' = nextSequence + 1
        /\ WriteRecords(EntryRecords(calls, nextSequence, size), flushed, bufCap)
        /\ Notify(calls, nextSequence, 1)
        /\ UNCHANGED bufCap
        /\ Hold

(***************************************************************************)
(* WALAppend is WAL.Append (wal.go): status check, overflow check,        *)
(* warning, assign nextSequence, write one Full record or the fragments.   *)
(***************************************************************************)
WALAppend(size) ==
  /\ Free
  /\ \/ status # "Active" /\ Reject(StatusError)
     \/ status = "Active" /\ nextSequence >= MaxSequenceNumber
        /\ Reject("ErrSequenceOverflow")
     \/ /\ status = "Active"
        /\ nextSequence < MaxSequenceNumber
        /\ overflowWarning' = (overflowWarning \/ nextSequence >= SequenceWarningThreshold)
        /\ nextSequence' = nextSequence + 1
        /\ WriteRecords(EntryRecords(calls, nextSequence, size), flushed, bufCap)
        /\ Notify(calls, nextSequence, 1)
        /\ UNCHANGED bufCap
        /\ Hold

(***************************************************************************)
(* AppendWithSequence: the caller's sequence number is used; nextSequence  *)
(* is raised to seq + 1 when seq >= nextSequence.                          *)
(***************************************************************************)
\* Mutant: nextSequence raised only when s > nextSequence.
AppendWithSequenceGt(size, s) ==
  /\ Free
  /\ \/ status # "Active" /\ Reject(StatusError)
     \/ status = "Active" /\ s >= MaxSequenceNumber /\ Reject("ErrSequenceOverflow")
     \/ /\ status = "Active"
        /\ s < MaxSequenceNumber
        /\ IF s > nextSequence
           THEN /\ nextSequence' = s + 1
                /\ overflowWarning' = (overflowWarning \/ s + 1 >= SequenceWarningThreshold)
           ELSE UNCHANGED <<nextSequence, overflowWarning>>
        /\ WriteRecords(EntryRecords(calls, s, size), flushed, bufCap)
        /\ Notify(calls, s, 1)
        /\ UNCHANGED bufCap
        /\ Hold

AppendWithSequence(size, s) ==
  /\ Free
  /\ \/ status # "Active" /\ Reject(StatusError)
     \/ status = "Active" /\ s >= MaxSequenceNumber /\ Reject("ErrSequenceOverflow")
     \/ /\ status = "Active"
        /\ s < MaxSequenceNumber
        /\ IF s >= nextSequence
           THEN /\ nextSequence' = s + 1
                /\ overflowWarning' = (overflowWarning \/ s + 1 >= SequenceWarningThreshold)
           ELSE UNCHANGED <<nextSequence, overflowWarning>>
        /\ WriteRecords(EntryRecords(calls, s, size), flushed, bufCap)
        /\ Notify(calls, s, 1)
        /\ UNCHANGED bufCap
        /\ Hold

\* Mutant: the raw path writes the record but tells no observer.
AppendExactBytesNoNotify(s, wellFormed) ==
  /\ Free
  /\ \/ status # "Active" /\ Reject(StatusError)
     \/ status = "Active" /\ ~wellFormed /\ Reject("ErrRawSizeMismatch")
     \/ /\ status = "Active"
        /\ wellFormed
        /\ nextSequence' = IF s >= nextSequence THEN (s + 1) % (MaxUint + 1)
                                                ELSE nextSequence
        /\ WriteRecords(<< [call |-> calls, seq |-> s, type |-> "Full"] >>, flushed, bufCap)
        /\ UNCHANGED <<bufCap, overflowWarning, notified>>
        /\ Hold

(***************************************************************************)
(* AppendExactBytes: a replica's already framed record.  Only the declared *)
(* payload length is validated (wellFormed); the sequence number is not    *)
(* checked against MaxSequenceNumber, and seq + 1 is computed in uint64.   *)
(***************************************************************************)
AppendExactBytes(s, wellFormed) ==
  /\ Free
  /\ \/ status # "Active" /\ Reject(StatusError)
     \/ status = "Active" /\ ~wellFormed /\ Reject("ErrRawSizeMismatch")
     \/ /\ status = "Active"
        /\ wellFormed
        /\ nextSequence' = IF s >= nextSequence THEN (s + 1) % (MaxUint + 1)
                                                ELSE nextSequence
        /\ WriteRecords(<< [call |-> calls, seq |-> s, type |-> "Full"] >>, flushed, bufCap)
        /\ Notify(calls, s, 1)
        /\ UNCHANGED <<bufCap, overflowWarning>>
        /\ Hold

(***************************************************************************)
(* The body shared by AppendBatch and AppendBatchWithSequence once the     *)
(* status, empty-batch and overflow checks passed: make room so the batch  *)
(* is written without an intermediate flush (flush first when it does not  *)
(* fit, grow the writer when it exceeds the buffer), then writeRecord each *)
(* entry as a Full record with the shared sequence number.  writeRecord    *)
(* refuses a Large entry: the records before it stay in the writer and the *)
(* call returns an error with nextSequence untouched.                      *)
(***************************************************************************)
\* Mutant: the batch is written without the flush that makes room.
WriteBatchNoPreflush(shape, start, newNext) ==
  LET total    == Len(shape) + Cardinality({i \in 1..Len(shape) : shape[i] = Large})
      mustFlush == FALSE
      f1       == IF mustFlush THEN Len(log) ELSE flushed
      cap1     == IF mustFlush /\ total > bufCap THEN total ELSE bufCap
      bad      == {i \in 1..Len(shape) : shape[i] = Large}
      written  == IF bad = {} THEN Len(shape)
                  ELSE (CHOOSE i \in bad : \A j \in bad : i <= j) - 1
      recs     == [i \in 1..written |-> [call |-> calls, seq |-> start, type |-> "Full"]]
  IN /\ bufCap' = cap1
     /\ WriteRecords(recs, f1, cap1)
     /\ IF bad = {}
        THEN /\ nextSequence' = newNext
             /\ Notify(calls, start, Len(shape))
             /\ Hold
        ELSE /\ UNCHANGED <<nextSequence, notified>>
             /\ calls' = calls + 1
             /\ failed' = failed \cup {calls}
             /\ ret' = "ErrRecordTooLarge"
             /\ UNCHANGED <<status, synced, inflight, acked, syncMode>>

WriteBatch(shape, start, newNext) ==
  LET total    == Len(shape) + Cardinality({i \in 1..Len(shape) : shape[i] = Large})
      mustFlush == total > bufCap - Buffered
      f1       == IF mustFlush THEN Len(log) ELSE flushed
      cap1     == IF mustFlush /\ total > bufCap THEN total ELSE bufCap
      bad      == {i \in 1..Len(shape) : shape[i] = Large}
      written  == IF bad = {} THEN Len(shape)
                  ELSE (CHOOSE i \in bad : \A j \in bad : i <= j) - 1
      recs     == [i \in 1..written |-> [call |-> calls, seq |-> start, type |-> "Full"]]
  IN /\ bufCap' = cap1
     /\ WriteRecords(recs, f1, cap1)
     /\ IF bad = {}
        THEN /\ nextSequence' = newNext
             /\ Notify(calls, start, Len(shape))
             /\ Hold
        ELSE /\ UNCHANGED <<nextSequence, notified>>
             /\ calls' = calls + 1
             /\ failed' = failed \cup {calls}
             /\ ret' = "ErrRecordTooLarge"
             /\ UNCHANGED <<status, synced, inflight, acked, syncMode>>

AppendBatch(shape) ==
  /\ Free
  /\ \/ status # "Active" /\ Reject(StatusError)
     \/ status = "Active" /\ shape = << >> /\ Reject("ok")
     \/ status = "Active" /\ shape # << >> /\ nextSequence >= MaxSequenceNumber
        /\ Reject("ErrSequenceOverflow")
     \/ /\ status = "Active"
        /\ shape # << >>
        /\ nextSequence < MaxSequenceNumber
        /\ overflowWarning' = (overflowWarning \/ nextSequence >= SequenceWarningThreshold)
        /\ WriteBatch(shape, nextSequence, nextSequence + 1)

AppendBatchWithSequence(shape, s) ==
  /\ Free
  /\ \/ status # "Active" /\ Reject(StatusError)
     \/ status = "Active" /\ shape = << >> /\ Reject("ok")
     \/ status = "Active" /\ shape # << >> /\ s >= MaxSequenceNumber
        /\ Reject("ErrSequenceOverflow")
     \/ /\ status = "Active"
        /\ shape # << >>
        /\ s < MaxSequenceNumber
        /\ overflowWarning' = (overflowWarning \/ s >= SequenceWarningThreshold)
        /\ WriteBatch(shape, s, IF s + 1 > nextSequence THEN s + 1 ELSE nextSequence)

(***************************************************************************)
(* syncLocked: refuses unless Active, else flushes the writer, fsyncs and  *)
(* resets batchByteSize.                                                   *)
(***************************************************************************)
\* Mutant: fsync without flushing the bufio writer first.
SyncOKNoFlush ==
  /\ status = "Active"
  /\ UNCHANGED flushed
  /\ synced' = flushed
  /\ batchByteSize' = 0

SyncOK ==
  /\ status = "Active"
  /\ flushed' = Len(log)
  /\ synced' = Len(log)
  /\ batchByteSize' = 0

NeedSync ==
  \/ syncMode = "SyncImmediate"
  \/ syncMode = "SyncBatch" /\ batchByteSize >= WALSyncBytes

(***************************************************************************)
(* The second step of every append: maybeSync under the still-held w.mu,  *)
(* then return.  SetRotating may have run since the status was checked.    *)
(***************************************************************************)
MaybeSync ==
  /\ inflight # None
  /\ inflight' = None
  /\ \/ /\ ~NeedSync
        /\ acked' = acked \cup {inflight}
        /\ ret' = "ok"
        /\ UNCHANGED <<flushed, synced, batchByteSize, failed>>
     \/ /\ NeedSync
        /\ SyncOK
        /\ acked' = acked \cup {inflight}
        /\ ret' = "ok"
        /\ UNCHANGED failed
     \/ /\ NeedSync
        /\ status # "Active"
        /\ failed' = failed \cup {inflight}
        /\ ret' = StatusError
        /\ UNCHANGED <<flushed, synced, batchByteSize, acked>>
  /\ UNCHANGED <<status, nextSequence, overflowWarning, log, bufCap, calls, syncMode,
                 notified>>

\* Sync (public): syncLocked under w.mu.
Sync ==
  /\ inflight = None
  /\ \/ status # "Active" /\ Reject(StatusError)
     \/ /\ SyncOK
        /\ ret' = "ok"
        /\ UNCHANGED <<status, nextSequence, overflowWarning, log, bufCap,
                       inflight, calls, acked, failed, syncMode, notified>>

(***************************************************************************)
(* Close: a no-op when already Closed; otherwise flush and fsync first,    *)
(* then Rotating, close the file, Closed.  The intermediate Rotating is    *)
(* not observable: everything that reads the status holds w.mu.            *)
(***************************************************************************)
Close ==
  /\ inflight = None
  /\ status # "Closed"
  /\ flushed' = Len(log)
  /\ synced' = Len(log)
  /\ status' = "Closed"
  /\ ret' = "ok"
  /\ UNCHANGED <<nextSequence, overflowWarning, log, bufCap, batchByteSize,
                 inflight, calls, acked, failed, syncMode, notified>>

\* SetRotating / SetActive: an atomic store, without w.mu.
SetRotating ==
  /\ status' = "Rotating"
  /\ UNCHANGED <<nextSequence, overflowWarning, log, flushed, synced, bufCap,
                 batchByteSize, inflight, calls, acked, failed, ret, syncMode,
                 notified>>

SetActive ==
  /\ status' = "Active"
  /\ UNCHANGED <<nextSequence, overflowWarning, log, flushed, synced, bufCap,
                 batchByteSize, inflight, calls, acked, failed, ret, syncMode,
                 notified>>

(***************************************************************************)
(* UpdateNextSequence: raise nextSequence after recovery, warning when it  *)
(* crosses the threshold.                                                  *)
(***************************************************************************)
UpdateNextSequence(n) ==
  /\ inflight = None
  /\ n > nextSequence
  /\ nextSequence' = n
  /\ overflowWarning' = (overflowWarning \/ n >= SequenceWarningThreshold)
  /\ UNCHANGED <<status, log, flushed, synced, bufCap, batchByteSize,
                 inflight, calls, acked, failed, ret, syncMode, notified>>

(***************************************************************************)
(* GetEntriesFrom: refuses on a Closed WAL, returns nothing for a future   *)
(* sequence number, and otherwise flushes the writer before reading the    *)
(* files.  The entries it returns are not state.                           *)
(***************************************************************************)
GetEntriesFrom(s) ==
  /\ inflight = None
  /\ \/ status = "Closed" /\ Reject("ErrWALClosed")
     \/ status # "Closed" /\ s >= nextSequence /\ Reject("ok")
     \/ /\ status # "Closed"
        /\ s < nextSequence
        /\ flushed' = Len(log)
        /\ ret' = "ok"
        /\ UNCHANGED <<status, nextSequence, overflowWarning, log, synced,
                       bufCap, batchByteSize, inflight, calls, acked, failed, syncMode,
                       notified>>

(***************************************************************************)
(* The storage manager's use of the status (spec 4.5): it marks the WAL    *)
(* Rotating when it starts a rotation and then closes it, or sets it       *)
(* Active again.  The code itself puts no guard on these stores.           *)
(***************************************************************************)
ManagerRotates == status = "Active" /\ SetRotating
ManagerResumes == status = "Rotating" /\ SetActive

(***************************************************************************)
(* NewWAL: a fresh Active WAL with nextSequence 1 and an empty 64 KiB      *)
(* writer.  ReuseWAL: the latest segment reopened for append with the      *)
(* recovered next sequence number; it does not look at the warning        *)
(* threshold.  The reopened file's older records were replayed by          *)
(* recovery and are not part of this log.                                  *)
(***************************************************************************)
NewWAL == nextSequence = 1

ReuseWAL(nextSeq) == nextSequence = nextSeq

Init ==
  /\ status = "Active"
  /\ syncMode \in SyncModes
  /\ \/ NewWAL
     \/ \E n \in RecoveredSeqs : ReuseWAL(n)
  /\ overflowWarning = FALSE
  /\ log = << >>
  /\ flushed = 0
  /\ synced = 0
  /\ bufCap = BufferSize
  /\ batchByteSize = 0
  /\ inflight = None
  /\ calls = 0
  /\ acked = {}
  /\ failed = {}
  /\ ret = "ok"
  /\ notified = << >>

Next ==
  \/ \E size \in EntrySizes : WALAppend(size)
  \/ \E size \in EntrySizes, s \in ReplicaSeqs : AppendWithSequence(size, s)
  \/ \E s \in ExactSeqs, wf \in BOOLEAN : AppendExactBytes(s, wf)
  \/ \E shape \in BatchShapes : AppendBatch(shape)
  \/ \E shape \in BatchShapes, s \in ReplicaSeqs : AppendBatchWithSequence(shape, s)
  \/ MaybeSync
  \/ Sync
  \/ Close
  \/ ManagerRotates
  \/ ManagerResumes
  \/ \E n \in RecoveredSeqs : UpdateNextSequence(n)
  \/ \E s \in ReplicaSeqs : GetEntriesFrom(s)

Spec == Init /\ [][Next]_vars

-----------------------------------------------------------------------------
TypeOK ==
  /\ status \in {"Active", "Rotating", "Closed"}
  /\ syncMode \in SyncModes
  /\ nextSequence \in SeqNums
  /\ overflowWarning \in BOOLEAN
  /\ log \in Seq(Record)
  /\ synced \in 0..flushed /\ flushed \in 0..Len(log)
  /\ Buffered <= bufCap
  /\ batchByteSize \in Nat
  /\ inflight = None \/ inflight \in 0..calls - 1
  /\ calls \in 0..MaxCalls
  /\ acked \cup failed \subseteq 0..calls - 1
  /\ acked \cap failed = {}
  /\ notified \in Seq([call : Nat, seq : SeqNums])

(***************************************************************************)
(* Sequence numbers are never reused: every record already in the log has *)
(* a sequence number below nextSequence, so the next Append or AppendBatch *)
(* gets a number no earlier entry carries.  It ties the counter updates of *)
(* all five append paths (and their failure paths) to what they wrote.     *)
(***************************************************************************)
NextSeqAboveLog ==
  \A i \in 1..Len(log) : log[i].seq < nextSequence

(***************************************************************************)
(* Under SyncImmediate, an append that returned success is durable: all   *)
(* its records are within the fsync'd prefix, whatever rotation or flush   *)
(* happened in between.                                                    *)
(***************************************************************************)
AckedDurable ==
  syncMode = "SyncImmediate" =>
    \A i \in 1..Len(log) : log[i].call \in acked => i <= synced

(***************************************************************************)
(* A batch reaches the OS in one piece: AppendBatch's pre-flush means no   *)
(* flush of the bufio writer ever falls between two Full records written  *)
(* by the same call, so a crash never persists half a batch.               *)
(***************************************************************************)
BatchNotSplitByFlush ==
  \A i, j \in 1..Len(log) :
    /\ log[i].call = log[j].call
    /\ log[i].type = "Full" /\ log[j].type = "Full"
    /\ i <= flushed
    => j <= flushed

(***************************************************************************)
(* Observers (the replication primary) are told of exactly the entries in  *)
(* the log, each once, in log order and with the sequence number it was    *)
(* written with: every append path notifies, a fragmented entry once, a    *)
(* batch every entry, and w.mu keeps notifications in write order.         *)
(***************************************************************************)
Entries == SelectSeq(log, LAMBDA r : r.type # "Last")

ObserversSeeLog ==
  notified = [i \in 1..Len(Entries) |-> [call |-> Entries[i].call, seq |-> Entries[i].seq]]

(***************************************************************************)
(* A call that returned an error left no record in the log (spec 7: a      *)
(* transient WALRotating error is retried by the caller).                  *)
(***************************************************************************)
FailedCallNotLogged ==
  \A i \in 1..Len(log) : log[i].call \notin failed
=============================================================================
