------------------------------ MODULE Recovery ------------------------------
(***************************************************************************)
(* Engine start-up: RecoverFromWAL (recovery.go) replaying the WAL         *)
(* directory into a list of memtables.                                     *)
(*                                                                         *)
(* The directory is produced first, by the writing phase of the engine:    *)
(* Append gives each entry the next sequence number, AppendBatch gives all *)
(* entries of a batch one number, and NewWAL starts a new segment file     *)
(* named after the wall clock (time.Now().UnixNano()).  ReplayWALDir reads *)
(* the segments in name order, so a clock that steps back puts the new     *)
(* segment before older ones.  Then the process stops, and recovery        *)
(* replays the directory one handler call per step.                        *)
(*                                                                         *)
(* A memtable is [list, size, immutable, nextSeqNum]; each record counts   *)
(* one unit of ApproximateSize.  A Put's value is its sequence number, so  *)
(* every version of a key is told apart.                                   *)
(***************************************************************************)
EXTENDS Integers, Sequences, SkipList

LOCAL SE == INSTANCE SequencesExt

CONSTANTS
  Keys,             \* user keys, naturals in byte order
  SeqWidth,         \* width of the uint64 sequence numbers, scaled down
  MemTableSize,     \* cfg.MemTableSize, in records
  MaxMemTables,     \* cfg.MaxMemTables
  CallerOptions,    \* the non-nil RecoveryOptions callers pass
  MaxEntries,       \* bound on entries written before the restart
  MaxSegments,      \* bound on WAL segment files
  ClockStepsBack,   \* whether the wall clock may go backwards
  None

SeqNums == 0..(2^SeqWidth - 1)
Ops == {"Put", "Delete", "Merge"}
Entry == [op : Ops, key : Keys, seq : SeqNums]

\* RecoveryOptions
Options == [MaxSequenceNumber : SeqNums, MaxMemTables : Nat, MemTableSize : Nat]

\* DefaultRecoveryOptions(cfg): no sequence limit (the largest uint64),
\* the configured memtable count and size.
DefaultRecoveryOptions ==
  [MaxSequenceNumber |-> 2^SeqWidth - 1, MaxMemTables |-> MaxMemTables,
   MemTableSize |-> MemTableSize]

VARIABLES
  segments,     \* the WAL files, in file-name order
  cur,          \* index of the segment being written
  nextSequence, \* the writer's WAL.nextSequence
  phase,        \* "writing", "replaying", "done" or "failed"
  pos,          \* next entry of the replay handed to the handler
  memTables,    \* RecoverFromWAL's memTables
  maxSeqNum,    \* RecoverFromWAL's maxSeqNum
  opts          \* the RecoveryOptions recovery runs with

vars == <<segments, cur, nextSequence, phase, pos, memTables, maxSeqNum, opts>>

\* ReplayWALDir: segments oldest name first, each in file order.
Replay == SE!FlattenSeq(segments)

Written == SE!ToSet(Replay)

\* NewMemTable
NewMemTable == [list |-> << >>, size |-> 0, immutable |-> FALSE, nextSeqNum |-> 0]

-----------------------------------------------------------------------------
(* The writing phase.                                                     *)

\* WAL.Append: one entry with nextSequence, which then advances.
WALAppend(op, key) ==
  /\ phase = "writing"
  /\ Len(Replay) < MaxEntries
  /\ segments' = [segments EXCEPT ![cur] =
                    Append(@, [op |-> op, key |-> key, seq |-> nextSequence])]
  /\ nextSequence' = nextSequence + 1
  /\ UNCHANGED <<cur, phase, pos, memTables, maxSeqNum, opts>>

\* WAL.AppendBatch: the entries of a batch (distinct keys, as the
\* transaction write set holds them) all take nextSequence.
AppendBatch(ops) ==
  /\ phase = "writing"
  /\ Len(Replay) + Len(ops) <= MaxEntries
  /\ segments' = [segments EXCEPT ![cur] = @ \o
                    [i \in 1..Len(ops) |->
                       [op |-> ops[i].op, key |-> ops[i].key, seq |-> nextSequence]]]
  /\ nextSequence' = nextSequence + 1
  /\ UNCHANGED <<cur, phase, pos, memTables, maxSeqNum, opts>>

\* Rotation: NewWAL creates a file named time.Now().UnixNano(); with a
\* monotone clock it sorts last, otherwise anywhere.
NewSegment ==
  /\ phase = "writing"
  /\ Len(segments) < MaxSegments
  /\ \E i \in IF ClockStepsBack THEN 1..Len(segments) + 1
                                 ELSE {Len(segments) + 1} :
        /\ segments' = SE!InsertAt(segments, i, << >>)
        /\ cur' = i
  /\ UNCHANGED <<nextSequence, phase, pos, memTables, maxSeqNum, opts>>

\* The process stops; the engine restarts and calls RecoverFromWAL with
\* options or with nil, which takes DefaultRecoveryOptions(cfg).
Restart ==
  /\ phase = "writing"
  /\ phase' = "replaying"
  /\ opts' \in CallerOptions \cup {DefaultRecoveryOptions}
  /\ UNCHANGED <<segments, cur, nextSequence, pos, memTables, maxSeqNum>>

-----------------------------------------------------------------------------
(* RecoverFromWAL's handler.                                              *)

\* MemTable.ProcessWALEntry: Put and Delete insert a record, Merge is
\* ignored; Put/Delete raise nextSeqNum when seq > nextSeqNum.
ProcessWALEntry(m, e) ==
  IF e.op = "Merge" \/ m.immutable THEN m
  ELSE [m EXCEPT
          !.list = Insert(@,
                     [key |-> e.key, seq |-> e.seq,
                      kind |-> IF e.op = "Put" THEN "Value" ELSE "Deletion",
                      value |-> IF e.op = "Put" THEN e.seq ELSE None]),
          !.size = @ + 1,
          !.nextSeqNum = IF e.seq > @ THEN (e.seq + 1) % (2^SeqWidth) ELSE @]

\* Mutant: maxSeqNum raised only by entries a memtable applies.
RaiseMaxSkipMerge(m, e) == IF e.seq > m /\ e.op # "Merge" THEN e.seq ELSE m

\* maxSeqNum is raised to the entry's number.
RaiseMax(m, e) == IF e.seq > m THEN e.seq ELSE m

\* Mutant: the limit test lets the list grow one past MaxMemTables.
TooManyOffByOne(n) == n > opts.MaxMemTables

\* len(memTables) >= opts.MaxMemTables
TooMany(n) == n >= opts.MaxMemTables

\* Mutant: the fresh memtable replaces the full one instead of being
\* appended after it.
RotateNoAppend(ms, e) ==
  [ms EXCEPT ![Len(ms)] = ProcessWALEntry(NewMemTable, e)]

\* SetImmutable on the full memtable, append NewMemTable, apply the entry.
Rotate(ms, e) ==
  Append([ms EXCEPT ![Len(ms)].immutable = TRUE], ProcessWALEntry(NewMemTable, e))

(***************************************************************************)
(* entryHandler: skip entries above MaxSequenceNumber; raise maxSeqNum; if *)
(* the current memtable is full, fail when there are already MaxMemTables, *)
(* else freeze it and append a fresh one; apply the entry.  A returned    *)
(* error ends ReplayWALDir and recovery.                                   *)
(***************************************************************************)
entryHandler(e) ==
  LET n == Len(memTables) IN
  IF e.seq > opts.MaxSequenceNumber THEN UNCHANGED <<memTables, maxSeqNum, phase>>
  ELSE /\ maxSeqNum' = RaiseMax(maxSeqNum, e)
       /\ CASE memTables[n].size < opts.MemTableSize ->
                 /\ memTables' = [memTables EXCEPT ![n] = ProcessWALEntry(@, e)]
                 /\ UNCHANGED phase
            [] TooMany(n) ->
                 /\ phase' = "failed"
                 /\ UNCHANGED memTables
            [] OTHER ->
                 /\ memTables' = Rotate(memTables, e)
                 /\ UNCHANGED phase

\* ReplayWALDir hands the next entry to the handler.
ReplayEntry ==
  /\ phase = "replaying"
  /\ pos <= Len(Replay)
  /\ entryHandler(Replay[pos])
  /\ pos' = pos + 1
  /\ UNCHANGED <<segments, cur, nextSequence, opts>>

\* ReplayWALDir returns with no error; RecoverFromWAL returns.
ReplayDone ==
  /\ phase = "replaying"
  /\ pos > Len(Replay)
  /\ phase' = "done"
  /\ UNCHANGED <<segments, cur, nextSequence, pos, memTables, maxSeqNum, opts>>

-----------------------------------------------------------------------------
\* A first NewWAL, and RecoverFromWAL's memTables{NewMemTable()}, maxSeqNum 0.
Init ==
  /\ segments = << << >> >>
  /\ cur = 1
  /\ nextSequence = 1
  /\ phase = "writing"
  /\ pos = 1
  /\ memTables = << NewMemTable >>
  /\ maxSeqNum = 0
  /\ opts = DefaultRecoveryOptions

Next ==
  \/ \E op \in Ops, k \in Keys : WALAppend(op, k)
  \/ \E o1, o2 \in Ops : AppendBatch(<< [op |-> o1, key |-> 1],
                                         [op |-> o2, key |-> 2] >>)
  \/ NewSegment
  \/ Restart
  \/ ReplayEntry
  \/ ReplayDone

Spec == Init /\ [][Next]_vars

-----------------------------------------------------------------------------
TypeOK ==
  /\ segments \in Seq(Seq(Entry))
  /\ cur \in 1..Len(segments)
  /\ phase \in {"writing", "replaying", "done", "failed"}
  /\ pos \in 1..(Len(Replay) + 1)
  /\ maxSeqNum \in SeqNums
  \* RecoveryOptions.MaxMemTables bounds the list recovery builds
  /\ memTables \in Seq([list : Seq(InternalRecord(Keys, SeqNums, SeqNums \cup {None})),
                        size : Nat, immutable : BOOLEAN, nextSeqNum : SeqNums])
  /\ opts \in Options
  /\ Len(memTables) \in 1..opts.MaxMemTables

\* The engine's read path (spec 4.5 get): memtables newest first, the
\* first one holding the key answers.
ReadNewestFirst(k) ==
  LET hits == {i \in 1..Len(memTables) : Find(memTables[i].list, k, None) # None}
  IN IF hits = {} THEN None
     ELSE Find(memTables[CHOOSE i \in hits : \A j \in hits : j <= i].list, k, None)

\* What was written for key k: the Put or Delete with the highest sequence
\* number (Merge entries are not applied by ProcessWALEntry).
LastWrite(k) ==
  LET ws == {e \in Written : e.key = k /\ e.op # "Merge" /\ e.seq <= opts.MaxSequenceNumber}
  IN IF ws = {} THEN None
     ELSE CHOOSE e \in ws : \A f \in ws : f.seq <= e.seq

(***************************************************************************)
(* After a successful recovery, reading a key through the memtables        *)
(* newest first gives the last write made to it before the restart: a Put *)
(* reads back its value, a Delete reads back a tombstone, a key never      *)
(* written is absent.  This depends on the handler filling memtables in    *)
(* replay order and on ReplayWALDir replaying in write order.             *)
(***************************************************************************)
RecoveredReadsLastWrite ==
  phase = "done" =>
    \A k \in Keys :
      LET r == ReadNewestFirst(k)  w == LastWrite(k) IN
        IF w = None THEN r = None
        ELSE /\ r # None
             /\ r.seq = w.seq
             /\ r.kind = IF w.op = "Put" THEN "Value" ELSE "Deletion"

(***************************************************************************)
(* The number RecoverFromWAL returns is the highest sequence number it     *)
(* recovered: above every entry in the WAL within the options' limit,      *)
(* Merge entries included, so the manager resuming at maxSeqNum + 1        *)
(* (spec 4.7) reuses no number it replayed; and not raised by an entry the *)
(* limit skipped, so a recovery to a sequence number reports that point.   *)
(***************************************************************************)
ResumeAboveWAL ==
  phase = "done" =>
    LET kept == {e.seq : e \in {e \in Written : e.seq <= opts.MaxSequenceNumber}} IN
    /\ \A n \in kept : n < (maxSeqNum + 1) % (2^SeqWidth)
    /\ maxSeqNum \in kept \cup {0}
=============================================================================
