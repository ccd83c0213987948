------------------------------ MODULE Storage ------------------------------
(***************************************************************************)
(* The storage manager (spec 4.5; storage/manager.go is not among the      *)
(* sources, only its tests) composing the WAL, the memtables and the       *)
(* SSTables: writers putting keys, rotate_wal, the background flush, and   *)
(* the process crashing and restarting through RecoverFromWAL.             *)
(*                                                                         *)
(* Writers load the current_wal pointer without the manager lock (it is    *)
(* an atomic pointer) and append under the WAL's own mutex; the memtable   *)
(* pool is read under the manager lock, which rotate_wal holds from its    *)
(* first step to its last.  Appends are durable when they return           *)
(* (SyncImmediate): the property is about rotation, flush and crash, not   *)
(* about buffering, which WAL checks.                                      *)
(*                                                                         *)
(* A record's value is a ghost stamp giving the order in which appends     *)
(* took the WAL mutex, so every write is told apart from every other; a    *)
(* tombstone carries its stamp too, where the code carries a nil value.    *)
(***************************************************************************)
EXTENDS Integers, Sequences, FiniteSets, SkipList

LOCAL SE == INSTANCE SequencesExt

CONSTANTS
  Writers,       \* goroutines calling Put
  Keys,          \* user keys
  MaxMemTables,  \* cfg.MaxMemTables: bound on immutable memtables waiting for flush
  MemTableSize,  \* cfg.MemTableSize, counted in records
  MaxOps,        \* bound on appends
  MaxWALs,       \* bound on WAL files created
  MaxCrashes,    \* bound on crashes
  None

VARIABLES
  wals,     \* WAL files in creation (= name) order: [status, log, deleted]
  current,  \* index of current_wal
  nextSeq,  \* nextSequence of the current WAL
  tables,   \* memtables and SSTables in creation order: [list, immutable, sst]
  mutable,  \* index of the mutable memtable
  rot,      \* rotate_wal's progress; it holds the manager lock unless "idle"
  pc,       \* per writer: "idle", "append", "insert"
  op,       \* per writer: key and kind of its Put or Delete
  walp,     \* per writer: the WAL pointer it loaded
  entry,    \* per writer: the record its append wrote
  result,   \* per writer: what its last Put returned, or None
  stamp,    \* ghost: appends made so far
  crashes,
  up        \* the engine is open: FALSE once a restart's recovery failed

vars == <<wals, current, nextSeq, tables, mutable, rot, pc, op, walp, entry,
          result, stamp, crashes, up>>

NewWAL == [status |-> "Active", log |-> << >>, deleted |-> FALSE]

NewTable == [list |-> << >>, immutable |-> FALSE, sst |-> FALSE]

\* Immutable memtables waiting in the pool for flush.
Pool == {i \in 1..Len(tables) : tables[i].immutable /\ ~tables[i].sst}

-----------------------------------------------------------------------------
(* put(key, value)                                                        *)

\* put or delete starts: it loads the current_wal pointer.
Begin(w, k, kind) ==
  /\ up
  /\ pc[w] = "idle"
  /\ stamp + Cardinality({v \in Writers : pc[v] # "idle"}) < MaxOps
  /\ pc' = [pc EXCEPT ![w] = "append"]
  /\ op' = [op EXCEPT ![w] = [key |-> k, kind |-> kind]]
  /\ walp' = [walp EXCEPT ![w] = current]
  /\ UNCHANGED <<wals, current, nextSeq, tables, mutable, rot, entry, result,
                 stamp, crashes, up>>

Put(w, k) == Begin(w, k, "Value")

\* delete(key): the same path with a tombstone.
Delete(w, k) == Begin(w, k, "Deletion")

\* The record Put w appends now, and the WAL accepting it.
Record(w) == [key |-> op[w].key, seq |-> nextSeq, kind |-> op[w].kind, value |-> stamp + 1]

AppendOK(w) ==
  /\ wals' = [wals EXCEPT ![walp[w]].log = Append(@, Record(w))]
  /\ nextSeq' = nextSeq + 1
  /\ stamp' = stamp + 1
  /\ entry' = [entry EXCEPT ![w] = Record(w)]
  /\ pc' = [pc EXCEPT ![w] = "insert"]
  /\ UNCHANGED <<result, walp>>

\* Mutant: a writer retries on any WAL error, against the pointer it holds.
AppendRetryStale(w) ==
  /\ pc[w] = "append"
  /\ IF wals[walp[w]].status = "Active" THEN AppendOK(w)
     ELSE /\ result' = [result EXCEPT ![w] = "WALRotating"]
          /\ UNCHANGED <<wals, nextSeq, stamp, entry, pc, walp>>
  /\ UNCHANGED <<current, tables, mutable, rot, op, crashes, up>>

(***************************************************************************)
(* WAL.Append on the loaded pointer: Active appends with nextSequence;     *)
(* Rotating returns ErrWALRotating and the writer retries against the      *)
(* pointer as it is now; Closed returns ErrWALClosed to the caller.        *)
(***************************************************************************)
WALAppend(w) ==
  /\ pc[w] = "append"
  /\ CASE wals[walp[w]].status = "Active" -> AppendOK(w)
       [] wals[walp[w]].status = "Rotating" ->
            /\ result' = [result EXCEPT ![w] = "WALRotating"]
            /\ walp' = [walp EXCEPT ![w] = current]
            /\ UNCHANGED <<wals, nextSeq, stamp, entry, pc>>
       [] OTHER ->
            /\ result' = [result EXCEPT ![w] = "WALClosed"]
            /\ pc' = [pc EXCEPT ![w] = "idle"]
            /\ UNCHANGED <<wals, nextSeq, stamp, entry, walp>>
  /\ UNCHANGED <<current, tables, mutable, rot, op, crashes, up>>

(***************************************************************************)
(* The active memtable, read under the manager lock, gets the record       *)
(* (MemTable.Put); the Put returns success.  The active memtable is never  *)
(* immutable while the lock is free, so MemTable.Put's early return does   *)
(* not fire here.                                                          *)
(***************************************************************************)
InsertMemTable(w) ==
  /\ pc[w] = "insert"
  /\ rot = "idle"
  /\ tables' = [tables EXCEPT ![mutable].list = Insert(@, entry[w])]
  /\ result' = [result EXCEPT ![w] = "ok"]
  /\ pc' = [pc EXCEPT ![w] = "idle"]
  /\ UNCHANGED <<wals, current, nextSeq, mutable, rot, op, walp, entry, stamp,
                 crashes, up>>

-----------------------------------------------------------------------------
(* rotate_wal, under the manager lock from its first step to its last.    *)

\* Mutant: rotation does not wait for the pool to have room.
RotateBeginUnbounded ==
  /\ rot = "idle"
  /\ Len(wals) < MaxWALs
  /\ wals' = [wals EXCEPT ![current].status = "Rotating"]
  /\ rot' = "rotating"
  /\ UNCHANGED <<current, nextSeq, tables, mutable, pc, op, walp, entry,
                 result, stamp, crashes, up>>

\* Set is_rotating and mark the current WAL Rotating; when the pool is
\* full, rotation waits for a flush (spec 5, resource limits).
RotateBegin ==
  /\ up
  /\ rot = "idle"
  /\ Len(wals) < MaxWALs
  /\ Cardinality(Pool) < MaxMemTables
  /\ wals' = [wals EXCEPT ![current].status = "Rotating"]
  /\ rot' = "rotating"
  /\ UNCHANGED <<current, nextSeq, tables, mutable, pc, op, walp, entry,
                 result, stamp, crashes, up>>

\* Open a new WAL file continuing the numbering and swap current_wal.
RotateSwap ==
  /\ rot = "rotating"
  /\ wals' = Append(wals, NewWAL)
  /\ current' = Len(wals) + 1
  /\ rot' = "swapped"
  /\ UNCHANGED <<nextSeq, tables, mutable, pc, op, walp, entry, result, stamp,
                 crashes, up>>

\* Close the old WAL: flush, fsync, status Closed.
RotateClose ==
  /\ rot = "swapped"
  /\ wals' = [wals EXCEPT ![current - 1].status = "Closed"]
  /\ rot' = "closed"
  /\ UNCHANGED <<current, nextSeq, tables, mutable, pc, op, walp, entry,
                 result, stamp, crashes, up>>

\* Freeze the mutable memtable into the pool, allocate a fresh one, clear
\* is_rotating and release the lock.
RotateMemTable ==
  /\ rot = "closed"
  /\ tables' = Append([tables EXCEPT ![mutable].immutable = TRUE], NewTable)
  /\ mutable' = Len(tables) + 1
  /\ rot' = "idle"
  /\ UNCHANGED <<wals, current, nextSeq, pc, op, walp, entry, result, stamp,
                 crashes, up>>

-----------------------------------------------------------------------------
(* flush_memtables and the deletion of WAL files.                          *)

\* What a flush writes: the newest record of every key in key order,
\* tombstones included (spec 4.4, tombstone preservation).
SSTContents(list) == SelectSeq(list, LAMBDA r : Find(list, r.key, None) = r)

\* Every entry WAL file j covers is persisted in ts (spec 4.3): an SSTable
\* holds that write of its key or a later one.  This states the spec's
\* condition, not how the manager decides it, which is not in the sources.
Persisted(j, ts) ==
  \A r \in SE!ToSet(wals[j].log) :
    \E i \in 1..Len(ts) : ts[i].sst /\ \E d \in SE!ToSet(ts[i].list) :
      d.key = r.key /\ d.value >= r.value

\* A WAL file is deleted once all entries it covers are persisted in
\* SSTables (spec 4.3); the current WAL never is.
Deletable(j, ts) ==
  /\ j # current
  /\ wals[j].status = "Closed"
  /\ Persisted(j, ts)

(***************************************************************************)
(* Flush the oldest immutable memtable into a new SSTable (written,        *)
(* fsynced, renamed, added to the set under the manager lock), then delete *)
(* the WAL files it leaves fully persisted.                                *)
(***************************************************************************)
FlushMemTables ==
  /\ up
  /\ rot = "idle"
  /\ Pool # {}
  /\ LET i  == CHOOSE i \in Pool : \A j \in Pool : i <= j
         ts == [tables EXCEPT ![i] = [@ EXCEPT !.sst = TRUE,
                                               !.list = SSTContents(@)]]
     IN /\ tables' = ts
        /\ wals' = [j \in 1..Len(wals) |->
                     IF ~wals[j].deleted /\ Deletable(j, ts)
                       THEN [wals[j] EXCEPT !.deleted = TRUE, !.log = << >>]
                       ELSE wals[j]]
  /\ UNCHANGED <<current, nextSeq, mutable, rot, pc, op, walp, entry, result,
                 stamp, crashes, up>>

-----------------------------------------------------------------------------
(* Crash and restart.                                                     *)

\* ReplayWALDir over the files left, oldest name first.
Replayed == SE!FlattenSeq([j \in 1..Len(wals) |-> wals[j].log])

\* RecoverFromWAL's maxSeqNum: the highest number replayed, or 0.
MaxSeqNum ==
  LET ss == {Replayed[i].seq : i \in 1..Len(Replayed)}
  IN IF ss = {} THEN 0 ELSE CHOOSE m \in ss : \A n \in ss : n <= m

(***************************************************************************)
(* RecoverFromWAL's entry handler under DefaultRecoveryOptions(cfg): no    *)
(* entry is above the default MaxSequenceNumber; when the current memtable *)
(* is full, fail if the list already holds MaxMemTables memtables, else    *)
(* freeze it and append a fresh one; apply the entry.  An error ends the   *)
(* replay, so it is kept once set.                                         *)
(***************************************************************************)
entryHandler(res, e) ==
  LET ms == res.memTables
      n  == Len(ms)
  IN CASE res.err -> res
       [] Len(ms[n].list) < MemTableSize ->
            [res EXCEPT !.memTables[n].list = Insert(@, e)]
       [] n >= MaxMemTables -> [res EXCEPT !.err = TRUE]
       [] OTHER ->
            [res EXCEPT !.memTables = Append([ms EXCEPT ![n].immutable = TRUE],
                                             [NewTable EXCEPT !.list = << e >>])]

\* RecoverFromWAL: one fresh memtable, the handler over every entry left.
Recovered ==
  SE!FoldLeft(entryHandler, [memTables |-> << NewTable >>, err |-> FALSE], Replayed)

(***************************************************************************)
(* The process dies: memtables, in-flight Puts and a rotation in progress  *)
(* are lost; SSTables and the WAL files not deleted remain.  The engine    *)
(* restarts through RecoverFromWAL: on success its memtables follow the    *)
(* SSTables (all but the last immutable, in the pool), a new WAL is        *)
(* opened, and numbering resumes at maxSeqNum + 1; on its error the        *)
(* engine does not open.                                                   *)
(***************************************************************************)
CrashRestart ==
  /\ up
  /\ crashes < MaxCrashes
  /\ Len(wals) < MaxWALs
  /\ rot' = "idle"
  /\ pc' = [w \in Writers |-> "idle"]
  /\ crashes' = crashes + 1
  /\ \/ /\ ~Recovered.err
        /\ LET ssts == SelectSeq(tables, LAMBDA t : t.sst)
           IN /\ tables' = ssts \o Recovered.memTables
              /\ mutable' = Len(ssts) + Len(Recovered.memTables)
        /\ wals' = Append([j \in 1..Len(wals) |-> [wals[j] EXCEPT !.status = "Closed"]], NewWAL)
        /\ current' = Len(wals) + 1
        /\ nextSeq' = MaxSeqNum + 1
        /\ UNCHANGED up
     \/ /\ Recovered.err
        /\ up' = FALSE
        /\ UNCHANGED <<wals, current, nextSeq, tables, mutable>>
  /\ UNCHANGED <<op, walp, entry, result, stamp>>

-----------------------------------------------------------------------------
\* NewManager: one WAL, one empty memtable, no SSTables.
Init ==
  /\ wals = << NewWAL >>
  /\ current = 1
  /\ nextSeq = 1
  /\ tables = << NewTable >>
  /\ mutable = 1
  /\ rot = "idle"
  /\ pc = [w \in Writers |-> "idle"]
  /\ op = [w \in Writers |-> None]
  /\ walp = [w \in Writers |-> 1]
  /\ entry = [w \in Writers |-> None]
  /\ result = [w \in Writers |-> None]
  /\ stamp = 0
  /\ crashes = 0
  /\ up = TRUE

Next ==
  \/ \E w \in Writers, k \in Keys : Put(w, k) \/ Delete(w, k)
  \/ \E w \in Writers : WALAppend(w) \/ InsertMemTable(w)
  \/ RotateBegin
  \/ RotateSwap
  \/ RotateClose
  \/ RotateMemTable
  \/ FlushMemTables
  \/ CrashRestart

(***************************************************************************)
(* Fairness: a writer goroutine that can take its next step does; a        *)
(* rotation, once begun, runs to its end (its steps are straight-line code *)
(* under the manager lock).  Starting a rotation, flushing and crashing    *)
(* are not required to happen.                                             *)
(***************************************************************************)
Fairness ==
  /\ \A w \in Writers : WF_vars(WALAppend(w)) /\ WF_vars(InsertMemTable(w))
  /\ WF_vars(RotateSwap) /\ WF_vars(RotateClose) /\ WF_vars(RotateMemTable)

Spec == Init /\ [][Next]_vars /\ Fairness

-----------------------------------------------------------------------------
Rec == InternalRecord(Keys, Nat, Nat)

TypeOK ==
  /\ wals \in Seq([status : {"Active", "Rotating", "Closed"}, log : Seq(Rec),
                   deleted : BOOLEAN])
  /\ current \in 1..Len(wals)
  /\ tables \in Seq([list : Seq(Rec), immutable : BOOLEAN, sst : BOOLEAN])
  /\ mutable \in 1..Len(tables)
  /\ rot \in {"idle", "rotating", "swapped", "closed"}
  /\ pc \in [Writers -> {"idle", "append", "insert"}]
  /\ result \in [Writers -> {None, "ok", "WALRotating", "WALClosed"}]
  /\ up \in BOOLEAN
  \* spec 5: MaxMemTables bounds the immutable-memtable queue
  /\ Cardinality(Pool) <= MaxMemTables

\* The records on disk: SSTables and WAL files not deleted.
OnDisk ==
  UNION {SE!ToSet(tables[i].list) : i \in {i \in 1..Len(tables) : tables[i].sst}}
    \cup UNION {SE!ToSet(wals[j].log) : j \in 1..Len(wals)}

(***************************************************************************)
(* Sequence numbers are never reused (spec 3, 4.3): the next one the WAL   *)
(* assigns is above every number on disk, also after a restart resumes at  *)
(* RecoverFromWAL's maxSeqNum + 1 (spec 4.7), which counts only the WAL    *)
(* files that flushes have not deleted.                                    *)
(***************************************************************************)
NextSeqAboveDisk == \A d \in OnDisk : d.seq < nextSeq

(***************************************************************************)
(* The engine can always be reopened: when it dies open, no put in flight, *)
(* no rotation under way and no memtable past MemTableSize, the WAL files  *)
(* it leaves fit into the MaxMemTables memtables that RecoverFromWAL is    *)
(* given by DefaultRecoveryOptions(cfg), although the running engine holds *)
(* up to MaxMemTables immutable memtables besides the mutable one and      *)
(* their WAL files stay until a flush persists them.                       *)
(***************************************************************************)
RecoveryFits ==
  /\ up
  /\ \A w \in Writers : pc[w] = "idle"
  /\ rot = "idle"
  /\ \A i \in 1..Len(tables) : Len(tables[i].list) <= MemTableSize
  => ~Recovered.err

\* Every Put returns, retrying on WALRotating as long as it must.
PutReturns == \A w \in Writers : pc[w] # "idle" ~> pc[w] = "idle"
=============================================================================
