# TLA+ models of the KevoDB storage core

These modules model the parts of KevoDB's storage engine whose source is in
this repository. They are checked with TLC:

- the write-ahead log (`pkg/wal/wal.go`, which sits in the file
  `src/pkg/wal/wal_test.go` from line 810 on);
- the memtable (`memtable.go`, `src/unnamed/part_000` lines 1–181);
- memtable recovery (`pkg/memtable/recovery.go`);
- the transaction manager (`pkg/transaction/manager.go`), refined against an abstract isolation lock;
- the storage manager (spec §4.5; its code is not present), composing the WAL's status checks, `MemTable.Put` and `RecoverFromWAL` with rotation, flush and crash.

`PROJECT.json` maps every definition to the lines it models. It also lists every run, mutant, finding and hazard.

## 1. The system

The engine is an LSM key/value store (spec.md §1–2). A write enters through the transaction layer (C6). On commit, the transaction layer hands the write set to the storage manager (C5). The storage manager:

1. appends the write set to the WAL (C3) as a batch that shares one sequence number;
2. inserts the entries into the mutable memtable (C2), a skip list of internal records (C1);
3. when the memtable is full, marks the WAL Rotating, opens a new segment file, freezes the memtable, and queues the memtable for a flush to an SSTable (C4).

At start-up, recovery (C7) replays the WAL segments into fresh memtables, and the engine resumes numbering above the highest sequence number it saw.

| Part | Source here | State | Operations | Interacts with |
|---|---|---|---|---|
| C1 skip list | tests only | ordered list of (key, seq, kind, value) | Insert, Find, iterators with a snapshot | memtable |
| C2 memtable | `memtable.go` | skipList, nextSeqNum, immutable flag, RW-lock `mu` | Put, Delete, Get, Contains, SetImmutable, NewIterator, GetNextSequenceNumber, ProcessWALEntry | storage manager, recovery |
| C3 WAL | `wal.go` | status (Active/Rotating/Closed), nextSequence, overflowWarning, bufio writer, file, batchByteSize, mutex `mu` | Append, AppendWithSequence, AppendExactBytes, AppendBatch(WithSequence), Sync, Close, SetRotating, SetActive, UpdateNextSequence, GetEntriesFrom, NewWAL, ReuseWAL | storage manager, replication, recovery |
| C4 SSTable | tests only | — | — | flush |
| C5 storage manager | not present (modelled from the spec) | current WAL, memtable pool, SSTables | put, get, rotate_wal, flush | everything |
| C6 transactions | `manager.go` (manager only) | txLock (sync.RWMutex), three atomic counters | BeginTransaction, IncrementTxCompleted/Aborted, GetTransactionStats | clients, registry |
| C7 recovery | `recovery.go` | memTables list, maxSeqNum | RecoverFromWAL and its entry handler | WAL replay, memtable |

Behaviours that make this code hard to test, and which the models reach:

- **Lock-free status stores.**
  - WAL: `SetRotating` and `SetActive` store the status without `w.mu`, so the status can change between an append's write and the status check in its `maybeSync`.
  - Memtable: `SetImmutable` stores the flag without `m.mu`, so it can change between a Put's immutable check and its insert.
- **Buffering and durability.** The bufio writer flushes by itself when it is full. The batch pre-flush, `Close`'s flush-then-fsync, and `syncLocked`'s flush decide what reaches the OS and the disk.
- **Sequence arithmetic.**
  - There are five ways to assign a WAL sequence number.
  - The overflow check, the warning threshold and uint64 wrap-around all apply.
  - The memtable's `nextSeqNum` is raised only when `seqNum > nextSeqNum`.
  - Iterator snapshots are taken from `nextSeqNum`.
- **Recovery order.**
  - Segment files are named after the wall clock and replayed in name order.
  - A memtable is frozen on the entry after it fills.
  - Reads go through the memtables newest first.
- **Isolation.** One process-wide `sync.RWMutex` serves every transaction. A writer waiting for it blocks new readers.
- **Statistics.** `GetTransactionStats` reads three counters with three separate loads.

## 2. Modules

| Module | Models | Variables ↔ code |
|---|---|---|
| `SkipList` | the skip list, from spec §4.1 (its source is not present) | pure operators: `Compare` (key ascending, seq descending), `Insert`, `Find`, `SnapshotView` |
| `WAL` | one `WAL` object | `status`, `nextSequence`, `overflowWarning`, `bufCap` (= `writer.Size()`), `batchByteSize`, `syncMode` (= `cfg.WALSyncMode`); `log`/`flushed`/`synced` abstract the bytes; `inflight`, `calls`, `acked`, `failed` and `ret` record the calls; `notified` is the sequence of entries observers were told of |
| `MemTable` | one `MemTable` | `skipList`, `nextSeqNum`, `immutable`; `writer` is the Put/Delete that holds `m.mu`; ghost variables `frozen` and `iterators` |
| `Recovery` | `RecoverFromWAL`, over a WAL directory written beforehand | `segments` (files in name order), `cur`, `nextSequence`, then `opts` (the `RecoveryOptions` in force), `memTables`, `maxSeqNum`, `pos` (replay cursor) |
| `TxManager` | `Manager` plus the `sync.RWMutex` it holds | `state`/`mode` per client, `readers`, `rwW` (holder of the lock's writer mutex), the three counters, the monitor's loads; per client `active` (`tx.active`), `ending` (client and/or registry between claiming the end and releasing), `endKind`; `putting` (clients inside a storage put) |
| `RWLock` | what the isolation lock promises (spec §4.6, §5) | `waiting`, `holding`: the mode each client waits for or holds |
| `Storage` | the storage manager's put/delete, `rotate_wal`, `flush_memtables`, crash and restart (spec §4.5, §4.7) | `wals` (status, log, deleted), `current`, `nextSeq`, `tables` (memtables and SSTables: list, immutable, sst), `mutable`, `rot` (rotation step; the manager lock is held unless idle), per writer `pc`, `op`, `walp` (loaded WAL pointer), `entry`, `result`; ghost `stamp`; `crashes`; `up` (the engine is open; FALSE once a restart's recovery failed) |

How each module splits the code into actions:

- **WAL.**
  - Every mutex-holding method is one atomic step, because `w.mu` serialises them.
  - Each append is two steps: the status check and write, then `MaybeSync` (the `maybeSync` / `syncLocked` tail, which runs still under `w.mu`).
  - `SetRotating` and `SetActive` can fall between those two steps.
  - Each successful append path notifies observers inside its first step, before `maybeSync` (`Notify`): one entry for Append, AppendWithSequence and AppendExactBytes, the whole batch for the batch paths. A batch that fails in `writeRecord` notifies nobody.
  - `ManagerRotates` and `ManagerResumes` stand for the storage manager's use of the status. They are modelled from spec §4.5 because the manager is not in the sources.
- **MemTable.**
  - Put and Delete are two steps: `LockAndCheck` (Lock, then the `IsImmutable` early return) and `InsertLocked` (`Insert`, the `nextSeqNum` update, Unlock).
  - `NewIterator` on a mutable table needs the read lock, so it runs only when no writer holds `m.mu`.
  - Get and Contains are operators evaluated in every state.
- **Recovery.**
  - A writing phase builds the WAL directory: `WALAppend`, `AppendBatch`, and `NewSegment`, whose file name sorts last unless the clock steps back.
  - `Restart` ends the writing phase. It calls `RecoverFromWAL` with nil options (so `DefaultRecoveryOptions`: the largest sequence number as limit) or with a caller's `RecoveryOptions` from `CallerOptions`.
  - Each call of the entry handler is one `ReplayEntry` step.
  - `entryHandler` is split into `RaiseMax`, `TooMany` and `Rotate`, one per decision in the code.
- **TxManager.**
  - `BeginTransaction` increments `txStarted` and then tries the lock.
  - A blocked writer goes on through `AcquireW` and `Drained`.
  - Ending a transaction is two steps, from spec §4.6 because `TransactionImpl` is not present. `Claim` swaps `tx.active` from true to false; `Finish` releases the lock (only if the hold flag is still set) and calls `IncrementTxCompleted` or `IncrementTxAborted`.
  - Two enders race for each transaction: the client (Commit or Rollback) and the registry, whose TTL cleanup rolls it back. Whoever loses the swap gets ErrTransactionClosed and changes nothing.
  - `StoragePut` and `StoragePutDone` are the storage manager's put and delete around their append and insert: RLock on the lock `GetRWLock` returns, then RUnlock (spec §4.5). A put counts no transaction, but blocks behind a waiting writer like any reader.
  - `GetTransactionStats` takes three steps, one per atomic load.
  - `Lock == INSTANCE RWLock WITH ...` maps the clients' states to the abstract lock: `waitR`/`waitW`/`drain` are waiting, `ro`/`rw` are holding. The run checks `Lock!LSpec` as the property `IsolationLock`: every TxManager step is an RWLock step (holders compatible, each client following its life cycle) and every client that asks eventually holds the lock.
- **Storage.**
  - A Put or Delete is three steps: `Begin` loads the `current_wal` pointer (an atomic pointer, no lock); `WALAppend` runs `WAL.Append` on it (Active appends; Rotating returns ErrWALRotating and the writer retries on the reloaded pointer; Closed returns ErrWALClosed to the caller); `InsertMemTable` is `MemTable.Put` into the mutable memtable under the manager lock.
  - `rotate_wal` holds the manager lock over four steps: `RotateBegin` (SetRotating; waits while the pool holds MaxMemTables), `RotateSwap` (new WAL file), `RotateClose` (the old WAL's Close), `RotateMemTable` (freeze, fresh memtable). Appends interleave with these steps, since they only take the WAL's mutex.
  - `FlushMemTables` turns the oldest immutable memtable into an SSTable holding the newest record of each key, tombstones included, then deletes every closed WAL file whose entries are persisted (spec §4.3). The manager's rule is not present; `Persisted` states the spec's condition.
  - `CrashRestart` drops memtables and in-flight calls, keeps SSTables and WAL files, and replays the files through `RecoverFromWAL` under `DefaultRecoveryOptions(cfg)`: `Recovered` folds `entryHandler` over the replayed records, filling memtables of `MemTableSize` records and failing once a full one would make more than MaxMemTables. On success it opens a new WAL and resumes at `maxSeqNum + 1`; on the error the engine does not open (`up` is FALSE) and nothing moves again.
  - Appends are taken as durable on return (SyncImmediate); buffering is `WAL`'s concern.
Abstractions:

- **Data.** Keys are small naturals in byte order. Values are model values or the writing sequence number. WAL records carry the id of their call, their sequence number and their type, and nothing else.
- **Sizes.** Sizes are counted in records. A Large WAL entry is one that needs a First and a Last fragment.
- **Widths.** Sequence numbers and counters keep their uint64 wrap-around, scaled down to 2–3 bits.
- **Not modelled.** The op-type validation (`ErrInvalidOpType`), CRCs and logging are left out: no property tells them apart.

## 3. Runs

| Run | Checks | Shows |
|---|---|---|
| `wal` (pass) | TypeOK, NextSeqAboveLog, AckedDurable, BatchNotSplitByFlush, ObserversSeeLog | Under all three sync modes, sequence numbers are never reused by the well-formed calls. Acked appends are durable under SyncImmediate. A batch is never split by a flush. Observers are told of exactly the logged entries, in log order. |
| `wal_rotating_ghost` (violation) | FailedCallNotLogged | An append fails with ErrWALRotating after its record was buffered. Close later persists the record. |
| `wal_partial_batch` (violation) | NextSeqAboveLog | A batch with an oversized entry leaves a partial batch in the log, and the next append reuses its number. |
| `memtable` (pass) | TypeOK (which includes skip-list order) | Out-of-order Puts and Deletes, batches sharing a number, concurrent freezing and iterators: the list stays in comparator order, and nextSeqNum keeps its 2-bit range through the wrap. |
| `memtable_frozen` (violation) | ImmutableFrozen | A Put that passed its check inserts after SetImmutable. |
| `memtable_snapshot` (violation) | SnapshotStable | With records numbered in WAL order: Put(seq 1) sets nextSeqNum to 2, NewIterator takes snapshot 2, and the next write, seq 2, leaks into that iterator. |
| `recovery` (pass) | TypeOK (with ≤ MaxMemTables), RecoveredReadsLastWrite, ResumeAboveWAL | Replaying any WAL written by appends, batches and rotations gives newest-first reads equal to the last writes, and a resume point above the log. |
| `txmanager` (pass) | TypeOK (lock state matches clients), IsolationLock | TxManager implements RWLock: holders stay compatible and every client that asks eventually holds the lock. Storage puts on the read side wait behind a queued writer and still return. The client and the registry race to end each transaction. |
| `storage` (pass) | TypeOK (pool ≤ MaxMemTables), PutReturns | Two writers racing rotations, flushes that delete WAL files, and a crash with restart: every Put returns, retrying on ErrWALRotating with the reloaded pointer. |
| `storage_seq_reuse` (violation) | NextSeqAboveDisk | Write, rotate, flush (the old WAL file is deleted), crash: the restart resumes at 1, a number the SSTable already holds. |
| `storage_recovery_full` (violation) | RecoveryFits | A quiescent engine with a full pool of MaxMemTables immutable memtables and one write in its mutable memtable crashes; `RecoverFromWAL` under the same MaxMemTables returns its memtable-limit error, so the engine cannot reopen. |
| `txmanager_stats` (violation) | ActiveStatBounded | tx_active underflows to 2^64−1. |

Every property of a passing run has a mutant in `PROJECT.json`. The mutant is a plausible bug in the mapped code, and TLC finds it. Examples are a missing pre-flush, `>` for `>=`, a forgotten append of the new memtable, an inverted lock-mode test in BeginTransaction, an append path that forgets to notify observers, a leaked RUnlock, rotation not waiting for pool room, and a writer retrying on a stale WAL pointer.

### Bounds

- **WAL.**
  - SeqWidth = 3, so MaxUint = 7, MaxSequenceNumber = 6 and the warning threshold is 4. The overflow check, the warning and the wrap are all within reach of 3 calls.
  - Recovered start points are 4 and 6.
  - The writer holds 2 records, so a Large entry or a 3-entry batch fills it and exercises the pre-flush and the grow path.
  - A SyncBatch threshold of 2 records makes batch syncs happen.
- **MemTable.**
  - 2 keys and seqs 1..3 (2 bits, so seq 3 wraps `nextSeqNum` to 0).
  - One value; tombstones tell the versions apart.
  - One iterator in the passing run, two in the violation runs.
  - `InWALOrder` is TRUE only in the snapshot run. There each record is numbered above every record already in the table, as a primary's own Puts are. The other runs also allow out-of-order and shared numbers (replication, recovery, batches).
- **Recovery.**
  - Up to 5 entries in up to 2 segments.
  - Memtables of 2 records with MaxMemTables = 2, so both rotation and the overflow error occur.
  - The passing run restarts with the defaults or with a caller's MaxSequenceNumber = 4, so the skip branch fires.
- **TxManager.**
  - 3 clients, which is the least needed for two overlapping readers and a waiting writer.
  - Counters are 0 bits in the passing run, where no property reads them, and 3 bits in the stats run, so 3 open transactions differ from a wrapped −1.
- **Storage.**
  - 2 writers, one key, 2 writes, up to 4 WAL files, a pool of 1, memtables of 1 record and one crash (234k states, about 36 s). With those sizes some restarts replay more WAL records than MaxMemTables memtables hold, so both outcomes of `CrashRestart` occur. This reaches a rotation with a writer on each side of it, a flush that deletes a WAL, a crash after a flush, and a write in flight across all of these. A second key adds nothing: the properties are per key.
  - The seq-reuse run needs one write, 3 WAL files and one crash; it uses writer symmetry, since it checks no liveness.
  - The recovery-full run needs a pool of 2, memtables of 1 record, 3 writes and 4 WAL files, so that after one rotation the pool fills and the mutable memtable holds a third write; it uses writer symmetry.

### Fairness

TxManager and Storage state liveness. TxManager's fairness assumptions and their justification:

- **Claiming the end of a transaction that holds the lock: weak fairness.** The client commits or rolls back, or the registry rolls the transaction back when its TTL expires (spec §4.6, §5).
- **`Finish` once an end is claimed, and `StoragePutDone` for a put inside the lock: weak fairness.** Both are straight-line code in their goroutine.
- **The writer's `Drained` step: weak fairness.**
- **`AcquireW` (taking the writer mutex): strong fairness.** Go's `sync.Mutex` hands the lock to a waiter that has starved for 1 ms.

The monitor, BeginTransaction and StoragePut are not fair: nobody has to call them.

Storage: a writer goroutine's next step (`WALAppend`, `InsertMemTable`) is weakly fair, since a goroutine that can run does; a rotation once begun is weakly fair in its later steps, since they are straight-line code under the manager lock. Starting a Put, a rotation or a flush, and crashing, are not required.

Deadlock checking is off only in the MemTable, Recovery and Storage runs, whose models reach a state where nothing is left to do:

- MemTable: a frozen table, with its finite inputs exhausted, accepts no change.
- Recovery: the replay ends, and recovery has returned.
- Storage: with the write bound reached and the pool full, nothing is left but a flush, and after it nothing.

The WAL and TxManager runs check deadlock: a WAL can always be synced, rotated or closed, and a client can always begin a transaction.

WriteBatch's error branch, where a batch entry is too large for writeRecord, cannot occur in the passing `wal` run without breaking NextSeqAboveLog. That is the `wal_partial_batch` finding, and that run exercises the branch.

## 4. Observations without a run

- **Stale read across rotation.** In `Storage`, a Put's append and its memtable insert are separate steps. If `rotate_wal` runs between them, an older write can land in a newer memtable than a later acknowledged write of its key, and shadow it on reads. The manager's put is not present, and spec §4.5 does not say whether it holds a lock from append to insert, so this is a hazard, not a finding.
- **ErrWALClosed on Put.** A Put that loaded `current_wal` before a whole rotation finished gets ErrWALClosed, not the retryable ErrWALRotating. PutReturns still holds. But spec §4.5 says a put during rotation appends or returns WALRotating, and `TestWALRotationStress` (`part_000`, line 300) fails on any other write error. The manager's put is modelled from the spec, so this is not stated as a finding about the code.
- **`GetNextSequenceNumber`** (`memtable.go`) lags one behind the highest number written after consecutive Puts, against its doc comment ("returns the next sequence number to use"). It has no caller in the sources; the lag matters through `NewIterator`'s snapshot, which `memtable_snapshot` shows.
- **Observers hear of an entry before it is durable.** Every append path calls `notifyEntryObservers` or `notifyBatchObservers` before `maybeSync`. A crash in between leaves a replica with an entry the primary's WAL lost, and the restarted primary reassigns its number. Multi-node replication is a non-goal of the spec (§1), so no run states it.
- **Segment names and a clock step back.** `NewSegment` names a file after the wall clock and recovery replays files in name order. If the clock steps back, an older write is replayed after a newer one and shadows it. Setting `ClockStepsBack = TRUE` in `MC_Recovery.cfg` makes TLC violate RecoveredReadsLastWrite. The passing run keeps the clock monotone, because a step back is a fault of the host, not of the code.
- **`TestSequenceNumberOverflowBatch`** (`overflow_test.go`) sets `nextSequence` to MaxSequenceNumber − 5 and expects a 6-entry `AppendBatch` to fail with ErrSequenceOverflow. The code gives a batch one shared number and checks only `nextSequence >= MaxSequenceNumber` (line 1467), so that batch succeeds and the test disagrees with the code, not the spec (§4.6: a batch shares one number). The `wal` model follows the code.
- **Properties the model cannot break.** Close's flush-then-fsync, the compare-and-swap on `tx.active`, the skip list's newest-first lookup and WAL deletion after persistence are one guarded step each in the model. Close's is one assignment under `w.mu`; the others are modelled from the spec, since `TransactionImpl`, `skiplist.go` and the manager's deletion policy are not in the sources. A property over them would restate the step, so no run states one.
- **AppendExactBytes at the largest sequence number** wraps `nextSequence` to 0. A primary never assigns that number, so the `wal` run's sequence set stops below it.

## 5. Plan for further work

1. **Crash points inside the WAL.** A crash between the WAL write and the fsync in the composition, so that `Storage` uses `WAL`'s buffering instead of durable-on-return.
2. **Abstract KV spec and refinement.** A map from keys to their last write. Show MemTable+Recovery through `INSTANCE ... WITH` mapping `ReadNewestFirst`, and the WAL log to the abstract history.
3. **Transaction write path.** Tie a committed RW transaction to one `AppendBatch`, and compose `TxManager`'s `StoragePut` with `Storage`'s Put so that a put's WAL append and insert happen inside its read lock.
4. **Sync notifications.** `notifySyncObservers(nextSequence - 1)` after each fsync, next to the entry notifications `WAL` already records.

## 6. Not modelled

- **SSTable reader and writer.** Only tests are present. The header and delta-encoding validation is arithmetic that those tests cover.
- **Skip list internals** (levels, size accounting). Only the order it maintains is modelled.
- **WAL replay's fragment reassembly and CRC checks.** `ReplayWALDir` is not present.
- **`version.go` and the Makefile.** These are constants and build rules.
- **Observers' own work, statistics collectors and logging.** They only receive calls; which entries observers receive is modelled in `WAL`.
