------------------------------ MODULE MemTable ------------------------------
(***************************************************************************)
(* One memtable (memtable.go) shared by concurrent writers, readers and    *)
(* the goroutine that freezes it.                                          *)
(*                                                                         *)
(* Put and Delete hold m.mu for their whole body, so the writers are       *)
(* serialised and modelled by one lock holder, `writer`: a Put takes the   *)
(* lock and checks the immutable flag in one step, and inserts and raises  *)
(* nextSeqNum in a second step.  SetImmutable stores the atomic flag       *)
(* without taking m.mu, so it can fall between the two steps.  NewIterator *)
(* on a mutable table reads nextSeqNum under the read lock, i.e. only when *)
(* no writer holds m.mu.  Get and Contains change nothing; they are the    *)
(* operators Get and Contains, evaluated in any state.                     *)
(*                                                                         *)
(* Ghost state: frozen, the contents when the flag was set, and            *)
(* iterators, what each iterator saw when it was created.                  *)
(***************************************************************************)
EXTENDS Integers, Sequences, SkipList

CONSTANTS
  Keys,         \* user keys, naturals in byte order
  Values,       \* values a Put may carry
  SeqWidth,     \* width of the uint64 sequence numbers, scaled down
  Seqs,         \* sequence numbers callers pass to Put and Delete
  MaxIterators, \* bound on NewIterator calls
  InWALOrder,   \* TRUE: every record is numbered above those already in the table
  None          \* no lock holder / no snapshot / no record

ASSUME Seqs \subseteq 0..(2^SeqWidth - 1)

SeqNums == 0..(2^SeqWidth - 1)
Record == InternalRecord(Keys, SeqNums, Values \cup {None})

VARIABLES
  skipList,    \* m.skipList, bottom level in comparator order
  nextSeqNum,  \* m.nextSeqNum
  immutable,   \* m.immutable
  writer,      \* record of the Put/Delete holding m.mu, or None
  frozen,      \* ghost: skipList when immutable was first set, or None
  iterators    \* ghost: <<[snap, seen]>> per NewIterator call

vars == <<skipList, nextSeqNum, immutable, writer, frozen, iterators>>

-----------------------------------------------------------------------------
\* newEntry(key, value, type, seqNum)
newEntry(key, value, type, seqNum) ==
  [key |-> key, seq |-> seqNum, kind |-> type, value |-> value]

\* Get: (value, true) for a value, (nil, true) for a tombstone,
\* (nil, false) when the key is absent; nil is None.
Get(key) ==
  LET e == Find(skipList, key, None)
  IN CASE e = None               -> [value |-> None, found |-> FALSE]
       [] e.kind = "Deletion"    -> [value |-> None, found |-> TRUE]
       [] OTHER                  -> [value |-> e.value, found |-> TRUE]

\* Contains: the key has a record, value or tombstone.
Contains(key) == Find(skipList, key, None) # None

\* The WAL's duplicate-free numbering: callers never give one key two
\* records with the same sequence number (spec 3, Sequence number).
FreshFor(key, seqNum) ==
  /\ \A i \in 1..Len(skipList) :
        skipList[i].key = key => skipList[i].seq # seqNum

\* A primary applying its own appends one at a time (Put, Delete): each
\* record's number is one the WAL assigned after all earlier ones (spec 3,
\* 4.5).  Without it, records arrive in any order and a batch's entries
\* share one number (replication, recovery, spec 4.6 commit).
InOrder(seqNum) ==
  InWALOrder => \A i \in 1..Len(skipList) : skipList[i].seq < seqNum

-----------------------------------------------------------------------------
(***************************************************************************)
(* Put / Delete, first step: m.mu.Lock(); if m.IsImmutable() return.       *)
(* The early return releases the lock again and changes nothing.           *)
(***************************************************************************)
LockAndCheck(e) ==
  /\ writer = None
  /\ FreshFor(e.key, e.seq)
  /\ InOrder(e.seq)
  /\ IF immutable THEN UNCHANGED writer ELSE writer' = e
  /\ UNCHANGED <<skipList, nextSeqNum, immutable, frozen, iterators>>

Put(key, value, seqNum) == LockAndCheck(newEntry(key, value, "Value", seqNum))

Delete(key, seqNum) == LockAndCheck(newEntry(key, None, "Deletion", seqNum))

(***************************************************************************)
(* Put / Delete, second step: m.skipList.Insert(e); if seqNum > the loaded *)
(* nextSeqNum store seqNum + 1 (uint64, so it wraps); unlock.              *)
(***************************************************************************)
InsertLocked ==
  /\ writer # None
  /\ skipList' = Insert(skipList, writer)
  /\ nextSeqNum' = IF writer.seq > nextSeqNum
                     THEN (writer.seq + 1) % (2^SeqWidth) ELSE nextSeqNum
  /\ writer' = None
  /\ UNCHANGED <<immutable, frozen, iterators>>

\* SetImmutable: m.immutable.Store(true), without m.mu.
SetImmutable ==
  /\ immutable' = TRUE
  /\ frozen' = IF immutable THEN frozen ELSE skipList
  /\ UNCHANGED <<skipList, nextSeqNum, writer, iterators>>

(***************************************************************************)
(* NewIterator: an immutable table gives an iterator over the live list;   *)
(* a mutable one reads nextSeqNum under RLock and gives a snapshot         *)
(* iterator that skips records with seq > snapshot.                       *)
(***************************************************************************)
NewIterator ==
  /\ Len(iterators) < MaxIterators
  /\ \/ /\ immutable
        /\ iterators' = Append(iterators, [snap |-> None, seen |-> skipList])
     \/ /\ ~immutable
        /\ writer = None
        /\ iterators' = Append(iterators,
              [snap |-> nextSeqNum,
               seen |-> SnapshotView(skipList, nextSeqNum)])
  /\ UNCHANGED <<skipList, nextSeqNum, immutable, writer, frozen>>

\* What iterator it yields if it is read now.
View(it) == IF it.snap = None THEN skipList ELSE SnapshotView(skipList, it.snap)

-----------------------------------------------------------------------------
\* NewMemTable: empty list, nextSeqNum 0, mutable.
Init ==
  /\ skipList = << >>
  /\ nextSeqNum = 0
  /\ immutable = FALSE
  /\ writer = None
  /\ frozen = None
  /\ iterators = << >>

Next ==
  \/ \E k \in Keys, v \in Values, s \in Seqs : Put(k, v, s)
  \/ \E k \in Keys, s \in Seqs : Delete(k, s)
  \/ InsertLocked
  \/ SetImmutable
  \/ NewIterator

Spec == Init /\ [][Next]_vars

-----------------------------------------------------------------------------
TypeOK ==
  /\ skipList \in Seq(Record)
  /\ nextSeqNum \in SeqNums
  /\ immutable \in BOOLEAN
  /\ writer \in Record \cup {None}
  /\ frozen \in Seq(Record) \cup {None}
  \* the skip list's representation: keys ascending, a key's numbers descending
  /\ \A i \in 1..Len(skipList) - 1 :
       \/ skipList[i].key < skipList[i + 1].key
       \/ skipList[i].key = skipList[i + 1].key /\ skipList[i].seq >= skipList[i + 1].seq

(***************************************************************************)
(* Once SetImmutable has been called the contents never change: "all      *)
(* mutations performed after must be no-ops" (spec 3), which is what lets *)
(* Get, Contains and NewIterator read an immutable table without m.mu.    *)
(***************************************************************************)
ImmutableFrozen == immutable => skipList = frozen

(***************************************************************************)
(* A snapshot iterator of a mutable memtable is protected from later      *)
(* writes (spec 4.2 new_iterator): what it yields never changes after     *)
(* NewIterator captured nextSeqNum.                                        *)
(***************************************************************************)
SnapshotStable ==
  \A i \in 1..Len(iterators) :
    iterators[i].snap # None => View(iterators[i]) = iterators[i].seen
=============================================================================
