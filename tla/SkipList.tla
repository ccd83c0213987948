------------------------------ MODULE SkipList ------------------------------
(***************************************************************************)
(* The ordered multi-version map under a memtable (spec 4.1; skiplist.go   *)
(* is not among the sources).  The levels of the skip list only speed up   *)
(* the search, so the list is modelled by its bottom level: a sequence of  *)
(* internal records kept in comparator order.                              *)
(*                                                                         *)
(* Keys are naturals, ordered as the byte strings they stand for.          *)
(***************************************************************************)
EXTENDS Integers, Sequences

LOCAL SE == INSTANCE SequencesExt

\* An internal record (spec 3): key, kind, sequence number, value.
\* kind is "Value" (TypeValue) or "Deletion" (TypeDeletion).
InternalRecord(K, S, V) ==
  [key : K, seq : S, kind : {"Value", "Deletion"}, value : V]

\* Mutant: the sequence numbers of one key compared in ascending order.
CompareSeqAscending(a, b) ==
  CASE a.key < b.key -> -1
    [] a.key > b.key -> 1
    [] a.seq < b.seq -> -1
    [] a.seq > b.seq -> 1
    [] OTHER         -> 0

(***************************************************************************)
(* The comparator (spec 4.1): keys ascending, then sequence numbers        *)
(* descending, so the newest version of a key comes first.                 *)
(***************************************************************************)
Compare(a, b) ==
  CASE a.key < b.key -> -1
    [] a.key > b.key -> 1
    [] a.seq > b.seq -> -1
    [] a.seq < b.seq -> 1
    [] OTHER         -> 0

(***************************************************************************)
(* Insert: the search stops before the first record that does not compare *)
(* below the new one, and the new record is spliced in there.              *)
(***************************************************************************)
Insert(list, e) ==
  LET i == SE!SelectInSeq(list, LAMBDA x : Compare(x, e) >= 0)
  IN IF i = 0 THEN Append(list, e) ELSE SE!InsertAt(list, i, e)

(***************************************************************************)
(* Find: seek to the first record not below (key, +infinity); it is the    *)
(* key's newest version when its key matches, otherwise the key is absent. *)
(***************************************************************************)
Find(list, k, NoRecord) ==
  LET i == SE!SelectInSeq(list, LAMBDA x : x.key >= k)
  IN IF i # 0 /\ list[i].key = k THEN list[i] ELSE NoRecord

\* NewIteratorWithSnapshot: the records an iterator with snapshot snap
\* yields, in order; records with seq > snap are skipped.
SnapshotView(list, snap) == SelectSeq(list, LAMBDA r : r.seq <= snap)
=============================================================================
