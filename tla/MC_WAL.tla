------------------------------- MODULE MC_WAL -------------------------------
(***************************************************************************)
(* Model-checking instances of WAL.  Sequence numbers are 3 bits wide:     *)
(* MaxUint = 7, MaxSequenceNumber = 6, SequenceWarningThreshold = 4, so    *)
(* the overflow check, the warning and the uint64 wrap are all reachable   *)
(* within a few calls.  The writer holds 2 records, so a Large entry or a  *)
(* 3-entry batch overflows it.                                             *)
(***************************************************************************)
EXTENDS WAL


MC_EntrySizes == {Small, Large}

\* Batches as Batch.Write submits them: every entry fits in one record.
MC_BatchShapes == {<< >>, <<Small, Small>>, <<Small, Small, Small>>}

\* Batches submitted straight to AppendBatch, one with an oversized entry.
MC_RawBatchShapes == {<<Small, Small>>, <<Small, Large>>}

MC_ReplicaSeqs == {2, 6}

\* A primary enforcing MaxSequenceNumber never ships a larger number.
MC_ExactSeqs == {1, 5}

MC_RecoveredSeqs == {4, 6}
=============================================================================
