----------------------------- MODULE MC_Recovery -----------------------------
(***************************************************************************)
(* Model-checking instance of Recovery.  Up to five entries in up to two   *)
(* segments, memtables of two records: two memtables hold four records, a *)
(* fifth needs a third.  Recovery runs with DefaultRecoveryOptions or with *)
(* a caller's options limiting recovery to sequence number 4.             *)
(***************************************************************************)
EXTENDS Recovery

MC_CallerOptions == {[MaxSequenceNumber |-> 4, MaxMemTables |-> 2, MemTableSize |-> 2]}
=============================================================================
