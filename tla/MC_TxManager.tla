---------------------------- MODULE MC_TxManager ----------------------------
(***************************************************************************)
(* Model-checking instance of TxManager: three clients, so two readers can *)
(* overlap while a writer waits; counters 3 bits wide, so they wrap and    *)
(* a count of 3 open transactions is still told apart from a wrapped -1.   *)
(***************************************************************************)
EXTENDS TxManager, TLC

CONSTANTS c1, c2, c3

MC_Clients == {c1, c2, c3}

\* Clients are interchangeable in BeginTransaction and the lock.
MC_Symmetry == Permutations(MC_Clients)
=============================================================================
