----------------------------- MODULE MC_MemTable -----------------------------
(***************************************************************************)
(* Model-checking instance of MemTable: two keys, one value, sequence     *)
(* numbers 2 bits wide (MaxUint = 3), at most two iterators.  Two keys with *)
(* three sequence numbers give every interleaving of out-of-order Puts and *)
(* Deletes of one key next to another key's records.                       *)
(***************************************************************************)
EXTENDS MemTable

CONSTANTS v1

MC_Values == {v1}

\* Callers numbering from the WAL, which starts at 1.
MC_Seqs == {1, 2, 3}
=============================================================================
