\* Puts and Deletes numbered in WAL order, NewIterator between them: does a
\* snapshot iterator stay unchanged by the writes after it?  A frozen table
\* accepts no change and the inputs are finite, so deadlock is not an error.
CONSTANTS
  Keys = {1, 2}
  v1 = v1
  Values <- MC_Values
  SeqWidth = 2
  Seqs <- MC_Seqs
  InWALOrder = TRUE
  MaxIterators = 2
  None = None
SPECIFICATION Spec
CHECK_DEADLOCK FALSE
INVARIANT SnapshotStable
