\* Concurrent Put/Delete, SetImmutable and NewIterator on one memtable.
\* A frozen table accepts no change and the inputs are finite, so the
\* model stops: deadlock is not an error here.
CONSTANTS
  Keys = {1, 2}
  v1 = v1
  Values <- MC_Values
  SeqWidth = 2
  Seqs <- MC_Seqs
  InWALOrder = FALSE
  MaxIterators = 2
  None = None
SPECIFICATION Spec
CHECK_DEADLOCK FALSE
INVARIANT ImmutableFrozen
