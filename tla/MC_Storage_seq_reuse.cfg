\* Sequence numbers after a restart: one write, a rotation, a flush that deletes the old WAL file, a crash.
CONSTANTS
  w1 = w1
  w2 = w2
  Writers <- MC_Writers
  Keys = {1}
  MaxMemTables = 1
  MemTableSize = 2
  MaxOps = 1
  MaxWALs = 3
  MaxCrashes = 1
  None = None
SPECIFICATION Spec
INVARIANT NextSeqAboveDisk
CHECK_DEADLOCK FALSE
SYMMETRY MC_Symmetry
