\* A quiescent engine, its pool full and its mutable memtable holding a write,
\* crashes: RecoverFromWAL under the engine's own MaxMemTables and MemTableSize.
CONSTANTS
  w1 = w1
  w2 = w2
  Writers <- MC_Writers
  Keys = {1}
  MaxMemTables = 2
  MemTableSize = 1
  MaxOps = 3
  MaxWALs = 4
  MaxCrashes = 1
  None = None
SPECIFICATION Spec
INVARIANT RecoveryFits
CHECK_DEADLOCK FALSE
SYMMETRY MC_Symmetry
