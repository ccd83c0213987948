\* Two writers, rotations, flushes and one crash, over one key.
CONSTANTS
  w1 = w1
  w2 = w2
  Writers <- MC_Writers
  Keys = {1}
  MaxMemTables = 1
  MemTableSize = 1
  MaxOps = 2
  MaxWALs = 4
  MaxCrashes = 1
  None = None
SPECIFICATION Spec
INVARIANT TypeOK
PROPERTY PutReturns
CHECK_DEADLOCK FALSE
