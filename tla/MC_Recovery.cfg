\* Write a WAL (appends, batches, rotations), restart, replay it.
\* Recovery ends, so the model stops: deadlock is not an error here.
CONSTANTS
  Keys = {1, 2}
  SeqWidth = 3
  CallerOptions <- MC_CallerOptions
  MemTableSize = 2
  MaxMemTables = 2
  MaxEntries = 5
  MaxSegments = 2
  ClockStepsBack = FALSE
  None = None
SPECIFICATION Spec
CHECK_DEADLOCK FALSE
INVARIANT TypeOK
INVARIANT RecoveredReadsLastWrite
INVARIANT ResumeAboveWAL
