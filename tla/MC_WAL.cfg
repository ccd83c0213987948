\* Every append path, sync, close, rotation status changes and restart
\* with a recovered sequence number, under each of the three sync modes.
CONSTANTS
  SeqWidth = 3
  Margin = 1
  WarnMargin = 3
  BufferSize = 2
  SyncModes = {"SyncNone", "SyncBatch", "SyncImmediate"}
  WALSyncBytes = 2
  EntrySizes <- MC_EntrySizes
  BatchShapes <- MC_BatchShapes
  ReplicaSeqs <- MC_ReplicaSeqs
  ExactSeqs <- MC_ExactSeqs
  RecoveredSeqs <- MC_RecoveredSeqs
  MaxCalls = 3
  None = None
SPECIFICATION Spec
INVARIANT TypeOK
INVARIANT NextSeqAboveLog
INVARIANT AckedDurable
INVARIANT BatchNotSplitByFlush
INVARIANT ObserversSeeLog
