CONSTANTS
  SeqWidth = 3
  Margin = 1
  WarnMargin = 3
  BufferSize = 2
  SyncModes = {"SyncImmediate"}
  WALSyncBytes = 2
  EntrySizes <- MC_EntrySizes
  BatchShapes <- MC_RawBatchShapes
  ReplicaSeqs <- MC_ReplicaSeqs
  ExactSeqs <- MC_ExactSeqs
  RecoveredSeqs <- MC_RecoveredSeqs
  MaxCalls = 3
  None = None
SPECIFICATION Spec
INVARIANT NextSeqAboveLog
