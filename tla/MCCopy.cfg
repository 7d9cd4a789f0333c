SPECIFICATION FairBackSpec
CONSTANTS
  Jobs <- CopyJobs
  Buffers = {b1, b2}
  Gap = Gap
  NoBuffer = NoBuffer
  Faults = {"read", "write", "sync", "main", "panic"}
  Decay = {"image", "medium"}
  Page = 3
  MaxOffset = 8
INVARIANTS
  TypeOK
  ImageDelivered
  ChecksumsHonoured
  OnlyAscendingSucceeds
  AccountingExact
  WholeBlocksWritten
  EndReportedOnce
  ClearedIsClean
  OutsideUntouched
  UnsyncedDataBounded
  FileLengthExact
  ReadBackSound
  ReadBackConfirms
PROPERTIES
  OpsTileImage
  ThreadsImplemented
  CopyReturns
