SPECIFICATION CommandSpec
CONSTANTS
  Images <- PunchedImages
  Calls <- FileCalls
  Earlier <- AnyEarlier
  MaxLen = 5
INVARIANTS
  OffsetRestored
