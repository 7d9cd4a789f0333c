SPECIFICATION BackSpec
CONSTANTS
  Jobs <- OddBatch
  Buffers = {b1, b2}
  Gap = Gap
  NoBuffer = NoBuffer
  Faults = {}
  Decay = {}
  Page = 3
  MaxOffset = 8
INVARIANTS
  WholeBlocksWritten
