SPECIFICATION FairSpec
CONSTANTS
  Buffers = {b1, b2, b3}
  Gap = Gap
  NoBuffer = NoBuffer
INVARIANTS
  NoMutualWait
  FullOnlyWithGaps
  OkMeansComplete
  WriterErrorWins
  IInv
PROPERTIES
  JoinReturns
