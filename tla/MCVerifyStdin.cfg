SPECIFICATION BackSpec
CONSTANTS
  Jobs <- FromStdin
  Buffers = {b1, b2}
  Gap = Gap
  NoBuffer = NoBuffer
  Faults = {}
  Decay = {}
  Page = 3
  MaxOffset = 8
INVARIANTS
  VerifiedIsCompared
