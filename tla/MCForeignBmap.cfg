SPECIFICATION BackSpec
CONSTANTS
  Jobs <- ForeignBmap
  Buffers = {b1, b2}
  Gap = Gap
  NoBuffer = NoBuffer
  Faults = {}
  Decay = {}
  Page = 3
  MaxOffset = 8
INVARIANTS
  ForeignBmapCaught
