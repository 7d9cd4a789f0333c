SPECIFICATION BackSpec
CONSTANTS
  Jobs <- StreamTooLong
  Buffers = {b1, b2}
  Gap = Gap
  NoBuffer = NoBuffer
  Faults = {}
  Decay = {}
  Page = 3
  MaxOffset = 8
INVARIANTS
  SizeCheckedBeforeWriting
