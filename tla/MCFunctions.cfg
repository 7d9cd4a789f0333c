CONSTANTS
  MaxCells = 8
  MaxRanges = 3
  MaxEnd = 7
  BlockSizes = {1, 2, 3, 4}
  Maps <- SmallMaps
  Damages <- OneDamage
  Parts = {"", "core", "wic", "gz"}
  MaxParts = 4
  Byte = {31, 139, 8}
  MaxBytes = 5
SPECIFICATION Spec
INVARIANTS
  SpansAreMaximalRuns
  BlocksRoundOutward
  DamageNoticed
  AcceptedIsUsable
  MapFoundAgain
  OpenedFromStart
