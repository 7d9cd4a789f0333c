SPECIFICATION MCSpec
CONSTANTS
  Images <- BothImages
  Calls <- AllCalls
  Earlier <- AnyEarlier
  MaxLen = 5
INVARIANTS
  TypeOK
  MapExact
  SumsMatchImage
  MapAccepted
  SurvivingDataMapped
  PositionAgrees
  ReadOnce
  TornMapRefused
PROPERTIES
  CreateReturns
