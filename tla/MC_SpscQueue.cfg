CONSTANTS
  Count <- MC_Count
  SizeMod <- MC_SizeMod
  NVals <- MC_NVals
SPECIFICATION Spec
INVARIANTS
  TypeOK
  NoDataRace
PROPERTIES
  ImplementsBoundedFifo
  PushReturns
