CONSTANTS
  InitSize <- MC_InitSize
  MaxSize <- MC_MaxSize
  W <- MC_W
  CtzlZero <- MC_CtzlZero
  Uint32Mod <- MC_Uint32Mod
SPECIFICATION Spec
INVARIANT
  SerializeCheckHolds
