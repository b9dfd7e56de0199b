CONSTANTS
  Msgs <- MC_Msgs
  Size <- MC_Size
  PayloadBound <- MC_PayloadBound
  ElemSize <- MC_ElemSize
  LossNum <- MC_LossNum
  LossDen <- MC_LossDen
  MaxLoss <- MC_MaxLoss
  BacklogSlots <- MC_BacklogSlots
  Uint32Mod <- MC_Uint32Mod
SPECIFICATION Spec
\* the threads idle once the flow is abandoned; the hang is the subject
CHECK_DEADLOCK FALSE
PROPERTY
  TransferCompletes
