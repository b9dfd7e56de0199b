CONSTANTS
  Msgs <- MC_Msgs
  Size <- MC_Size
  PayloadBound <- MC_PayloadBound
  ElemSize <- MC_ElemSize
  LossNum <- MC_LossNum
  LossDen <- MC_LossDen
  MaxLoss <- MC_MaxLoss
  BacklogSlots <- MC_BacklogSlots
  Uint32Mod <- MC_Uint32Mod
SPECIFICATION Spec
INVARIANTS
  TypeOK
  SenderChecksHold
  ReceiverChecksHold
  CompletionsOnce
  BytesMatchTracker
  RecvCompletionMeetsBound
PROPERTIES
  TransferCompletes
