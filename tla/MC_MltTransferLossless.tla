---------------------- MODULE MC_MltTransferLossless ----------------------
(* Scenario S1 of the specification at reduced size: one message of 5 bytes *)
(* (datagrams of 2, 2 and 1 bytes), loss_ratio 1/5, and a network that       *)
(* drops nothing.                                                            *)
EXTENDS MltTransfer

MC_Msgs == {1}
MC_Size == 5
MC_PayloadBound == 2
MC_ElemSize == 2
MC_LossNum == 1
MC_LossDen == 5
MC_MaxLoss == 0
MC_BacklogSlots == 0
MC_Uint32Mod == 256
=============================================================================
