--------------------- MODULE MC_MltTransferBoundZero ---------------------
(* A one-byte message posted with loss_ratio 4/5: size * (1 - loss_ratio)  *)
(* truncates to 0, so the bound is AlignUp(2, 0) = 0, and its only          *)
(* datagram may be lost.                                                     *)
EXTENDS MltTransfer

MC_Msgs == {1}
MC_Size == 1
MC_PayloadBound == 2
MC_ElemSize == 2
MC_LossNum == 4
MC_LossDen == 5
MC_MaxLoss == 1
MC_BacklogSlots == 0
MC_Uint32Mod == 256
=============================================================================
