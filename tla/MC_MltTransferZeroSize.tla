--------------------- MODULE MC_MltTransferZeroSize ---------------------
(* A message of size 0: GetMaxSeqNum(0) is (PayloadBound - 1) / PayloadBound *)
(* - 1, which wraps to the largest uint32_t, and a single datagram with no   *)
(* payload carries the FlowFinish.  Nothing is lost.                         *)
EXTENDS MltTransfer

MC_Msgs == {1}
MC_Size == 0
MC_PayloadBound == 2
MC_ElemSize == 2
MC_LossNum == 1
MC_LossDen == 5
MC_MaxLoss == 0
MC_BacklogSlots == 0
MC_Uint32Mod == 256
=============================================================================
