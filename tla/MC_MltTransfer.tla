--------------------------- MODULE MC_MltTransfer ---------------------------
(* One message of 5 bytes in datagrams of 2, 2 and 1 payload bytes, posted  *)
(* with loss_ratio 1/5: the bound is AlignUp(2, 4) = 4, so losing the       *)
(* last datagram is tolerated and losing any other forces a retransmit.     *)
EXTENDS MltTransfer

MC_Msgs == {1}
MC_Size == 5
MC_PayloadBound == 2
MC_ElemSize == 2
MC_LossNum == 1
MC_LossDen == 5
\* two drops: enough for a loss in the first pass and another in a retransmit
MC_MaxLoss == 2
\* MLT_DISABLE_FLOW_BACKLOG defaults to 1: no backlog segments
MC_BacklogSlots == 0
\* uint32_t reduced to 8 bits (TLC integers are 32-bit signed)
MC_Uint32Mod == 256
=============================================================================
