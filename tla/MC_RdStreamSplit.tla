------------------------- MODULE MC_RdStreamSplit -------------------------
(* One frame of payload 1: the socket or TCP hands the receiver part of   *)
(* its 4-byte length prefix, and OnRecvReady reads the part.              *)
EXTENDS RdStream

MCPayloads == <<1>>
============================================================================
