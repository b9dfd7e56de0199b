---------------------------- MODULE MC_RdStream ----------------------------
(* Four frames of payload 2, 1, 2, 1 through sockets that hold 8 bytes:  *)
(* a header is 4 bytes, so writes, segments and reads split headers and   *)
(* payloads at every offset, and one frame and part of the next can be   *)
(* in flight while a third is queued.                                     *)
EXTENDS RdStream

MCPayloads == <<2, 1, 2, 1>>
============================================================================
