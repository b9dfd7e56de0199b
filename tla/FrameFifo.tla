------------------------------ MODULE FrameFifo ------------------------------
(***************************************************************************)
(* What one direction of a reliable connection promises the two reliable   *)
(* threads: the frames the sender routes are handed to the receiver's      *)
(* HandleReceivedData whole, in order, none twice.  A sender that closes   *)
(* early may leave a suffix undelivered, so nothing forces delivery here.  *)
(***************************************************************************)
EXTENDS Naturals, Sequences

CONSTANT Frames   \* what a frame may be (here: its payload length)

VARIABLES
  routedQ,   \* the frames routed to the connection, in order
  handed     \* the frames handed to the receiver, in order

vars == <<routedQ, handed>>

Init ==
  /\ routedQ = <<>>
  /\ handed = <<>>

Route(f) ==
  /\ routedQ' = Append(routedQ, f)
  /\ UNCHANGED handed

Hand ==
  /\ Len(handed) < Len(routedQ)
  /\ handed' = Append(handed, routedQ[Len(handed) + 1])
  /\ UNCHANGED routedQ

Next == (\E f \in Frames : Route(f)) \/ Hand

Spec == Init /\ [][Next]_vars
=============================================================================
