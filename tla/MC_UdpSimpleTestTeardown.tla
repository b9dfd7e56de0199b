---------------------- MODULE MC_UdpSimpleTestTeardown ----------------------
EXTENDS UdpSimpleTest

\* two ranks: the root and one other node, enough for the last Barrier's
\* reply to meet the other node's Finalize
MC_Nodes == {1, 2}
=============================================================================
