-------------------------- MODULE MC_UdpSimpleTest --------------------------
EXTENDS UdpSimpleTest

\* three ranks: the root and two others, so that a node can leave a
\* Barrier before another non-root node has entered it
MC_Nodes == {1, 2, 3}
=============================================================================
