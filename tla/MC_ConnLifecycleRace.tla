------------------------ MODULE MC_ConnLifecycleRace ------------------------
EXTENDS ConnLifecycle

\* one pair: node 1 connects, node 2 accepts
MC_Nodes == {1, 2}
=============================================================================
