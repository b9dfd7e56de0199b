-------------------------- MODULE MC_ConnLifecycle --------------------------
EXTENDS ConnLifecycle

\* two communicators: 1 connects actively to 2, 2 accepts
MC_Nodes == {1, 2}
=============================================================================
