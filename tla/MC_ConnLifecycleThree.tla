----------------------- MODULE MC_ConnLifecycleThree -----------------------
EXTENDS ConnLifecycle

\* three communicators in the UDP_SIMPLE mode (no meta exchange, see the
\* cfg): node 2 is passive towards 1 and active towards 3,
\* and holds two connections in conn_metas_
MC_Nodes == {1, 2, 3}
=============================================================================
