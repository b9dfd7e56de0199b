---------------------- MODULE MC_ConnLifecycleTeardown ----------------------
EXTENDS ConnLifecycle

\* two communicators that connect, exchange metas and remove the connection,
\* as TestMLTApp::Finalize does for every peer
MC_Nodes == {1, 2}
=============================================================================
