--------------------------- MODULE MC_RcSpeedTest ---------------------------
EXTENDS RcSpeedTest

\* two ranks: the state space of three (a meta from any of two peers) is
\* beyond a five-minute run (over ten million states at max_gap 1)
MC_Nodes == {1, 2}

\* max_gap 320 scaled to 3: the queues and the stream hold several metas at once
MC_MaxGap == 3

\* meta_queue_ of 32 entries scaled to 2 (below max_gap), so that Push
\* spins on a full queue
MC_MetaCap == 2
=============================================================================
