---------------------------- MODULE MC_SpscQueue ----------------------------
EXTENDS SpscQueue

\* count 3 rounds up to a ring of four slots
MC_Count == 3
\* 3-bit counters: head_ and tail_ wrap after eight pushes
MC_SizeMod == 8
\* one more value than slots, so a full ring holds distinct values
MC_NVals == 5
=============================================================================
