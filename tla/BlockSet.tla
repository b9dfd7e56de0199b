------------------------------ MODULE BlockSet ------------------------------
(***************************************************************************)
(* What a gap tracker (BlockMgr, src/src/mlt/block_mgr.h) promises to its  *)
(* callers: it holds a size and the set of sequence numbers of [0, size)   *)
(* taken so far.  Resize only grows the range and keeps every earlier      *)
(* Take; Take adds exactly the one number it is given.  The tree and the   *)
(* bitmap implementations are both checked against this specification.    *)
(* Record is the use LtMessageExt::CopyGradients makes of a tracker.       *)
(***************************************************************************)
EXTENDS Naturals

CONSTANTS
  InitSize,   \* size passed to the constructor
  MaxSize     \* largest size a Resize may ask for (model bound)

VARIABLES size, taken

vars == <<size, taken>>

Missing == (0 .. size - 1) \ taken

Init ==
  /\ size = InitSize
  /\ taken = {}

Resize(n) ==
  /\ n > size
  /\ size' = n
  /\ UNCHANGED taken

\* Record s: the range grows to include s if needed, and s is taken
Record(s) ==
  /\ size' = IF s >= size THEN s + 1 ELSE size
  /\ taken' = taken \cup {s}

Next ==
  \/ \E n \in size + 1 .. MaxSize : Resize(n)
  \/ \E s \in 0 .. MaxSize - 1 : Record(s)

Spec == Init /\ [][Next]_vars
=============================================================================
