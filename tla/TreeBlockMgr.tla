---------------------------- MODULE TreeBlockMgr ----------------------------
(***************************************************************************)
(* TreeBlockMgr (src/src/mlt/tree_block_mgr.h) as a state machine: its     *)
(* members tree_, size_ and used_ and the two ways the receiver mutates it:*)
(* Resize to a larger size (ReceivingChannel::FinishFlow) and the          *)
(* Resize/Check/Take sequence of LtMessageExt::CopyGradients.              *)
(* It is shown to implement BlockSet.                                       *)
(***************************************************************************)
EXTENDS Naturals, FiniteSets, Sequences, TreeBlocks

CONSTANTS
  InitSize,   \* constructor argument (0 in LtMessageExt)
  MaxSize     \* bound on the sizes Resize is called with

VARIABLES
  tree,   \* tree_: the missing ranges
  size,   \* size_
  used    \* used_: number of Take calls

vars == <<tree, size, used>>

TypeOK ==
  /\ tree \subseteq (0 .. MaxSize) \X (0 .. MaxSize)
  /\ size \in 0 .. MaxSize
  /\ used \in 0 .. MaxSize

Init ==
  /\ tree = NewTree(InitSize)
  /\ size = InitSize
  /\ used = 0

\* virtual void Resize(size_t size): CHECK(size > size_)
Resize(n) ==
  /\ n > size
  /\ tree' = TreeResize(tree, size, n)
  /\ size' = n
  /\ UNCHANGED used

\* variant: used_ counted before the early return on Check(seq)
CopyGradientsCountAll(seq) ==
  LET grown == IF seq >= size THEN TreeResize(tree, size, seq + 1) ELSE tree
  IN /\ size' = IF seq >= size THEN seq + 1 ELSE size
     /\ used' = used + 1
     /\ tree' = IF TreeCheck(grown, seq) THEN grown ELSE TreeTake(grown, seq)

\* LtMessageExt::CopyGradients, tracker part: Resize(seq + 1) when seq is
\* beyond size_, return if Check(seq), otherwise Take(seq)
CopyGradients(seq) ==
  LET grown == IF seq >= size THEN TreeResize(tree, size, seq + 1) ELSE tree
  IN /\ size' = IF seq >= size THEN seq + 1 ELSE size
     /\ IF TreeCheck(grown, seq)
        THEN /\ tree' = grown
             /\ UNCHANGED used
        ELSE /\ tree' = TreeTake(grown, seq)
             /\ used' = used + 1

Next ==
  \/ \E n \in size + 1 .. MaxSize : Resize(n)
  \/ \E seq \in 0 .. MaxSize - 1 : CopyGradients(seq)

Spec == Init /\ [][Next]_vars

-----------------------------------------------------------------------------
\* The numbers a caller would see as taken: those Check answers TRUE for.
TakenSet == {s \in 0 .. size - 1 : TreeCheck(tree, s)}

Abs == INSTANCE BlockSet WITH taken <- TakenSet

\* Refinement (spec.md §8.1): through any sequence of Take and Resize calls
\* Check answers TRUE exactly for the numbers taken so far, Resize never
\* forgets an earlier Take and Take marks exactly the number it is given.
ImplementsBlockSet == Abs!Spec

\* Serialization contract (spec.md §4.1, §8.2) of SerializeToBuffer as used
\* by ReceivingChannel::FinishFlow: once the tracker covers at least one
\* number, the blocks written are non-empty, ascending, disjoint, cover
\* exactly the numbers Check reports missing, and their total length is
\* FreeLength() = size_ - used_.
SerializationExact ==
  size > 0 =>
    LET blocks == TreeSerialize(tree)
        n == Len(blocks)
    IN /\ \A i \in 1 .. n : blocks[i][1] < blocks[i][2]
       /\ \A i \in 1 .. n - 1 : blocks[i][2] < blocks[i + 1][1]
       /\ UNION {blocks[i][1] .. blocks[i][2] - 1 : i \in 1 .. n}
            = (0 .. size - 1) \ TakenSet
       /\ size - used = Cardinality((0 .. size - 1) \ TakenSet)

=============================================================================
