----------------------------- MODULE TreeBlocks -----------------------------
(***************************************************************************)
(* The interval-tree gap tracker TreeBlockMgr (src/src/mlt/tree_block_mgr.h)*)
(* as pure operators over its value.  The std::set<Block> is a set of      *)
(* pairs <<first, last>> standing for the half-open ranges [first, last)   *)
(* still MISSING; the set is ordered by first only, so an emplace of a     *)
(* block whose first is already present is silently ignored.               *)
(* LtMessageExt builds every tracker as TreeBlockMgr(0), i.e. {<<0, 0>>}.  *)
(***************************************************************************)
EXTENDS Naturals, FiniteSets, Sequences
LOCAL INSTANCE SequencesExt

\* sizeof(Block): two uint32_t
BlockBytes == 8

\* TreeBlockMgr(size): tree_.emplace(0, size)
NewTree(n) == {<<0, n>>}

\* std::set::emplace keyed by Block::operator< (first only)
Emplace(tree, b) ==
  IF \E c \in tree : c[1] = b[1] THEN tree ELSE tree \cup {b}

\* the element with the largest first (tree_.rbegin())
LastBlock(tree) == CHOOSE b \in tree : \A c \in tree : c[1] <= b[1]

\* std::prev(tree_.upper_bound(Block(seq, seq + 1))): the block with the
\* largest first not above seq
Covering(tree, seq) == LastBlock({b \in tree : b[1] <= seq})

\* variant: the tail block is stretched even when it ends before the old size
TreeResizeAlwaysExtend(tree, oldSize, n) ==
  IF tree = {} THEN Emplace(tree, <<oldSize, n>>)
  ELSE LET t == LastBlock(tree) IN (tree \ {t}) \cup {<<t[1], n>>}

\* Resize(size) after CHECK(size > size_): extend the tail block if it ends
\* at the old size, otherwise append [old size, new size)
TreeResize(tree, oldSize, n) ==
  IF tree = {} THEN Emplace(tree, <<oldSize, n>>)
  ELSE LET t == LastBlock(tree)
       IN IF t[2] < oldSize THEN Emplace(tree, <<oldSize, n>>)
          ELSE (tree \ {t}) \cup {<<t[1], n>>}

\* Check(seq): TRUE iff seq is not inside a missing block
TreeCheck(tree, seq) ==
  \/ tree = {}
  \/ \A b \in tree : b[1] > seq
  \/ LET b == Covering(tree, seq) IN ~(b[1] <= seq /\ seq < b[2])

\* variant: a block emptied by the take is not erased
TreeTakeKeepEmpty(tree, seq) ==
  LET b    == Covering(tree, seq)
      rest == tree \ {b}
      nb   == IF b[1] = seq THEN <<b[1] + 1, b[2]>>
              ELSE IF b[2] = seq + 1 THEN <<b[1], b[2] - 1>>
              ELSE <<b[1], seq>>
  IN IF b[1] # seq /\ b[2] # seq + 1
     THEN Emplace(rest \cup {nb}, <<seq + 1, b[2]>>)
     ELSE rest \cup {nb}

\* Take(seq): trim the covering block at the front, at the back, or split
\* it in two; erase it when it became empty
TreeTake(tree, seq) ==
  LET b    == Covering(tree, seq)
      rest == tree \ {b}
      nb   == IF b[1] = seq THEN <<b[1] + 1, b[2]>>
              ELSE IF b[2] = seq + 1 THEN <<b[1], b[2] - 1>>
              ELSE <<b[1], seq>>
      grown == IF b[1] # seq /\ b[2] # seq + 1
               THEN Emplace(rest \cup {nb}, <<seq + 1, b[2]>>)
               ELSE rest \cup {nb}
  IN IF nb[1] = nb[2] THEN grown \ {nb} ELSE grown

\* ByteSize(): tree_.size() * sizeof(Block)
TreeByteSize(tree) == Cardinality(tree) * BlockBytes

\* SerializeToBuffer: the blocks in ascending order of first
TreeSerialize(tree) == SetToSortSeq(tree, LAMBDA x, y : x[1] < y[1])
=============================================================================
