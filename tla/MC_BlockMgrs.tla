---------------------------- MODULE MC_BlockMgrs ----------------------------
(* Both BlockMgr implementations side by side, each driven by every         *)
(* sequence of its own calls: the tree tracker LtMessageExt constructs, and *)
(* the bitmap tracker that can stand in for it.  Each must serialize        *)
(* exactly its missing ranges; the tree tracker must behave as the         *)
(* abstract BlockSet.                                                      *)
EXTENDS Naturals

VARIABLES
  tree, tSize, tUsed,              \* TreeBlockMgr: tree_, size_, used_
  bitmap, bSize, bUsed, segments   \* BitmapBlockMgr: bitmap_, size_, used_, segments_

treeVars == <<tree, tSize, tUsed>>
bitmapVars == <<bitmap, bSize, bUsed, segments>>
vars == <<treeVars, bitmapVars>>

\* LtMessageExt constructs the tree tracker with size 0; five sequence numbers
\* give up to three disjoint missing ranges (missing 0, 2 and 4).
T == INSTANCE TreeBlockMgr WITH InitSize <- 0, MaxSize <- 5,
                                size <- tSize, used <- tUsed

\* Nine numbers over words of four bits (three words, the last one
\* partial); tzcnt returns the operand width for a zero operand; the
\* uint32_t wrap scaled to 256.
B == INSTANCE BitmapBlockMgr WITH InitSize <- 0, MaxSize <- 9, W <- 4,
                                  CtzlZero <- 4, Uint32Mod <- 256,
                                  size <- bSize, used <- bUsed

Init == T!Init /\ B!Init

Next ==
  \/ T!Next /\ UNCHANGED bitmapVars
  \/ B!Next /\ UNCHANGED treeVars

Spec == Init /\ [][Next]_vars

TreeTypeOK == T!TypeOK
BitmapTypeOK == B!TypeOK

\* Tree serialization contract (spec.md 4.1, 8.2): after any Resize and
\* CopyGradients sequence, SerializeToBuffer writes non-empty, ascending,
\* disjoint blocks covering exactly the numbers Check reports missing, with
\* total length FreeLength().
TreeSerializationExact == T!SerializationExact

\* The tree tracker implements BlockSet: Check answers TRUE exactly for the
\* numbers taken so far, and Resize keeps every earlier Take.
TreeImplementsBlockSet == T!ImplementsBlockSet

\* Bitmap serialization contract: the word scan with __builtin_ctzl and
\* shifted masks writes exactly the missing ranges, in every word position
\* and across word boundaries, with total length FreeLength().
BitmapSerializationExact == B!SerializationExact

=============================================================================
