--------------------------- MODULE BitmapBlockMgr ---------------------------
(***************************************************************************)
(* BitmapBlockMgr (src/src/mlt/bitmap_block_mgr.h): a gap tracker that     *)
(* keeps one bit per sequence number in a vector of machine words, counts  *)
(* the missing ranges in segments_, and serializes them by scanning each   *)
(* word with count-trailing-zeros.  The members are size_, used_,          *)
(* segments_ and the bitmap, here the set of positions whose bit is 1.     *)
(* Bits at or above size_ are never set (Take CHECKs seq < size_, and the  *)
(* vector grows with zero words), so the set describes every word.         *)
(* The word width W stands for sizeof(long) * 8.                           *)
(***************************************************************************)
EXTENDS Naturals, FiniteSets, Sequences

CONSTANTS
  InitSize,   \* constructor argument
  MaxSize,    \* bound on the sizes Resize is called with
  W,          \* Bitmap<long>::type_size, bits per word
  CtzlZero,   \* the value __builtin_ctzl(0) yields on the build (tzcnt: W)
  Uint32Mod   \* 2^32, the range of the uint32_t counters used_ and segments_

VARIABLES
  bitmap,     \* bitmap_: the positions whose bit is set (taken)
  size,       \* size_
  used,       \* used_
  segments    \* segments_

vars == <<bitmap, size, used, segments>>

TypeOK ==
  /\ bitmap \subseteq 0 .. MaxSize - 1
  /\ size \in 0 .. MaxSize
  /\ used \in 0 .. MaxSize
  /\ segments \in 0 .. Uint32Mod - 1

\* Bitmap::Test(pos)
Test(pos) == pos \in bitmap

Init ==
  /\ bitmap = {}
  /\ size = InitSize
  /\ used = 0
  /\ segments = 1

\* virtual void Resize(size_t size): CHECK(size > size_); the new words are
\* zero, and the last bit is tested after size_ has been updated.
Resize(n) ==
  /\ n > size
  /\ size' = n
  /\ segments' = IF Test(n - 1) THEN (segments + 1) % Uint32Mod ELSE segments
  /\ UNCHANGED <<bitmap, used>>

\* variant: the early return on an already taken number dropped
TakeAlways(seq) ==
  /\ used' = used + 1
  /\ segments' = (segments + 1
                   - (IF seq = 0 \/ Test(seq - 1) THEN 1 ELSE 0)
                   - (IF seq + 1 = size \/ Test(seq + 1) THEN 1 ELSE 0))
                  % Uint32Mod
  /\ bitmap' = bitmap \cup {seq}
  /\ UNCHANGED size

\* virtual void Take(uint32_t seq): CHECK(seq < size_); a new bit splits a
\* missing range (+1) unless a neighbour is taken or is the edge (-1 each).
Take(seq) ==
  IF Test(seq) THEN UNCHANGED vars
  ELSE /\ used' = used + 1
       /\ segments' = (segments + 1
                        - (IF seq = 0 \/ Test(seq - 1) THEN 1 ELSE 0)
                        - (IF seq + 1 = size \/ Test(seq + 1) THEN 1 ELSE 0))
                       % Uint32Mod
       /\ bitmap' = bitmap \cup {seq}
       /\ UNCHANGED size

Next ==
  \/ \E n \in size + 1 .. MaxSize : Resize(n)
  \/ \E seq \in 0 .. size - 1 : Take(seq)

Spec == Init /\ [][Next]_vars

-----------------------------------------------------------------------------
(* SerializeToBuffer, read-only.                                           *)

\* FreeLength() and ByteSize() (sizeof(Block) = 8)
FreeLength == size - used
ByteSize == segments * 8

\* The word UnderlayValue(i / W) as the set of its set bit offsets
Word(i) == {p - i : p \in {q \in bitmap : i <= q /\ q < i + W}}

\* __builtin_ctzl on a word given as its set of bit offsets
Ctzl(seg) ==
  IF seg = {} THEN CtzlZero
  ELSE CHOOSE b \in seg : \A c \in seg : b <= c

\* ~0l << k as a set of offsets; x86 takes the shift count modulo W
ShiftMask(k) == {j \in 0 .. W - 1 : j >= k % W}

\* The inner while loop over one word: returns <<first, blocks written>>
RECURSIVE ScanWord(_, _, _, _)
ScanWord(i, seg, first, out) ==
  IF seg = {} \/ first >= i + W THEN <<first, out>>
  ELSE LET tz == Ctzl(seg)
           last == i + tz
           written == IF first < last THEN Append(out, <<first, last>>) ELSE out
           next == i + Ctzl(ShiftMask(tz) \ seg)
       IN ScanWord(i, seg \cap ShiftMask(next - i), next, written)

\* The outer for loop over the words, i += step_size
RECURSIVE ScanWords(_, _, _)
ScanWords(i, first, out) ==
  IF i >= size THEN <<first, out>>
  ELSE LET r == ScanWord(i, Word(i), first, out)
       IN ScanWords(i + W, r[1], r[2])

\* variant: the closing block written also when it is empty
SerializeEmptyTail ==
  LET r == ScanWords(0, 0, <<>>)
  IN IF r[1] <= size THEN Append(r[2], <<r[1], size>>) ELSE r[2]

\* The blocks SerializeToBuffer writes: the scan, then [first, size_) if
\* first < size_.
Serialize ==
  LET r == ScanWords(0, 0, <<>>)
  IN IF r[1] < size THEN Append(r[2], <<r[1], size>>) ELSE r[2]

-----------------------------------------------------------------------------
\* Check answers Test(seq)
TakenSet == bitmap

\* Serialization contract (spec.md §4.1, §8.2): the word scan with
\* __builtin_ctzl and the shifted masks writes non-empty, ascending,
\* disjoint blocks that cover exactly the numbers Check reports missing,
\* in all word positions and across word boundaries; their total length is
\* FreeLength().
SerializationExact ==
  LET blocks == Serialize
      n == Len(blocks)
  IN /\ \A k \in 1 .. n : blocks[k][1] < blocks[k][2]
     /\ \A k \in 1 .. n - 1 : blocks[k][2] < blocks[k + 1][1]
     /\ UNION {blocks[k][1] .. blocks[k][2] - 1 : k \in 1 .. n}
          = (0 .. size - 1) \ TakenSet
     /\ FreeLength = Cardinality((0 .. size - 1) \ TakenSet)

\* CHECK_EQ(strm->Tell(), ByteSize()) at the end of SerializeToBuffer: the
\* bytes written equal segments_ * sizeof(Block), i.e. segments_ counts the
\* missing ranges after any Resize and Take sequence.
SerializeCheckHolds == Len(Serialize) * 8 = ByteSize
=============================================================================
