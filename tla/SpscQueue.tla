------------------------------ MODULE SpscQueue ------------------------------
(***************************************************************************)
(* SpscQueue<T> (src/src/mlt/spsc_queue.h): Lamport's single-producer      *)
(* single-consumer ring.  head_ and tail_ are size_t counters that only    *)
(* grow (modulo 2^w); slot x of vec_ is x & mask_ with capacity_ a power   *)
(* of two.  The producer thread calls Push, which spins while the ring is  *)
(* full; the consumer thread polls TryPop (WaitAndPop is TryPop in a loop, *)
(* a failing TryPop changes nothing).  Each atomic load or store and each  *)
(* slot access is one step, so every interleaving of the two threads is    *)
(* explored.  Accesses are sequentially consistent: the order x86 gives    *)
(* the relaxed head_ store after the slot is moved out (see README).       *)
(* Used for the notification queues of ReliableChannel and                 *)
(* ReceivingChannel, sr_queue_, rr_queue_ and meta_queue_.                 *)
(***************************************************************************)
EXTENDS Naturals, Sequences

CONSTANTS
  Count,      \* constructor argument count (32 in every use)
  SizeMod,    \* 2^w, the range of the size_t counters head_ and tail_
  NVals       \* the producer pushes 1, 2, .., NVals, 1, 2, .. forever

NoValue == 0
Values == 1 .. NVals

\* Lowbit(x) == x & -x: the lowest set bit of x
RECURSIVE Lowbit(_)
Lowbit(x) ==
  IF x = 0 THEN 0
  ELSE IF x % 2 = 1 THEN 1 ELSE 2 * Lowbit(x \div 2)

\* while (x != Lowbit(x)) x += Lowbit(x);
RECURSIVE RoundUpPower2(_)
RoundUpPower2(x) ==
  IF x = Lowbit(x) THEN x ELSE RoundUpPower2(x + Lowbit(x))

\* capacity_ = RoundUpPower2(count), CHECK'd to be a power of two
Capacity == RoundUpPower2(Count)

ASSUME Capacity = Lowbit(Capacity) /\ SizeMod % Capacity = 0

\* vec_[x & mask_] with mask_ = capacity_ - 1
Slot(x) == x % Capacity

\* cur_tail - cur_head in size_t arithmetic
Used(t, h) == (t - h) % SizeMod

VARIABLES
  head,       \* head_
  tail,       \* tail_
  vec,        \* vec_
  prodPc,     \* where the producer is in Push: "load", "write", "store"
  curHead,    \* Push's cur_head
  curTail,    \* Push's cur_tail
  nxt,        \* the value Push is called with
  consPc,     \* where the consumer is in TryPop: "load", "move", "store"
  curH,       \* TryPop's cur_head
  popped      \* *value, the element the last TryPop handed out

vars == <<head, tail, vec, prodPc, curHead, curTail, nxt, consPc, curH, popped>>

TypeOK ==
  /\ head \in 0 .. SizeMod - 1
  /\ tail \in 0 .. SizeMod - 1
  /\ Used(tail, head) \in 0 .. Capacity
  /\ vec \in [0 .. Capacity - 1 -> Values \cup {NoValue}]
  /\ prodPc \in {"load", "write", "store"}
  /\ consPc \in {"load", "move", "store"}
  /\ {curHead, curTail, curH} \subseteq 0 .. SizeMod - 1
  /\ nxt \in Values
  /\ popped \in Values \cup {NoValue}

\* SpscQueue(int count): head_ = tail_ = 0, vec_ of default-constructed T
Init ==
  /\ head = 0
  /\ tail = 0
  /\ vec = [s \in 0 .. Capacity - 1 |-> NoValue]
  /\ prodPc = "load"
  /\ curHead = 0
  /\ curTail = 0
  /\ nxt = 1
  /\ consPc = "load"
  /\ curH = 0
  /\ popped = NoValue

-----------------------------------------------------------------------------
(* Push(new_value)                                                          *)

\* variant: the full test off by one
PushLoadOffByOne ==
  /\ prodPc = "load"
  /\ curHead' = head
  /\ curTail' = tail
  /\ prodPc' = IF Used(tail, head) > Capacity THEN "load" ELSE "write"
  /\ UNCHANGED <<head, tail, vec, nxt, consPc, curH, popped>>

\* variant: the difference taken as a signed number, without wrapping
PushLoadSignedDiff ==
  /\ prodPc = "load"
  /\ curHead' = head
  /\ curTail' = tail
  /\ prodPc' = IF tail - head >= Capacity THEN "load" ELSE "write"
  /\ UNCHANGED <<head, tail, vec, nxt, consPc, curH, popped>>

\* load head_ and tail_ (relaxed); while the ring is full, load them again
PushLoad ==
  /\ prodPc = "load"
  /\ curHead' = head
  /\ curTail' = tail
  /\ prodPc' = IF Used(tail, head) >= Capacity THEN "load" ELSE "write"
  /\ UNCHANGED <<head, tail, vec, nxt, consPc, curH, popped>>

\* vec_[cur_tail & mask_] = std::move(new_value)
PushWrite ==
  /\ prodPc = "write"
  /\ vec' = [vec EXCEPT ![Slot(curTail)] = nxt]
  /\ prodPc' = "store"
  /\ UNCHANGED <<head, tail, curHead, curTail, nxt, consPc, curH, popped>>

\* tail_.store(cur_tail + 1, release); Push returns and the producer
\* calls it again with its next value
PushStore ==
  /\ prodPc = "store"
  /\ tail' = (curTail + 1) % SizeMod
  /\ prodPc' = "load"
  /\ nxt' = (nxt % NVals) + 1
  /\ UNCHANGED <<head, vec, curHead, curTail, consPc, curH, popped>>

-----------------------------------------------------------------------------
(* TryPop(value)                                                            *)

\* variant: the emptiness test dropped
PopLoadNoEmptyCheck ==
  /\ consPc = "load"
  /\ curH' = head
  /\ consPc' = "move"
  /\ UNCHANGED <<head, tail, vec, prodPc, curHead, curTail, nxt, popped>>

\* load head_ (relaxed) and tail_ (acquire); return false if equal,
\* which leaves everything as it was
PopLoad ==
  /\ consPc = "load"
  /\ tail # head
  /\ curH' = head
  /\ consPc' = "move"
  /\ UNCHANGED <<head, tail, vec, prodPc, curHead, curTail, nxt, popped>>

\* *value = std::move(vec_[cur_head & mask_]); the slot is left moved-from
PopMove ==
  /\ consPc = "move"
  /\ popped' = vec[Slot(curH)]
  /\ vec' = [vec EXCEPT ![Slot(curH)] = NoValue]
  /\ consPc' = "store"
  /\ UNCHANGED <<head, tail, prodPc, curHead, curTail, nxt, curH>>

\* variant: head_ stored without the increment
PopStoreStale ==
  /\ consPc = "store"
  /\ head' = curH
  /\ consPc' = "load"
  /\ UNCHANGED <<tail, vec, prodPc, curHead, curTail, nxt, curH, popped>>

\* head_.store(cur_head + 1, relaxed); return true
PopStore ==
  /\ consPc = "store"
  /\ head' = (curH + 1) % SizeMod
  /\ consPc' = "load"
  /\ UNCHANGED <<tail, vec, prodPc, curHead, curTail, nxt, curH, popped>>

-----------------------------------------------------------------------------
Producer == PushLoad \/ PushWrite \/ PushStore
Consumer == PopLoad \/ PopMove \/ PopStore

Next == Producer \/ Consumer

\* Both threads keep running: the producer is a thread inside Push, and
\* every consumer of these queues polls TryPop in its thread's loop.
Fairness == WF_vars(Producer) /\ WF_vars(Consumer)

Spec == Init /\ [][Next]_vars /\ Fairness

-----------------------------------------------------------------------------
\* The elements the queue holds: from head_ (past the one being moved out)
\* up to tail_
First == IF consPc = "store" THEN (curH + 1) % SizeMod ELSE head
QueueOf == [i \in 1 .. Used(tail, First) |-> vec[Slot(First + i - 1)]]

Abs == INSTANCE BoundedFifo WITH queue <- QueueOf

\* Refinement: under every interleaving of Push and TryPop, including the
\* wrap of head_ and tail_ past 2^w, the ring behaves as a FIFO of at most
\* capacity_ elements: TryPop hands out the elements in the order Push
\* stored them, none lost, none twice, and Push never overwrites one that
\* has not been popped.
ImplementsBoundedFifo == Abs!Spec

\* No data race on a slot: Push never writes the slot whose element TryPop
\* is about to move out, so the relaxed head_ load is enough as long as
\* the head_ store follows the move.
NoDataRace ==
  prodPc = "write" /\ consPc = "move" => Slot(curTail) # Slot(curH)

\* Push's spin on a full ring (spsc_queue.h:33) ends: a consumer that
\* keeps polling frees a slot and the producer sees it.
PushReturns == prodPc = "load" ~> prodPc = "write"
=============================================================================
