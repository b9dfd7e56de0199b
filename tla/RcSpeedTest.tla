----------------------------- MODULE RcSpeedTest -----------------------------
(***************************************************************************)
(* The RC_SPEED mode of TestMLTApp (RunTestRcSpeed, src/src/mlt_van.h) on  *)
(* every node, over the reliable channel: an endless loop over the peers   *)
(* that sends a meta to a peer (SendMetaAsync) while it is at most         *)
(* max_gap metas ahead of what it has received from that peer, and         *)
(* otherwise receives one meta from whichever peer's meta is first in      *)
(* meta_queue_ (RecvMeta).                                                 *)
(*                                                                         *)
(* The reliable thread reads one frame per ready endpoint per epoll round  *)
(* and pushes each UserData buffer on meta_queue_, an SpscQueue of 32      *)
(* entries whose Push spins while the queue is full: the reliable thread   *)
(* then serves nothing else, neither other endpoints nor its tx queue.     *)
(*                                                                         *)
(* Every frame is a meta, so the queues and streams hold only who sent it  *)
(* or where it goes.  The loop compares send_cnt[rank] with                *)
(* recv_cnt[rank] only, so the user keeps their difference, bal; it stays  *)
(* within max_gap + 1 of 0 on both sides.  Connections are set up before   *)
(* the loop starts (ConnLifecycle checks the set-up); TCP is a FIFO of     *)
(* whole frames per connection, as RdStream shows.                        *)
(***************************************************************************)
EXTENDS Naturals, Sequences, FiniteSets, SequencesExt

CONSTANTS
  Nodes,     \* ranks
  MaxGap,    \* max_gap of RunTestRcSpeed (320 in the code)
  MetaCap    \* meta_queue_'s capacity (MLTCommunicator's meta_queue_size, 32)

Peers(n) == Nodes \ {n}

\* the for loop over nodes_ without the node itself, in host-file order
\* (taken as rank order)
Order(n) == SetToSortSeq(Peers(n), <)

NoPush == 0   \* no rank: the reliable thread is not inside Push

VARIABLES
  pos,        \* pos[n]: index in Order(n) of the peer the loop is at
  bal,        \* bal[n][r]: send_cnt[r] - recv_cnt[r] of n's loop
  txq,        \* txq[n][d]: metas for d in n's reliable tx_queue_
  stream,     \* stream[n][d]: metas routed to n's endpoint for d, unread
  served,     \* served[n]: endpoints read in n's current epoll round
  pushing,    \* pushing[n]: the sender of the buffer Push is spinning on
  metaQueue   \* metaQueue[n]: meta_queue_, the senders of its buffers

vars == <<pos, bal, txq, stream, served, pushing, metaQueue>>

Bal == -(MaxGap + 1) .. MaxGap + 1

TypeOK ==
  /\ \A n \in Nodes :
       /\ pos[n] \in 1 .. Cardinality(Peers(n))
       /\ bal[n] \in [Peers(n) -> Bal]
       /\ txq[n] \in [Peers(n) -> Nat]
       /\ stream[n] \in [Peers(n) -> Nat]
       /\ served[n] \subseteq Peers(n)
       /\ pushing[n] \in Peers(n) \cup {NoPush}
       /\ metaQueue[n] \in Seq(Peers(n)) /\ Len(metaQueue[n]) <= MetaCap

Init ==
  /\ pos = [n \in Nodes |-> 1]
  /\ bal = [n \in Nodes |-> [r \in Peers(n) |-> 0]]
  /\ txq = [n \in Nodes |-> [d \in Peers(n) |-> 0]]
  /\ stream = [n \in Nodes |-> [d \in Peers(n) |-> 0]]
  /\ served = [n \in Nodes |-> {}]
  /\ pushing = [n \in Nodes |-> NoPush]
  /\ metaQueue = [n \in Nodes |-> <<>>]

-----------------------------------------------------------------------------
(* The user thread: one pass of the body of the for loop                   *)

NextPeer(n) == IF pos[n] = Cardinality(Peers(n)) THEN 1 ELSE pos[n] + 1

\* send_cnt[rank] <= recv_cnt[rank] + max_gap: SendMetaAsync queues the
\* meta on the reliable tx queue and the loop goes on to the next peer
SendMeta(n) ==
  LET r == Order(n)[pos[n]]
  IN /\ bal[n][r] <= MaxGap
     /\ txq' = [txq EXCEPT ![n][r] = @ + 1]
     /\ bal' = [bal EXCEPT ![n][r] = @ + 1]
     /\ pos' = [pos EXCEPT ![n] = NextPeer(n)]
     /\ UNCHANGED <<stream, served, pushing, metaQueue>>

\* otherwise RecvMeta: WaitAndPop spins on TryPop until meta_queue_ holds
\* a buffer; recv_cnt[n_rank]++ for the rank it came from
RecvMeta(n) ==
  LET r == Order(n)[pos[n]]
  IN /\ bal[n][r] > MaxGap
     /\ metaQueue[n] # <<>>
     /\ LET s == Head(metaQueue[n])
        IN bal' = [bal EXCEPT ![n][s] = @ - 1]
     /\ metaQueue' = [metaQueue EXCEPT ![n] = Tail(@)]
     /\ pos' = [pos EXCEPT ![n] = NextPeer(n)]
     /\ UNCHANGED <<txq, stream, served, pushing>>

-----------------------------------------------------------------------------
(* The reliable thread: ReliableChannel::Run                               *)

\* variant: HandleReceivedData uses TryPush, and a buffer that does not
\* fit is released (the hazard the comment in SpscQueue::Push names)
ReliableRecvTryPush(n, d) ==
  /\ pushing[n] = NoPush
  /\ d \notin served[n]
  /\ stream[d][n] > 0
  /\ stream' = [stream EXCEPT ![d][n] = @ - 1]
  /\ served' = [served EXCEPT ![n] = @ \cup {d}]
  /\ metaQueue' = [metaQueue EXCEPT ![n] =
                     IF Len(@) < MetaCap THEN Append(@, d) ELSE @]
  /\ UNCHANGED <<pos, bal, txq, pushing>>

\* variant: Push without its spin stores into the slot of the oldest
\* unread buffer, which tail_ then counts twice
ReliableRecvNoSpin(n, d) ==
  /\ pushing[n] = NoPush
  /\ d \notin served[n]
  /\ stream[d][n] > 0
  /\ stream' = [stream EXCEPT ![d][n] = @ - 1]
  /\ served' = [served EXCEPT ![n] = @ \cup {d}]
  /\ metaQueue' = [metaQueue EXCEPT ![n] = Append(@, d)]
  /\ UNCHANGED <<pos, bal, txq, pushing>>

\* EPOLLIN on the endpoint for d: OnRecvReady reads one UserData frame and
\* HandleReceivedData pushes it on meta_queue_; a full queue makes Push
\* spin, inside this call
ReliableRecv(n, d) ==
  /\ pushing[n] = NoPush
  /\ d \notin served[n]
  /\ stream[d][n] > 0
  /\ stream' = [stream EXCEPT ![d][n] = @ - 1]
  /\ served' = [served EXCEPT ![n] = @ \cup {d}]
  /\ IF Len(metaQueue[n]) < MetaCap
     THEN /\ metaQueue' = [metaQueue EXCEPT ![n] = Append(@, d)]
          /\ UNCHANGED pushing
     ELSE /\ pushing' = [pushing EXCEPT ![n] = d]
          /\ UNCHANGED metaQueue
  /\ UNCHANGED <<pos, bal, txq>>

\* variant: the spin keeps the head_ it loaded before the loop, so it
\* never sees the slot the user frees
PushDoneStaleHead(n) ==
  /\ pushing[n] # NoPush
  /\ LET seen == MetaCap   \* cur_tail - cur_head with the stale head
     IN seen < MetaCap
  /\ metaQueue' = [metaQueue EXCEPT ![n] = Append(@, pushing[n])]
  /\ pushing' = [pushing EXCEPT ![n] = NoPush]
  /\ UNCHANGED <<pos, bal, txq, stream, served>>

\* Push's spin sees a slot the user's TryPop has freed and stores
PushDone(n) ==
  /\ pushing[n] # NoPush
  /\ Len(metaQueue[n]) < MetaCap
  /\ metaQueue' = [metaQueue EXCEPT ![n] = Append(@, pushing[n])]
  /\ pushing' = [pushing EXCEPT ![n] = NoPush]
  /\ UNCHANGED <<pos, bal, txq, stream, served>>

\* the round's events are handled (a frame that arrived after epoll_wait
\* waits for the next round): the tx loop routes every queued meta to its
\* endpoint, which OnSendReady writes (whole frames, in order)
EndRound(n) ==
  /\ pushing[n] = NoPush
  /\ served[n] # {} \/ \E d \in Peers(n) : txq[n][d] > 0
  /\ stream' = [stream EXCEPT ![n] = [d \in Peers(n) |-> @[d] + txq[n][d]]]
  /\ txq' = [txq EXCEPT ![n] = [d \in Peers(n) |-> 0]]
  /\ served' = [served EXCEPT ![n] = {}]
  /\ UNCHANGED <<pos, bal, pushing, metaQueue>>

-----------------------------------------------------------------------------
\* A thread with nothing to do spins (WaitAndPop, Push) or waits in
\* epoll_wait: a stuttering step.
Next ==
  \E n \in Nodes :
       \/ SendMeta(n) \/ RecvMeta(n) \/ PushDone(n) \/ EndRound(n)
       \/ \E d \in Peers(n) : ReliableRecv(n, d)

\* Every thread runs its loop forever: the user's spin on TryPop sees a
\* buffer that stays in meta_queue_ (only the user pops it), Push's spin
\* sees a slot that stays free (only the reliable thread fills it), and
\* level-triggered epoll reports a readable endpoint in every round.
Fairness ==
  \A n \in Nodes :
    /\ WF_vars(SendMeta(n) \/ RecvMeta(n))
    /\ WF_vars(PushDone(n))
    /\ WF_vars(EndRound(n))
    /\ \A d \in Peers(n) : WF_vars(ReliableRecv(n, d))

Spec == Init /\ [][Next]_vars /\ Fairness

-----------------------------------------------------------------------------
\* metas n has sent to r and r has not yet counted: in n's tx queue, in the
\* stream, in r's Push, or in r's meta_queue_
InFlight(n, r) ==
  txq[n][r] + stream[n][r] + (IF pushing[r] = n THEN 1 ELSE 0)
    + Cardinality({i \in DOMAIN metaQueue[r] : metaQueue[r][i] = n})

\* No meta is lost or counted twice: for each pair, the two loops' balances
\* add up to the metas in flight between them, whether a meta waits in a
\* tx queue, a socket, the reliable thread's spinning Push or meta_queue_.
MetaConservation ==
  \A n \in Nodes : \A r \in Peers(n) :
    bal[n][r] + bal[r][n] = InFlight(n, r) + InFlight(r, n)

\* The benchmark never stalls: every node sends metas for ever, although
\* a full meta_queue_ stops its reliable thread and a node past max_gap
\* waits in RecvMeta for a peer that may itself be waiting.
SendsForever == \A n \in Nodes : []<><<SendMeta(n)>>_vars
=============================================================================
