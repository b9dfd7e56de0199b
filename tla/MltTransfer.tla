---------------------------- MODULE MltTransfer ----------------------------
(***************************************************************************)
(* One connection of the loss-tolerant transport, sender S to receiver R:  *)
(* the four-phase exchange FlowStart / FlowFinish / StopRequest /          *)
(* StopConfirm with RetransmitRequests, as the threads of the two          *)
(* MLTCommunicators run it.                                                *)
(*                                                                         *)
(*  S user thread      PostSend                       (mlt_communicator.cc)*)
(*  S priority thread  sr_queue, PollSendingMessages, PollRetransmitRequest*)
(*                     and PollNotification           (priority_channel.cc)*)
(*  S reliable thread  HandleReceivedData of R's signals   (rd_endpoint.cc)*)
(*  R reliable thread  HandleReceivedData of S's signals   (rd_endpoint.cc)*)
(*  R user thread      PostRecv                       (mlt_communicator.cc)*)
(*  R receiving thread HandleReceive, PollReceiveRequest, PollNotification *)
(*                                                   (receiving_channel.cc)*)
(*                                                                         *)
(* The control path (reliable channel tx_queue_, RdEndpoint tx queue, TCP, *)
(* the peer's rx buffers) is FIFO and lossless and is one sequence per     *)
(* direction, c2r and r2c.  UDP datagrams, once routed to an endpoint, may *)
(* leave in any order (one FIFO per ToS, sixteen of them) and may be lost: *)
(* they are a set, network.  Bytes are counted exactly, on a reduced       *)
(* packet payload (PayloadBound stands for MaxSegment() - 20).             *)
(***************************************************************************)
EXTENDS Naturals, Sequences, FiniteSets, TreeBlocks
LOCAL INSTANCE SequencesExt
LOCAL INSTANCE FiniteSetsExt

CONSTANTS
  Msgs,           \* msg_ids posted, each once (a set of naturals: std::map order)
  Size,           \* LtMessage::size of every message, in bytes
  PayloadBound,   \* MaxSegment() - kGradPacketHeader
  ElemSize,       \* sizeof(float), the AlignUp unit of the bound
  LossNum,        \* loss_ratio passed to PostRecv is LossNum / LossDen
  LossDen,
  MaxLoss,        \* bound on the number of datagrams the network drops
  BacklogSlots,   \* segments in backlog_free_list (0: MLT_DISABLE_FLOW_BACKLOG)
  Uint32Mod       \* 2^32 in the code; reduced width, same wrap-around

ASSUME /\ Msgs \subseteq Nat /\ Msgs # {}
       /\ Size \in Nat /\ PayloadBound \in Nat \ {0} /\ ElemSize \in Nat \ {0}
       /\ LossDen \in Nat \ {0} /\ LossNum \in 0 .. LossDen
       /\ MaxLoss \in Nat /\ BacklogSlots \in Nat /\ Uint32Mod \in Nat \ {0}

VARIABLES
  srQueue,            \* S: sr_queue_ of msg_ids
  sendingMsgs,        \* S: sending_msgs, msg_id -> bytes_sent
  retransmittingMsgs, \* S: keys of retransmitting_msgs
  retransmitReqs,     \* S: retransmit_reqs, msg_id -> [blocks, blockNum, seqNum]
  prioNotif,          \* S: PriorityChannel notification_queue_
  network,            \* datagrams routed and not yet received or lost
  lost,               \* datagrams lost so far
  c2r,                \* control signals S -> R, in order
  r2c,                \* control signals R -> S, in order
  maxSeq,             \* R: RdEndpoint::msg_max_seq, msg_id -> max_seq_num
  recvNotif,          \* R: ReceivingChannel notification_queue_
  rrQueue,            \* R: rr_queue_ of msg_ids
  recvMsgs,           \* R: recv_msgs, msg_id -> LtMessageExt
  backlog,            \* R: backlog_used_map, msg_id -> staged datagrams
  freeSlots,          \* R: backlog_free_list.size()
  sendPosted,         \* msg_ids given to PostSend
  recvPosted,         \* msg_ids given to PostRecv
  cq,                 \* the CompletionQueue shared by both sides
  rrIssued            \* history: <<msg_id, found>> of each RetransmitRequest R sent

senderVars == <<srQueue, sendingMsgs, retransmittingMsgs, retransmitReqs, prioNotif>>
receiverVars == <<maxSeq, recvNotif, rrQueue, recvMsgs, backlog, freeSlots>>
vars == <<senderVars, network, lost, c2r, r2c, receiverVars,
          sendPosted, recvPosted, cq, rrIssued>>

-----------------------------------------------------------------------------
(* Helpers translated from the code. *)

\* variant: the number of packets instead of the largest sequence number
GetMaxSeqNumPackets(size) == ((size + PayloadBound - 1) \div PayloadBound) % Uint32Mod

\* Packetizer::GetMaxSeqNum: size_t arithmetic truncated to uint32_t
GetMaxSeqNum(size) == ((size + PayloadBound - 1) \div PayloadBound - 1) % Uint32Mod

\* payload bytes of a packet at offset off ((size - off) is a size_t)
PayloadLen(off) ==
  IF off > Size \/ Size - off > PayloadBound THEN PayloadBound ELSE Size - off

\* PartitionOne / PartitionOneBySeq: the datagram header fields that matter
Packet(m, seq, off) == [msg |-> m, seq |-> seq, offset |-> off, len |-> PayloadLen(off)]

\* AlignUp(sizeof(float), size * (1 - loss_ratio))
AlignUp(a, v) == ((v + a - 1) \div a) * a
Bound == AlignUp(ElemSize, (Size * (LossDen - LossNum)) \div LossDen)

Signal(t, m) == [type |-> t, msg |-> m, maxSeq |-> 0, blocks |-> <<>>]
FlowStart(m) == [Signal("FlowStart", m) EXCEPT !.maxSeq = GetMaxSeqNum(Size)]
RetransmitRequest(m, bl) == [Signal("RetransmitRequest", m) EXCEPT !.blocks = bl]
FlowFinish(m) == Signal("FlowFinish", m)
StopRequest(m) == Signal("StopRequest", m)
StopConfirm(m) == Signal("StopConfirm", m)

\* LtMessageExt(ltmsg): block_mgr = TreeBlockMgr(0), bound = size
NewExt == [bytes |-> 0, bound |-> Size, stopped |-> FALSE,
           tree |-> NewTree(0), bsize |-> 0]

\* variant: no early return when Check(seq) says the datagram is a duplicate
CopyGradientsNoCheck(e, p) ==
  LET grown == IF p.seq >= e.bsize THEN TreeResize(e.tree, e.bsize, p.seq + 1)
               ELSE e.tree
      e1 == [e EXCEPT !.tree = grown,
                      !.bsize = IF p.seq >= e.bsize THEN p.seq + 1 ELSE @]
  IN IF TreeCheck(grown, p.seq)
     THEN [ext |-> [e1 EXCEPT !.bytes = @ + p.len], copied |-> p.len]
     ELSE [ext |-> [e1 EXCEPT !.tree = TreeTake(grown, p.seq),
                              !.bytes = @ + p.len],
           copied |-> p.len]

\* variant: counts a full payload for every datagram, the short last one too
CopyGradientsFullPayload(e, p) ==
  LET grown == IF p.seq >= e.bsize THEN TreeResize(e.tree, e.bsize, p.seq + 1)
               ELSE e.tree
      e1 == [e EXCEPT !.tree = grown,
                      !.bsize = IF p.seq >= e.bsize THEN p.seq + 1 ELSE @]
  IN IF TreeCheck(grown, p.seq)
     THEN [ext |-> e1, copied |-> 0]
     ELSE [ext |-> [e1 EXCEPT !.tree = TreeTake(grown, p.seq),
                              !.bytes = @ + PayloadBound],
           copied |-> PayloadBound]

\* LtMessageExt::CopyGradients(pkt): the updated message and the bytes copied
CopyGradients(e, p) ==
  LET grown == IF p.seq >= e.bsize THEN TreeResize(e.tree, e.bsize, p.seq + 1)
               ELSE e.tree
      e1 == [e EXCEPT !.tree = grown,
                      !.bsize = IF p.seq >= e.bsize THEN p.seq + 1 ELSE @]
  IN IF TreeCheck(grown, p.seq)
     THEN [ext |-> e1, copied |-> 0]
     ELSE [ext |-> [e1 EXCEPT !.tree = TreeTake(grown, p.seq),
                              !.bytes = @ + p.len],
           copied |-> p.len]

\* variants: the stopped flag not consulted; the bytes just copied counted twice
ShouldStopNoStoppedGuard(r) == r.copied > 0 /\ r.ext.bytes >= r.ext.bound
ShouldStopCountTwice(r) ==
  r.copied > 0 /\ r.ext.bytes + r.copied >= r.ext.bound /\ ~r.ext.stopped

\* HandleReceive's test after CopyGradients: something was copied, the
\* bound is met (FinishReceiving) and no StopRequest was sent yet
ShouldStop(r) == r.copied > 0 /\ r.ext.bytes >= r.ext.bound /\ ~r.ext.stopped

DropKey(f, k) == [x \in DOMAIN f \ {k} |-> f[x]]

-----------------------------------------------------------------------------
Init ==
  /\ srQueue = <<>>
  /\ sendingMsgs = <<>>
  /\ retransmittingMsgs = {}
  /\ retransmitReqs = <<>>
  /\ prioNotif = <<>>
  /\ network = {}
  /\ lost = 0
  /\ c2r = <<>>
  /\ r2c = <<>>
  /\ maxSeq = <<>>
  /\ recvNotif = <<>>
  /\ rrQueue = <<>>
  /\ recvMsgs = <<>>
  /\ backlog = [m \in Msgs |-> <<>>]
  /\ freeSlots = BacklogSlots
  /\ sendPosted = {}
  /\ recvPosted = {}
  /\ cq = <<>>
  /\ rrIssued = {}

(* ---------------- sender side ---------------- *)

\* MLTCommunicator::PostSend: FlowStart on the reliable channel, then the
\* message to the priority channel
PostSend(m) ==
  /\ m \notin sendPosted
  /\ sendPosted' = sendPosted \cup {m}
  /\ c2r' = Append(c2r, FlowStart(m))
  /\ srQueue' = Append(srQueue, m)
  /\ UNCHANGED <<sendingMsgs, retransmittingMsgs, retransmitReqs, prioNotif,
                 network, lost, r2c, receiverVars, recvPosted, cq, rrIssued>>

\* PriorityChannel::Run: pop a send request into sending_msgs
PopSendRequest ==
  /\ srQueue # <<>>
  /\ sendingMsgs' = (Head(srQueue) :> 0) @@ sendingMsgs
  /\ srQueue' = Tail(srQueue)
  /\ UNCHANGED <<retransmittingMsgs, retransmitReqs, prioNotif, network, lost,
                 c2r, r2c, receiverVars, sendPosted, recvPosted, cq, rrIssued>>

\* Packetizer::RoutePacket: the datagram joins its endpoint's tx queue
\* (the network here) and, if it finishes the pass, FlowFinish goes to the
\* reliable channel at once.
RoutePacket(p, isFinished) ==
  /\ network' = network \cup {p}
  /\ c2r' = IF isFinished THEN Append(c2r, FlowFinish(p.msg)) ELSE c2r

\* PriorityChannel::PollSendingMessages: one packet of the first message;
\* RoutePacket emits FlowFinish with the last one, which then moves to
\* retransmitting_msgs.  (A throttled round changes nothing modelled.)
SendPacket ==
  /\ sendingMsgs # <<>>
  /\ LET m    == Min(DOMAIN sendingMsgs)
         sent == sendingMsgs[m]
         p    == Packet(m, sent \div PayloadBound, sent)
         done == sent + p.len >= Size
     IN /\ RoutePacket(p, sent + p.len = Size)
        /\ sendingMsgs' = IF done THEN DropKey(sendingMsgs, m)
                          ELSE [sendingMsgs EXCEPT ![m] = sent + p.len]
        /\ retransmittingMsgs' = IF done THEN retransmittingMsgs \cup {m}
                                 ELSE retransmittingMsgs
  /\ UNCHANGED <<srQueue, retransmitReqs, prioNotif, lost, r2c, receiverVars,
                 sendPosted, recvPosted, cq, rrIssued>>

\* PriorityChannel::PollRetransmitRequest: the packet at the cursor of the
\* first request; FlowFinish after the last one of the last block
RetransmitPacket ==
  /\ retransmitReqs # <<>>
  /\ LET m  == Min(DOMAIN retransmitReqs)
         r  == retransmitReqs[m]
         b  == r.blocks[r.blockNum + 1]
         nb == Len(r.blocks)
         p  == Packet(m, r.seqNum, PayloadBound * r.seqNum)
         next == IF r.seqNum + 1 = b[2]
                 THEN [r EXCEPT !.blockNum = @ + 1,
                                !.seqNum = IF r.blockNum + 1 < nb
                                           THEN r.blocks[r.blockNum + 2][1]
                                           ELSE r.seqNum + 1]
                 ELSE [r EXCEPT !.seqNum = @ + 1]
     IN /\ RoutePacket(p, r.blockNum + 1 = nb /\ r.seqNum + 1 = b[2])
        /\ retransmitReqs' = IF next.blockNum = nb THEN DropKey(retransmitReqs, m)
                             ELSE [retransmitReqs EXCEPT ![m] = next]
  /\ UNCHANGED <<srQueue, sendingMsgs, retransmittingMsgs, prioNotif, lost, r2c,
                 receiverVars, sendPosted, recvPosted, cq, rrIssued>>

\* struct Completion {msg_id, type, remote_comm_id, bytes}
Completion(t, m, b) == [type |-> t, msg |-> m, bytes |-> b]

\* CompletionQueue::Push, under its mutex
PushCompletion(c) == cq' = Append(cq, c)

\* variant: step 1 of StopFlow forgotten, the retransmit request stays
StopFlowKeepRequests(m) ==
  /\ IF m \in DOMAIN sendingMsgs
     THEN /\ sendingMsgs' = DropKey(sendingMsgs, m)
          /\ UNCHANGED <<retransmitReqs, retransmittingMsgs>>
     ELSE /\ retransmittingMsgs' = retransmittingMsgs \ {m}
          /\ UNCHANGED <<sendingMsgs, retransmitReqs>>
  /\ c2r' = Append(c2r, StopConfirm(m))
  /\ PushCompletion(Completion("Send", m, "unset"))

\* PriorityChannel::StopFlow: drop the flow from whichever map holds it,
\* send StopConfirm, push a Send completion (bytes_sent is never written)
StopFlow(m) ==
  /\ IF m \in DOMAIN sendingMsgs
     THEN /\ sendingMsgs' = DropKey(sendingMsgs, m)
          /\ UNCHANGED <<retransmitReqs, retransmittingMsgs>>
     ELSE /\ retransmitReqs' = DropKey(retransmitReqs, m)
          /\ retransmittingMsgs' = retransmittingMsgs \ {m}
          /\ UNCHANGED sendingMsgs
  /\ c2r' = Append(c2r, StopConfirm(m))
  /\ PushCompletion(Completion("Send", m, "unset"))

\* PriorityChannel::PollNotification, REQUEST_RETRANSMIT: (re)place the
\* request with its cursor at the first block
RequestRetransmit(m, bl) ==
  /\ retransmitReqs' = (m :> [blocks |-> bl, blockNum |-> 0, seqNum |-> bl[1][1]])
                         @@ retransmitReqs
  /\ UNCHANGED <<sendingMsgs, retransmittingMsgs, c2r, cq>>

PollPrioNotification ==
  /\ prioNotif # <<>>
  /\ LET n == Head(prioNotif)
     IN IF n.type = "StopRequest" THEN StopFlow(n.msg)
        ELSE RequestRetransmit(n.msg, n.blocks)
  /\ prioNotif' = Tail(prioNotif)
  /\ UNCHANGED <<srQueue, network, lost, r2c, receiverVars, sendPosted,
                 recvPosted, rrIssued>>

\* RdEndpoint::HandleReceivedData at S: RetransmitRequest and StopRequest
\* are forwarded to the priority channel
SenderDispatch ==
  /\ r2c # <<>>
  /\ prioNotif' = Append(prioNotif, Head(r2c))
  /\ r2c' = Tail(r2c)
  /\ UNCHANGED <<srQueue, sendingMsgs, retransmittingMsgs, retransmitReqs,
                 network, lost, c2r, receiverVars, sendPosted, recvPosted, cq,
                 rrIssued>>

(* ---------------- receiver side ---------------- *)

\* RdEndpoint::HandleReceivedData at R
ReceiverDispatch ==
  /\ c2r # <<>>
  /\ LET s == Head(c2r)
     IN CASE s.type = "FlowStart" ->
               /\ maxSeq' = (s.msg :> s.maxSeq) @@ maxSeq
               /\ UNCHANGED recvNotif
          [] s.type = "FlowFinish" ->
               /\ recvNotif' = Append(recvNotif,
                                 [type |-> "FinishFlow", msg |-> s.msg,
                                  maxSeq |-> maxSeq[s.msg]])
               /\ UNCHANGED maxSeq
          [] s.type = "StopConfirm" ->
               /\ recvNotif' = Append(recvNotif,
                                 [type |-> "ConfirmStop", msg |-> s.msg, maxSeq |-> 0])
               /\ maxSeq' = DropKey(maxSeq, s.msg)
  /\ c2r' = Tail(c2r)
  /\ UNCHANGED <<senderVars, network, lost, r2c, rrQueue, recvMsgs, backlog,
                 freeSlots, sendPosted, recvPosted, cq, rrIssued>>

\* MLTCommunicator::PostRecv
PostRecv(m) ==
  /\ m \notin recvPosted
  /\ recvPosted' = recvPosted \cup {m}
  /\ rrQueue' = Append(rrQueue, m)
  /\ UNCHANGED <<senderVars, network, lost, c2r, r2c, maxSeq, recvNotif,
                 recvMsgs, backlog, freeSlots, sendPosted, cq, rrIssued>>

\* ReceivingChannel::HandleReceive of one datagram
HandleReceive(p) ==
  /\ p \in network
  /\ network' = network \ {p}
  /\ IF p.msg \in DOMAIN recvMsgs
     THEN LET r    == CopyGradients(recvMsgs[p.msg], p)
              stop == ShouldStop(r)
          IN /\ recvMsgs' = [recvMsgs EXCEPT ![p.msg] =
                               [r.ext EXCEPT !.stopped = @ \/ stop]]
             /\ r2c' = IF stop THEN Append(r2c, StopRequest(p.msg))
                       ELSE r2c
             /\ UNCHANGED <<backlog, freeSlots>>
     ELSE /\ IF freeSlots > 0
             THEN /\ backlog' = [backlog EXCEPT ![p.msg] = Append(@, p)]
                  /\ freeSlots' = freeSlots - 1
             ELSE UNCHANGED <<backlog, freeSlots>>
          /\ UNCHANGED <<recvMsgs, r2c>>
  /\ UNCHANGED <<senderVars, lost, c2r, maxSeq, recvNotif, rrQueue, sendPosted,
                 recvPosted, cq, rrIssued>>

\* the network drops a datagram
Lose(p) ==
  /\ p \in network
  /\ lost < MaxLoss
  /\ network' = network \ {p}
  /\ lost' = lost + 1
  /\ UNCHANGED <<senderVars, c2r, r2c, receiverVars, sendPosted, recvPosted,
                 cq, rrIssued>>

\* ReceivingChannel::PollReceiveRequest: register the message, copy its
\* staged datagrams in, return their slots, then set the bound
PollReceiveRequest ==
  /\ rrQueue # <<>>
  /\ LET m == Head(rrQueue)
         drained == FoldLeft(LAMBDA e, p : CopyGradients(e, p).ext, NewExt, backlog[m])
     IN /\ recvMsgs' = (m :> [drained EXCEPT !.bound = Bound]) @@ recvMsgs
        /\ freeSlots' = freeSlots + Len(backlog[m])
        /\ backlog' = [backlog EXCEPT ![m] = <<>>]
  /\ rrQueue' = Tail(rrQueue)
  /\ UNCHANGED <<senderVars, network, lost, c2r, r2c, maxSeq, recvNotif,
                 sendPosted, recvPosted, cq, rrIssued>>

\* variant: a flow with no registered receive is taken as finished
FinishFlowSkipUnposted(m, ms) ==
  LET found  == m \in DOMAIN recvMsgs
      e      == recvMsgs[m]
      finish == ~found \/ e.bytes >= e.bound
      last   == (ms + 1) % Uint32Mod
      tree1  == IF e.bsize <= ms THEN TreeResize(e.tree, e.bsize, last) ELSE e.tree
      e1     == [e EXCEPT !.tree = tree1, !.bsize = IF e.bsize <= ms THEN last ELSE @]
      blocks == TreeSerialize(tree1)
  IN IF finish \/ blocks = <<>>
     THEN /\ recvMsgs' = IF ~finish THEN [recvMsgs EXCEPT ![m] = e1] ELSE recvMsgs
          /\ UNCHANGED <<r2c, rrIssued>>
     ELSE /\ recvMsgs' = [recvMsgs EXCEPT ![m] = e1]
          /\ r2c' = Append(r2c, RetransmitRequest(m, blocks))
          /\ rrIssued' = rrIssued \cup {<<m, found>>}

\* ReceivingChannel::FinishFlow: unless the bound is met, request the
\* missing ranges ([0, max_seq_num + 1) if the receive is not posted yet);
\* a tracker with nothing missing sends nothing
FinishFlow(m, ms) ==
  LET found  == m \in DOMAIN recvMsgs
      e      == recvMsgs[m]
      finish == found /\ e.bytes >= e.bound
      last   == (ms + 1) % Uint32Mod
      tree1  == IF e.bsize <= ms THEN TreeResize(e.tree, e.bsize, last) ELSE e.tree
      e1     == [e EXCEPT !.tree = tree1, !.bsize = IF e.bsize <= ms THEN last ELSE @]
      blocks == IF found THEN TreeSerialize(tree1) ELSE <<<<0, last>>>>
  IN IF finish \/ blocks = <<>>
     THEN /\ recvMsgs' = IF found /\ ~finish THEN [recvMsgs EXCEPT ![m] = e1]
                         ELSE recvMsgs
          /\ UNCHANGED <<r2c, rrIssued>>
     ELSE /\ recvMsgs' = IF found THEN [recvMsgs EXCEPT ![m] = e1] ELSE recvMsgs
          /\ r2c' = Append(r2c, RetransmitRequest(m, blocks))
          /\ rrIssued' = rrIssued \cup {<<m, found>>}

\* ReceivingChannel::ConfirmStop: Recv completion, erase the entry
ConfirmStop(m) ==
  /\ PushCompletion(Completion("Recv", m, recvMsgs[m].bytes))
  /\ recvMsgs' = DropKey(recvMsgs, m)
  /\ UNCHANGED <<r2c, rrIssued>>

PollRecvNotification ==
  /\ recvNotif # <<>>
  /\ LET n == Head(recvNotif)
     IN IF n.type = "FinishFlow" THEN /\ FinishFlow(n.msg, n.maxSeq)
                                      /\ UNCHANGED cq
        ELSE ConfirmStop(n.msg)
  /\ recvNotif' = Tail(recvNotif)
  /\ UNCHANGED <<senderVars, network, lost, c2r, maxSeq, rrQueue, backlog,
                 freeSlots, sendPosted, recvPosted>>

\* every posted message has completed on both sides; the channel threads
\* keep polling empty queues
Quiescent ==
  /\ sendPosted = Msgs /\ recvPosted = Msgs
  /\ \A m \in Msgs : \A t \in {"Send", "Recv"} : \E i \in DOMAIN cq :
        cq[i].type = t /\ cq[i].msg = m
  /\ UNCHANGED vars

-----------------------------------------------------------------------------
Next ==
  \/ Quiescent
  \/ \E m \in Msgs : PostSend(m)
  \/ PopSendRequest
  \/ SendPacket
  \/ RetransmitPacket
  \/ PollPrioNotification
  \/ SenderDispatch
  \/ ReceiverDispatch
  \/ \E m \in Msgs : PostRecv(m)
  \/ \E p \in network : HandleReceive(p) \/ Lose(p)
  \/ PollReceiveRequest
  \/ PollRecvNotification

\* Every datagram a sender can route, for per-datagram fairness
PacketSpace == {Packet(m, s, PayloadBound * s) : m \in Msgs,
                                                 s \in 0 .. GetMaxSeqNum(Size)}

\* WF_vars(PollReceiveRequest) written out: the action is enabled exactly
\* when rr_queue_ is non-empty (it always pops one request), so its weak
\* fairness is the formula below, which spares TLC an ENABLED evaluation
\* of the backlog drain
PollReceiveRequestFair ==
  []<>(rrQueue = <<>>) \/ []<><<PollReceiveRequest>>_vars

\* Each channel thread loops forever with a bounded epoll/poll timeout and
\* pops its queues on every iteration, so each of its steps is weakly fair;
\* a datagram in flight is eventually received unless lost.  The users are
\* not obliged to post anything.
Fairness ==
  /\ WF_vars(PopSendRequest) /\ WF_vars(SendPacket) /\ WF_vars(RetransmitPacket)
  /\ WF_vars(PollPrioNotification) /\ WF_vars(SenderDispatch)
  /\ WF_vars(ReceiverDispatch) /\ PollReceiveRequestFair
  /\ WF_vars(PollRecvNotification)
  /\ \A p \in PacketSpace : WF_vars(HandleReceive(p))

Spec == Init /\ [][Next]_vars /\ Fairness

-----------------------------------------------------------------------------
(* Properties *)

Completions(t, m) == {i \in DOMAIN cq : cq[i].type = t /\ cq[i].msg = m}

\* bytes_received recomputed from the gap tracker: the payloads of the
\* sequence numbers it marks as taken
TrackedBytes(e) ==
  MapThenSumSet(LAMBDA s : PayloadLen(PayloadBound * s),
                {s \in 0 .. e.bsize - 1 : TreeCheck(e.tree, s)})

TypeOK ==
  /\ srQueue \in Seq(Msgs)
  /\ DOMAIN sendingMsgs \subseteq Msgs /\ retransmittingMsgs \subseteq Msgs
  /\ DOMAIN retransmitReqs \subseteq Msgs
  /\ network \subseteq PacketSpace /\ lost \in 0 .. MaxLoss
  /\ DOMAIN maxSeq \subseteq Msgs /\ DOMAIN recvMsgs \subseteq Msgs
  /\ \A m \in DOMAIN recvMsgs : recvMsgs[m].bytes \in 0 .. Size
  /\ freeSlots \in 0 .. BacklogSlots
  /\ sendPosted \subseteq Msgs /\ recvPosted \subseteq Msgs /\ rrIssued \subseteq Msgs \X BOOLEAN
  /\ \A i \in DOMAIN cq : cq[i].type \in {"Send", "Recv"} /\ cq[i].msg \in Msgs

(* The CHECKs of the sender's priority thread never abort it: a popped   *)
(* send request is not already sending (priority_channel.cc:64), and the *)
(* retransmit request served first belongs to a fully sent message whose  *)
(* cursor lies inside the current block (priority_channel.cc:156,168,170).*)
(* They rely on the order in which the two TCP directions and the two     *)
(* threads of each side interleave.                                       *)
SenderChecksHold ==
  /\ srQueue # <<>> => Head(srQueue) \notin DOMAIN sendingMsgs
  /\ retransmitReqs # <<>> =>
       LET m == Min(DOMAIN retransmitReqs)
           r == retransmitReqs[m]
       IN /\ m \in retransmittingMsgs
          /\ r.blockNum < Len(r.blocks)
          /\ r.blocks[r.blockNum + 1][1] <= r.seqNum
          /\ r.seqNum < r.blocks[r.blockNum + 1][2]

(* The CHECKs of the receiver never abort it: FlowFinish finds the       *)
(* max_seq_num its FlowStart recorded (rd_endpoint.cc:185); a posted     *)
(* receive is not registered twice (receiving_channel.cc:157); the       *)
(* FinishFlow resize grows the tracker (tree_block_mgr.h:22); ConfirmStop *)
(* finds its entry (receiving_channel.cc:277); and no datagram copies    *)
(* past the end of the buffer (ltmessage.h:74).                           *)
ReceiverChecksHold ==
  /\ c2r # <<>> /\ Head(c2r).type = "FlowFinish" => Head(c2r).msg \in DOMAIN maxSeq
  /\ rrQueue # <<>> => Head(rrQueue) \notin DOMAIN recvMsgs
  /\ recvNotif # <<>> =>
       LET n == Head(recvNotif)
       IN /\ n.type = "ConfirmStop" => n.msg \in DOMAIN recvMsgs
          /\ (/\ n.type = "FinishFlow" /\ n.msg \in DOMAIN recvMsgs
              /\ recvMsgs[n.msg].bytes < recvMsgs[n.msg].bound
              /\ recvMsgs[n.msg].bsize <= n.maxSeq)
             => (n.maxSeq + 1) % Uint32Mod > recvMsgs[n.msg].bsize
  /\ \A p \in network : p.offset + p.len <= Size

(* Each PostSend yields exactly one Send completion and each PostRecv     *)
(* exactly one Recv completion (spec 8.5): the receiving thread sends one *)
(* StopRequest per message, guarded by LtMessageExt::stopped, and the     *)
(* sender answers each with one StopConfirm.                              *)
CompletionsOnce ==
  \A m \in Msgs : /\ Cardinality(Completions("Send", m)) <= 1
                  /\ Cardinality(Completions("Recv", m)) <= 1

(* bytes_received always equals the payload of the sequence numbers the  *)
(* gap tracker has taken (spec 8.3), across backlog draining, duplicate  *)
(* and retransmitted datagrams, and FinishFlow's resizes.                *)
BytesMatchTracker ==
  \A m \in DOMAIN recvMsgs : recvMsgs[m].bytes = TrackedBytes(recvMsgs[m])

(* A Recv completion reports at least the bound the receiver asked for    *)
(* (spec 8.4): StopRequest is sent only once the bound is met, and only   *)
(* the StopConfirm answering it completes the receive.                    *)
RecvCompletionMeetsBound ==
  \A i \in DOMAIN cq : cq[i].type = "Recv" => cq[i].bytes >= Bound

(* With no datagram lost, a receiver whose receive is registered never    *)
(* requests a retransmission (spec 8.7 and scenario S1).  RoutePacket     *)
(* enqueues FlowFinish when the last datagram is queued at the UDP        *)
(* endpoint, not when it leaves, so the control path may overtake it.     *)
NoRetransmitWithoutLoss ==
  lost = 0 => \A r \in rrIssued : ~r[2]

(* A message both posted is eventually completed on both sides.           *)
TransferCompletes ==
  \A m \in Msgs : (m \in sendPosted /\ m \in recvPosted)
                   ~> (Completions("Send", m) # {} /\ Completions("Recv", m) # {})
=============================================================================
