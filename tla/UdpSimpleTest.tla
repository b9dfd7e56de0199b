---------------------------- MODULE UdpSimpleTest ----------------------------
(***************************************************************************)
(* The UDP_SIMPLE mode of TestMLTApp (src/src/mlt_van.h) run on every      *)
(* node, down to the end of the process: RunTestUdpSimple posts a receive  *)
(* from every peer, passes two Barriers, posts a send to every peer, polls *)
(* the completion queue until every send and receive has completed, passes *)
(* a third Barrier, and Finalize tears the communicator down               *)
(* (StopUdpReceiving, RemoveConnection of every peer, then the threads are *)
(* terminated and joined).                                                 *)
(*                                                                         *)
(* A Barrier is a round of metas (SendMetaAsync / RecvMeta) between the    *)
(* root, the smallest rank, and every other node.  Metas, StopRequests and *)
(* StopConfirms share each node's reliable tx_queue_ (a ThreadsafeQueue   *)
(* of several producers) and the TCP connection to each peer.              *)
(*                                                                         *)
(* The datagram transfer of one message is abstracted to one step of the   *)
(* receiver's receiving thread, BoundMet, which is where HandleReceive     *)
(* sends the StopRequest; MltTransfer checks that this step is reached.    *)
(* Connections are set up before the run starts (ConnLifecycle checks the  *)
(* set-up).  Only UserData, StopRequest and StopConfirm frames are kept.   *)
(***************************************************************************)
EXTENDS Naturals, Sequences, FiniteSets, SequencesExt

CONSTANT Nodes   \* ranks (integers: RootRank takes the smallest)

Peers(n) == Nodes \ {n}

\* TestMLTApp::RootRank: std::min_element over nodes_ by id
Root == CHOOSE r \in Nodes : \A m \in Nodes : r <= m
NonRoots == Nodes \ {Root}

\* a buffer of the reliable tx queue: its signal type and destination
Frame(k, d) == [kind |-> k, dest |-> d]
Kinds == {"meta", "stopReq", "stopConf"}

\* the calls of a loop over nodes_ (the host file's order, taken here as
\* rank order: each call goes to a different peer's queue or endpoint and
\* the loops run without a step of the user thread in between, so the
\* order does not change what the peers see)
InRankOrder(S) == SetToSortSeq(S, <)

VARIABLES
  pc,          \* where the user thread is in Run
  bar,         \* bar[n]: which of the three Barrier calls n is in or past
  ranks,       \* ranks[n]: the root's vector of ranks received this Barrier
  recvPosted,  \* recvPosted[n]: n's PostRecv loop has run
  sendPosted,  \* sendPosted[n]: n's PostSend loop has run
  boundMet,    \* boundMet[r]: senders whose message met r's bound
  sendDone,    \* sendDone[n]: peers of n's Send completions
  recvDone,    \* recvDone[n]: peers of n's Recv completions
  txq,         \* txq[n]: reliable tx_queue_
  ctrl,        \* ctrl[n][d]: n's endpoint for d: "live" or "dead"
  stream,      \* stream[n][d]: frames routed to n's endpoint for d, not
               \* yet read by d (written, or in the endpoint's tx_queue_)
  relNotif,    \* reliable notification_queue_: REMOVE_ENDPOINT peers
  metaQueue,   \* meta_queue_: senders of the UserData buffers
  recvTerm,    \* the receiving thread's terminated_
  term,        \* the priority and reliable threads' terminated_
  relExited    \* relExited[n]: n's reliable thread has left Run

user == <<pc, bar, ranks, recvPosted, sendPosted>>
chan == <<boundMet, sendDone, recvDone, txq, ctrl, stream>>
queues == <<relNotif, metaQueue>>
life == <<recvTerm, term, relExited>>
vars == <<user, chan, queues, life>>

TypeOK ==
  /\ pc \in [Nodes -> {"postRecv", "bsend", "brecv", "postSend", "poll",
                       "finalize", "terminate", "join", "done"}]
  /\ bar \in [Nodes -> 0 .. 3]
  /\ \A n \in Nodes :
       /\ ranks[n] \in Seq(Peers(n))
       /\ boundMet[n] \cup sendDone[n] \cup recvDone[n] \subseteq Peers(n)
       /\ txq[n] \in Seq([kind : Kinds, dest : Peers(n)])
       /\ ctrl[n] \in [Peers(n) -> {"live", "dead"}]
       /\ \A d \in Peers(n) : stream[n][d] \in Seq(Kinds)
       /\ relNotif[n] \in Seq(Peers(n))
       /\ metaQueue[n] \in Seq(Peers(n))
  /\ recvPosted \in [Nodes -> BOOLEAN]
  /\ sendPosted \in [Nodes -> BOOLEAN]
  /\ recvTerm \in [Nodes -> BOOLEAN]
  /\ term \in [Nodes -> BOOLEAN]
  /\ relExited \in [Nodes -> BOOLEAN]

Init ==
  /\ pc = [n \in Nodes |-> "postRecv"]
  /\ bar = [n \in Nodes |-> 0]
  /\ ranks = [n \in Nodes |-> <<>>]
  /\ recvPosted = [n \in Nodes |-> FALSE]
  /\ sendPosted = [n \in Nodes |-> FALSE]
  /\ boundMet = [n \in Nodes |-> {}]
  /\ sendDone = [n \in Nodes |-> {}]
  /\ recvDone = [n \in Nodes |-> {}]
  /\ txq = [n \in Nodes |-> <<>>]
  /\ ctrl = [n \in Nodes |-> [d \in Peers(n) |-> "live"]]
  /\ stream = [n \in Nodes |-> [d \in Peers(n) |-> <<>>]]
  /\ relNotif = [n \in Nodes |-> <<>>]
  /\ metaQueue = [n \in Nodes |-> <<>>]
  /\ recvTerm = [n \in Nodes |-> FALSE]
  /\ term = [n \in Nodes |-> FALSE]
  /\ relExited = [n \in Nodes |-> FALSE]

-----------------------------------------------------------------------------
(* The user thread: RunTestUdpSimple, Barrier and Finalize                 *)

\* Barrier(RootRank()) is entered: the root starts by sending, the others
\* by waiting in RecvMeta
EnterBarrier(n, b) ==
  /\ bar' = [bar EXCEPT ![n] = b]
  /\ pc' = [pc EXCEPT ![n] = IF n = Root THEN "bsend" ELSE "brecv"]

\* variant: Run without the second Barrier before the PostSend loop
LeaveBarrierSkipSecond(n) ==
  /\ pc' = [pc EXCEPT ![n] = IF bar[n] \in {1, 2} THEN "postSend" ELSE "finalize"]
  /\ UNCHANGED bar

\* Barrier returns: the first is followed by the second, the second by the
\* PostSend loop, the third (after the completions) by Finalize
LeaveBarrier(n) ==
  IF bar[n] = 1
  THEN EnterBarrier(n, 2)
  ELSE /\ pc' = [pc EXCEPT ![n] = IF bar[n] = 2 THEN "postSend" ELSE "finalize"]
       /\ UNCHANGED bar

\* the PostRecv loop over the peers, then the first Barrier
PostRecvs(n) ==
  /\ pc[n] = "postRecv"
  /\ recvPosted' = [recvPosted EXCEPT ![n] = TRUE]
  /\ EnterBarrier(n, 1)
  /\ UNCHANGED <<ranks, sendPosted, chan, queues, life>>

\* variant: the ranks vector kept from the previous Barrier
BarrierSendNoReset(n) ==
  /\ pc[n] = "bsend"
  /\ txq' = [txq EXCEPT ![n] =
               @ \o [i \in 1 .. Cardinality(NonRoots) |->
                       Frame("meta", InRankOrder(NonRoots)[i])]]
  /\ pc' = [pc EXCEPT ![n] = "brecv"]
  /\ UNCHANGED <<bar, ranks, recvPosted, sendPosted, boundMet, sendDone,
                 recvDone, ctrl, stream, queues, life>>

\* the root's Barrier: a meta to every other node (SendMetaAsync enqueues
\* it on the reliable tx_queue_); its ranks vector starts empty
BarrierSend(n) ==
  /\ pc[n] = "bsend"
  /\ txq' = [txq EXCEPT ![n] =
               @ \o [i \in 1 .. Cardinality(NonRoots) |->
                       Frame("meta", InRankOrder(NonRoots)[i])]]
  /\ ranks' = [ranks EXCEPT ![n] = <<>>]
  /\ pc' = [pc EXCEPT ![n] = "brecv"]
  /\ UNCHANGED <<bar, recvPosted, sendPosted, boundMet, sendDone, recvDone,
                 ctrl, stream, queues, life>>

\* the root's RecvMeta loop, one meta per call; after the last one the
\* ranks are sorted and CHECKed unique, and Barrier returns
BarrierRecvRoot(n) ==
  /\ n = Root
  /\ pc[n] = "brecv"
  /\ metaQueue[n] # <<>>
  /\ ranks' = [ranks EXCEPT ![n] = Append(@, Head(metaQueue[n]))]
  /\ metaQueue' = [metaQueue EXCEPT ![n] = Tail(@)]
  /\ IF Len(ranks[n]) + 1 = Cardinality(NonRoots)
     THEN LeaveBarrier(n)
     ELSE UNCHANGED <<pc, bar>>
  /\ UNCHANGED <<recvPosted, sendPosted, chan, relNotif, life>>

\* variant: the reply addressed to the node's own rank
BarrierRecvPeerSelf(n) ==
  /\ n # Root
  /\ pc[n] = "brecv"
  /\ metaQueue[n] # <<>>
  /\ metaQueue' = [metaQueue EXCEPT ![n] = Tail(@)]
  /\ txq' = [txq EXCEPT ![n] = Append(@, Frame("meta", n))]
  /\ LeaveBarrier(n)
  /\ UNCHANGED <<ranks, recvPosted, sendPosted, boundMet, sendDone, recvDone,
                 ctrl, stream, relNotif, life>>

\* another node's Barrier: RecvMeta (CHECK_EQ(dest, root)), then a meta
\* back to the root, and Barrier returns
BarrierRecvPeer(n) ==
  /\ n # Root
  /\ pc[n] = "brecv"
  /\ metaQueue[n] # <<>>
  /\ metaQueue' = [metaQueue EXCEPT ![n] = Tail(@)]
  /\ txq' = [txq EXCEPT ![n] = Append(@, Frame("meta", Root))]
  /\ LeaveBarrier(n)
  /\ UNCHANGED <<ranks, recvPosted, sendPosted, boundMet, sendDone, recvDone,
                 ctrl, stream, relNotif, life>>

\* the PostSend loop over the peers; the FlowStarts it enqueues and the
\* datagrams are MltTransfer's part
PostSends(n) ==
  /\ pc[n] = "postSend"
  /\ sendPosted' = [sendPosted EXCEPT ![n] = TRUE]
  /\ pc' = [pc EXCEPT ![n] = "poll"]
  /\ UNCHANGED <<bar, ranks, recvPosted, chan, queues, life>>

\* the PollOnce loop ends once num_comps + 2 >= 2 * nodes_.size(); then
\* the third Barrier
PollCompletions(n) ==
  /\ pc[n] = "poll"
  /\ Cardinality(sendDone[n]) + Cardinality(recvDone[n]) + 2
       >= 2 * Cardinality(Nodes)
  /\ EnterBarrier(n, 3)
  /\ UNCHANGED <<ranks, recvPosted, sendPosted, chan, queues, life>>

\* TestMLTApp::Finalize up to mlt_comm->Finalize(): StopUdpReceiving
\* terminates the receiving thread; RemoveConnection of each peer queues
\* REMOVE_CONNECTION to the priority thread (it frees the ConnMeta, which
\* ConnLifecycle models), then REMOVE_ENDPOINT to the reliable thread
Finalize(n) ==
  /\ pc[n] = "finalize"
  /\ recvTerm' = [recvTerm EXCEPT ![n] = TRUE]
  /\ relNotif' = [relNotif EXCEPT ![n] = @ \o InRankOrder(Peers(n))]
  /\ pc' = [pc EXCEPT ![n] = "terminate"]
  /\ UNCHANGED <<bar, ranks, recvPosted, sendPosted, chan, metaQueue,
                 term, relExited>>

\* MLTCommunicator::Finalize: Terminate the three channel threads
Terminate(n) ==
  /\ pc[n] = "terminate"
  /\ term' = [term EXCEPT ![n] = TRUE]
  /\ pc' = [pc EXCEPT ![n] = "join"]
  /\ UNCHANGED <<bar, ranks, recvPosted, sendPosted, chan, queues, recvTerm,
                 relExited>>

\* ... then Join them, and Run returns.  The priority and receiving threads
\* see terminated_ within one epoll or poll timeout and leave Run; the
\* reliable thread leaves it at the end of its current iteration.
Join(n) ==
  /\ pc[n] = "join"
  /\ relExited[n]
  /\ pc' = [pc EXCEPT ![n] = "done"]
  /\ UNCHANGED <<bar, ranks, recvPosted, sendPosted, chan, queues, life>>

-----------------------------------------------------------------------------
(* The reliable thread: each iteration of ReliableChannel::Run handles the *)
(* ready endpoints, then drains the notification queue, then the tx queue, *)
(* and checks terminated_ before the next one.  The two drains and the     *)
(* check are one step: what other threads push meanwhile commutes with it. *)

\* the endpoint for d has an EPOLLIN event: a frame to read, or the peer
\* closed and everything it wrote has been read
RecvReady(n, d) ==
  /\ ctrl[n][d] = "live"
  /\ (stream[d][n] # <<>> \/ ctrl[d][n] = "dead")

\* variant: StopFlow enqueues the StopConfirm but pushes no Send completion
HandleReceivedDataNoSendComp(n, d, k) ==
  /\ metaQueue' = [metaQueue EXCEPT ![n] = IF k = "meta" THEN Append(@, d) ELSE @]
  /\ txq' = [txq EXCEPT ![n] =
               IF k = "stopReq" THEN Append(@, Frame("stopConf", d)) ELSE @]
  /\ UNCHANGED sendDone
  /\ recvDone' = [recvDone EXCEPT ![n] = IF k = "stopConf" THEN @ \cup {d} ELSE @]

\* HandleReceivedData of a frame from d: UserData goes to meta_queue_;
\* a StopRequest is a STOP_FLOW for the priority thread, whose StopFlow
\* enqueues the StopConfirm and then pushes the Send completion; a
\* StopConfirm is a CONFIRM_STOP for the receiving thread, whose
\* ConfirmStop pushes the Recv completion.  Both handlers only push, and
\* their thread cannot have left Run before them (a node tears down only
\* after all its completions), so they are taken at the read.
HandleReceivedData(n, d, k) ==
  /\ metaQueue' = [metaQueue EXCEPT ![n] = IF k = "meta" THEN Append(@, d) ELSE @]
  /\ txq' = [txq EXCEPT ![n] =
               IF k = "stopReq" THEN Append(@, Frame("stopConf", d)) ELSE @]
  /\ sendDone' = [sendDone EXCEPT ![n] = IF k = "stopReq" THEN @ \cup {d} ELSE @]
  /\ recvDone' = [recvDone EXCEPT ![n] = IF k = "stopConf" THEN @ \cup {d} ELSE @]

\* OnRecvReady: read and handle one whole frame
ReliableRecv(n, d) ==
  /\ ~relExited[n]
  /\ ctrl[n][d] = "live"
  /\ stream[d][n] # <<>>
  /\ HandleReceivedData(n, d, Head(stream[d][n]))
  /\ stream' = [stream EXCEPT ![d][n] = Tail(@)]
  /\ UNCHANGED <<user, boundMet, ctrl, relNotif, life>>

\* OnRecvReady reads 0 bytes: the peer has shut down; Disconnect closes the
\* socket, and what was routed to it and not yet written is lost
ReliableEof(n, d) ==
  /\ ~relExited[n]
  /\ ctrl[n][d] = "live"
  /\ stream[d][n] = <<>>
  /\ ctrl[d][n] = "dead"
  /\ ctrl' = [ctrl EXCEPT ![n][d] = "dead"]
  /\ \E p \in Prefixes(stream[n][d]) : stream' = [stream EXCEPT ![n][d] = p]
  /\ UNCHANGED <<user, boundMet, sendDone, recvDone, txq, queues, life>>

\* the kinds of the buffers of n's tx queue for d, in queue order
ToDest(n, d) ==
  LET fs == SelectSeq(txq[n], LAMBDA f : f.dest = d)
  IN [i \in 1 .. Len(fs) |-> fs[i].kind]

\* Once the epoll round has no event left: the notification loop
\* disconnects each live endpoint named by a REMOVE_ENDPOINT
\* (RemoveEndpoint); the tx loop appends each buffer to its endpoint's
\* tx_queue_ (never written if the endpoint is disconnected); then, if
\* terminated_ is set, Run returns and nothing more is written to any
\* socket, which the process closes as it exits.  Of what a closed socket
\* was routed, the part already written (a prefix) still reaches the peer.
ReliableIteration(n) ==
  LET removed == {d \in Range(relNotif[n]) : ctrl[n][d] = "live"}
      open(d) == ctrl[n][d] = "live" /\ d \notin removed
      routed(d) == IF open(d) THEN stream[n][d] \o ToDest(n, d)
                   ELSE stream[n][d]
      closing == removed \cup {d \in Peers(n) : term[n] /\ open(d)}
  IN /\ ~relExited[n]
     /\ \A d \in Peers(n) : ~RecvReady(n, d)
     /\ relNotif' = [relNotif EXCEPT ![n] = <<>>]
     /\ txq' = [txq EXCEPT ![n] = <<>>]
     /\ ctrl' = [ctrl EXCEPT ![n] =
                   [d \in Peers(n) |-> IF d \in closing THEN "dead" ELSE @[d]]]
     /\ \E p \in [Peers(n) -> UNION {Prefixes(routed(d)) : d \in Peers(n)}] :
          /\ \A d \in Peers(n) :
               IF d \in closing THEN p[d] \in Prefixes(routed(d))
               ELSE p[d] = routed(d)
          /\ stream' = [stream EXCEPT ![n] = p]
     /\ relExited' = [relExited EXCEPT ![n] = term[n]]
     /\ UNCHANGED <<user, boundMet, sendDone, recvDone, metaQueue, recvTerm,
                    term>>

-----------------------------------------------------------------------------
(* The receiving thread                                                    *)

\* HandleReceive: the message from s has met r's bound (the datagrams s's
\* priority thread sends, MltTransfer); the StopRequest is enqueued once
BoundMet(r, s) ==
  /\ ~recvTerm[r]
  /\ recvPosted[r]
  /\ sendPosted[s]
  /\ ~term[s]
  /\ s \notin boundMet[r]
  /\ boundMet' = [boundMet EXCEPT ![r] = @ \cup {s}]
  /\ txq' = [txq EXCEPT ![r] = Append(@, Frame("stopReq", s))]
  /\ UNCHANGED <<user, sendDone, recvDone, ctrl, stream, queues, life>>

-----------------------------------------------------------------------------
\* Every node's Run has returned: the processes have exited.
Finished ==
  /\ \A n \in Nodes : pc[n] = "done"
  /\ UNCHANGED vars

User(n) ==
  \/ PostRecvs(n) \/ BarrierSend(n) \/ BarrierRecvRoot(n)
  \/ BarrierRecvPeer(n) \/ PostSends(n) \/ PollCompletions(n)
  \/ Finalize(n) \/ Terminate(n) \/ Join(n)

Reliable(n) ==
  \/ \E d \in Peers(n) : ReliableRecv(n, d) \/ ReliableEof(n, d)
  \/ ReliableIteration(n)

Receiving(n) ==
  \E s \in Peers(n) : BoundMet(n, s)

Next ==
  \/ \E n \in Nodes : User(n) \/ Reliable(n) \/ Receiving(n)
  \/ Finished

\* Each channel thread loops until terminated_, polling all of its queues
\* and its sockets on every iteration; the user thread runs the test's
\* fixed sequence of calls, each blocking call returning once what it
\* waits for is there.  A message whose sender and receiver have both
\* posted meets its bound (MltTransfer's TransferCompletes).
Fairness ==
  \A n \in Nodes :
    /\ WF_vars(User(n))
    /\ WF_vars(Reliable(n))
    /\ WF_vars(Receiving(n))

Spec == Init /\ [][Next]_vars /\ Fairness

-----------------------------------------------------------------------------
\* The root's CHECK in Barrier never fires: within one Barrier call the
\* root's RecvMeta loop gets one meta from each other node, never two from
\* the same node, although a fast node's metas of consecutive Barriers and
\* the StopRequests and StopConfirms all share the same TCP connections.
BarrierChecksHold == \A i, j \in DOMAIN ranks[Root] :
                       i # j => ranks[Root][i] # ranks[Root][j]

\* The two Barriers between the PostRecv and PostSend loops make every
\* receive posted before any send: no node posts a send until every node,
\* not only the root, has posted its receives (one Barrier would only
\* order each node after the root).
SendsAfterAllRecvsPosted ==
  \A n \in Nodes : sendPosted[n] => \A m \in Nodes : recvPosted[m]

\* Every send the test posts completes: eventually each node holds a Send
\* completion for every peer, so every StopRequest reaches its sender's
\* priority thread whatever the other nodes' teardown does (a receiver
\* only tears down after its own Recv completions).  Every node does post
\* its sends: no frame is lost before a node starts tearing down.
SendsComplete == <>(\A n \in Nodes : sendDone[n] = Peers(n))

\* The test ends: every node's RunTestUdpSimple and Finalize return.
TestReturns == <>(\A n \in Nodes : pc[n] = "done")
====
