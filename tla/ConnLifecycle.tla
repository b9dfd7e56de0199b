---------------------------- MODULE ConnLifecycle ----------------------------
(***************************************************************************)
(* Connection set-up and tear-down between communicators: the user calls  *)
(* AddConnection, PostSend, PostRecv and RemoveConnection                   *)
(* (mlt_communicator.cc), the reliable channel thread accepting control    *)
(* connections and routing its tx queue (reliable_channel.cc), and the     *)
(* priority channel thread's connection table conn_metas_ / conn_meta_map_ *)
(* with FindConnMetaById (priority_channel.cc).                             *)
(*                                                                         *)
(* Each node's user thread runs TestMLTApp (mlt_van.h): it connects to    *)
(* every peer, exchanges one meta with each (RunTestConnection), posts one *)
(* send and one receive per peer, and removes a connection once its send  *)
(* request has been served (the point where the Send completion can be    *)
(* awaited).  Metas travel over each pair's TCP connection, which both     *)
(* sides' reliable threads read and write.                                 *)
(* A ConnMeta is named by the peer it is for; each pair is connected once. *)
(* Each channel thread runs the phases of its loop in program order.       *)
(***************************************************************************)
EXTENDS Naturals, Sequences, FiniteSets, TLC

CONSTANTS
  Nodes,        \* comm ids of the communicators (integers: they are compared)
  MetaExchange  \* TRUE: the user runs RunTestConnection before posting

Peers(n) == Nodes \ {n}

\* what a vector slot or map lookup can yield: a peer's ConnMeta, or a read
\* outside the vector's storage (null or garbage pointer: the process dies)
Crash == 0

VARIABLES
  waiting,     \* waiting[n]: peers n's AddConnection is spinning for
  added,       \* added[n]: peers whose AddConnection returned
  sent,        \* sent[n]: peers PostSend was called for
  recvd,       \* recvd[n]: peers PostRecv was called for
  removed,     \* removed[n]: peers RemoveConnection was called for
  idConn,      \* idConn[n][d]: id_conn_ entry: "absent", "live", "null"
  pending,     \* pending[n]: peers whose connect waits in n's listen queue
  ctrl,        \* ctrl[n][d]: ctrl_endpoints_ entry: "absent", "live", "dead"
  relPc,       \* reliable thread phase: "accept", "register", "notif", "tx"
  accepting,   \* accepting[n]: the peer HandleNewConnection is registering
  relNotif,    \* reliable notification_queue_
  relTx,       \* reliable tx_queue_: dests of queued FlowStarts
  dropped,     \* dropped[n]: peers a FlowStart was dropped for
  prioPc,      \* priority thread phase: "sr", "notif"
  srQueue,     \* sr_queue_: dests of send requests
  prioNotif,   \* priority notification_queue_
  connMetas,   \* storage of the vector conn_metas_ (slots past its size kept)
  connLen,     \* conn_metas_.size()
  connMetaMap, \* conn_meta_map_: peer -> index
  served,      \* served[n]: [dest, conn] of each popped send request
  crashed,     \* crashed[n]: the process died
  metaSent,    \* metaSent[n]: peers SendMetaAsync was called for
  metaGot,     \* metaGot[n]: senders of the metas RecvMeta returned
  stream,      \* stream[n][d]: UserData frames n's endpoint for d has
               \* written to the TCP connection and d has not read yet
  metaQueue    \* meta_queue_: senders of the UserData buffers

user == <<waiting, added, sent, recvd, removed>>
rel == <<pending, ctrl, relPc, accepting, relNotif, relTx, dropped>>
prio == <<prioPc, srQueue, prioNotif, connMetas, connLen, connMetaMap, served>>
meta == <<metaSent, metaGot, stream, metaQueue>>
vars == <<user, idConn, rel, prio, crashed, meta>>

Notif(t, d) == [type |-> t, peer |-> d]

\* a buffer of the reliable tx queue: its signal type and destination
Frame(k, d) == [kind |-> k, dest |-> d]
Frames == [kind : {"meta", "start"}, dest : Nodes]

TypeOK ==
  /\ \A n \in Nodes :
       /\ waiting[n] \cup added[n] \cup sent[n] \cup recvd[n] \cup removed[n]
            \subseteq Peers(n)
       /\ Cardinality(waiting[n]) <= 1
       /\ idConn[n] \in [Peers(n) -> {"absent", "live", "null"}]
       /\ ctrl[n] \in [Peers(n) -> {"absent", "live", "dead"}]
       /\ pending[n] \subseteq Peers(n)
       /\ relPc[n] \in {"accept", "register", "notif", "tx"}
       /\ accepting[n] \subseteq Peers(n)
       /\ prioPc[n] \in {"sr", "notif"}
       /\ connMetas[n] \in Seq(Peers(n))
       /\ connLen[n] \in 0 .. Len(connMetas[n])
       /\ DOMAIN connMetaMap[n] \subseteq Peers(n)
       /\ \A d \in DOMAIN connMetaMap[n] :
            connMetaMap[n][d] \in 0 .. Cardinality(Peers(n)) - 1
       /\ served[n] \subseteq [dest : Peers(n), conn : Peers(n) \cup {Crash}]
  /\ crashed \in [Nodes -> BOOLEAN]
  /\ \A n \in Nodes :
       /\ metaSent[n] \cup metaGot[n] \subseteq Peers(n)
       /\ relTx[n] \in Seq(Frames)
       /\ \A d \in Peers(n) : stream[n][d] \in Seq({"meta"})
       /\ metaQueue[n] \in Seq(Peers(n))

Init ==
  /\ waiting = [n \in Nodes |-> {}]
  /\ added = [n \in Nodes |-> {}]
  /\ sent = [n \in Nodes |-> {}]
  /\ recvd = [n \in Nodes |-> {}]
  /\ removed = [n \in Nodes |-> {}]
  /\ idConn = [n \in Nodes |-> [d \in Peers(n) |-> "absent"]]
  /\ pending = [n \in Nodes |-> {}]
  /\ ctrl = [n \in Nodes |-> [d \in Peers(n) |-> "absent"]]
  /\ relPc = [n \in Nodes |-> "accept"]
  /\ accepting = [n \in Nodes |-> {}]
  /\ relNotif = [n \in Nodes |-> <<>>]
  /\ relTx = [n \in Nodes |-> <<>>]
  /\ dropped = [n \in Nodes |-> {}]
  /\ prioPc = [n \in Nodes |-> "sr"]
  /\ srQueue = [n \in Nodes |-> <<>>]
  /\ prioNotif = [n \in Nodes |-> <<>>]
  /\ connMetas = [n \in Nodes |-> <<>>]
  /\ connLen = [n \in Nodes |-> 0]
  /\ connMetaMap = [n \in Nodes |-> <<>>]
  /\ served = [n \in Nodes |-> {}]
  /\ crashed = [n \in Nodes |-> FALSE]
  /\ metaSent = [n \in Nodes |-> {}]
  /\ metaGot = [n \in Nodes |-> {}]
  /\ stream = [n \in Nodes |-> [d \in Peers(n) |-> <<>>]]
  /\ metaQueue = [n \in Nodes |-> <<>>]

\* The user thread of n is between calls (not spinning in AddConnection)
Idle(n) == ~crashed[n] /\ waiting[n] = {}

\* The endpoint for d has an EPOLLIN event pending
RecvReady(n, d) ==
  /\ ctrl[n][d] = "live"
  /\ (stream[d][n] # <<>> \/ ctrl[d][n] = "dead")

-----------------------------------------------------------------------------
(* User thread                                                             *)

\* variant: the wait branch dropped, every node connects
AddConnectionAlwaysConnect(n, d) ==
  /\ Idle(n)
  /\ d \notin added[n]
  /\ idConn' = [idConn EXCEPT ![n][d] = IF @ = "absent" THEN "live" ELSE @]
  /\ pending' = [pending EXCEPT ![d] = @ \cup {n}]
  /\ relNotif' = [relNotif EXCEPT ![n] = Append(@, Notif("add", d))]
  /\ prioNotif' = [prioNotif EXCEPT ![n] = Append(@, Notif("add", d))]
  /\ added' = [added EXCEPT ![n] = @ \cup {d}]
  /\ UNCHANGED <<waiting, sent, recvd, removed, ctrl, relPc, accepting, relTx,
                 dropped, prioPc, srQueue, connMetas, connLen, connMetaMap, served,
                 crashed, meta>>

\* MLTCommunicator::AddConnection(dest): the node with the larger comm id
\* spins until id_conn_ holds dest; the other one creates the ConnMeta,
\* connects (the peer's listen queue gets the connection), sends its comm
\* id, and notifies ADD_ENDPOINT and ADD_CONNECTION to its own threads.
AddConnection(n, d) ==
  /\ Idle(n)
  /\ d \notin added[n]
  /\ IF n >= d
     THEN /\ waiting' = [waiting EXCEPT ![n] = {d}]
          /\ UNCHANGED <<added, idConn, pending, relNotif, prioNotif>>
     ELSE /\ idConn' = [idConn EXCEPT ![n][d] = IF @ = "absent" THEN "live" ELSE @]
          /\ pending' = [pending EXCEPT ![d] = @ \cup {n}]
          /\ relNotif' = [relNotif EXCEPT ![n] = Append(@, Notif("add", d))]
          /\ prioNotif' = [prioNotif EXCEPT ![n] = Append(@, Notif("add", d))]
          /\ added' = [added EXCEPT ![n] = @ \cup {d}]
          /\ UNCHANGED waiting
  /\ UNCHANGED <<sent, recvd, removed, ctrl, relPc, accepting, relTx, dropped, prioPc,
                 srQueue, connMetas, connLen, connMetaMap, served, crashed, meta>>

\* One turn of the wait loop that ends it: if (!id_conn_.count(dest) == 0),
\* i.e. the entry exists (set by HandleNewConnection, or left null by a
\* RemoveConnection).  The other turns change nothing.
AddConnectionWait(n) ==
  /\ ~crashed[n]
  /\ \E d \in waiting[n] :
       /\ idConn[n][d] # "absent"
       /\ waiting' = [waiting EXCEPT ![n] = {}]
       /\ added' = [added EXCEPT ![n] = @ \cup {d}]
  /\ UNCHANGED <<sent, recvd, removed, idConn, rel, prio, crashed, meta>>

\* The user posts once TestMLTApp::RunTestConnection has returned (a meta
\* sent to every peer and one received from each), or at once when it
\* skips the test (the UDP_SIMPLE mode).
ConnectionTested(n) == ~MetaExchange \/ metaGot[n] = Peers(n)

\* MLTCommunicator::PostSend: FlowStart to the reliable tx queue, then the
\* send request to the priority channel.
PostSend(n, d) ==
  /\ Idle(n)
  /\ added[n] = Peers(n)
  /\ ConnectionTested(n)
  /\ d \notin sent[n]
  /\ relTx' = [relTx EXCEPT ![n] = Append(@, Frame("start", d))]
  /\ srQueue' = [srQueue EXCEPT ![n] = Append(@, d)]
  /\ sent' = [sent EXCEPT ![n] = @ \cup {d}]
  /\ UNCHANGED <<waiting, added, recvd, removed, idConn, pending, ctrl, relPc,
                 accepting, relNotif, dropped, prioPc, prioNotif, connMetas, connLen,
                 connMetaMap, served, crashed, meta>>

\* MLTCommunicator::SendMetaAsync: the buffer, copied behind a UserData
\* header, goes to the reliable tx queue.
SendMetaAsync(n, d) ==
  /\ MetaExchange
  /\ Idle(n)
  /\ added[n] = Peers(n)
  /\ d \notin metaSent[n]
  /\ relTx' = [relTx EXCEPT ![n] = Append(@, Frame("meta", d))]
  /\ metaSent' = [metaSent EXCEPT ![n] = @ \cup {d}]
  /\ UNCHANGED <<user, idConn, pending, ctrl, relPc, accepting, relNotif, dropped,
                 prio, crashed, metaGot, stream, metaQueue>>

\* MLTCommunicator::RecvMeta: WaitAndPop on meta_queue_ returns the sender
\* and copies the payload out (the call returns once a meta is queued).
RecvMeta(n) ==
  /\ Idle(n)
  /\ metaSent[n] = Peers(n)
  /\ metaQueue[n] # <<>>
  /\ metaGot' = [metaGot EXCEPT ![n] = @ \cup {Head(metaQueue[n])}]
  /\ metaQueue' = [metaQueue EXCEPT ![n] = Tail(@)]
  /\ UNCHANGED <<user, idConn, rel, prio, crashed, metaSent, stream>>

\* MLTCommunicator::PostRecv: CHECK_NOTNULL(id_conn_[dest]) under the lock,
\* then the receive goes to the receiving channel (not modelled here).
PostRecv(n, d) ==
  /\ Idle(n)
  /\ added[n] = Peers(n)
  /\ ConnectionTested(n)
  /\ d \notin recvd[n]
  /\ recvd' = [recvd EXCEPT ![n] = @ \cup {d}]
  /\ UNCHANGED <<waiting, added, sent, removed, idConn, rel, prio, crashed, meta>>

\* MLTCommunicator::RemoveConnection: REMOVE_CONNECTION to the priority
\* channel (which frees the ConnMeta), then REMOVE_ENDPOINT to the reliable
\* channel.  Called once the send to d has been served.
RemoveConnection(n, d) ==
  /\ Idle(n)
  /\ sent[n] = Peers(n) /\ recvd[n] = Peers(n)
  /\ d \notin removed[n]
  /\ \E r \in served[n] : r.dest = d
  /\ prioNotif' = [prioNotif EXCEPT ![n] = Append(@, Notif("remove", d))]
  /\ relNotif' = [relNotif EXCEPT ![n] = Append(@, Notif("remove", d))]
  /\ removed' = [removed EXCEPT ![n] = @ \cup {d}]
  /\ UNCHANGED <<waiting, added, sent, recvd, idConn, pending, ctrl, relPc,
                 accepting, relTx, dropped, prioPc, srQueue, connMetas, connLen,
                 connMetaMap, served, crashed, meta>>

-----------------------------------------------------------------------------
(* Reliable channel thread: one iteration of ReliableChannel::Run is an    *)
(* accept (at most one per epoll round: the listening socket is level-     *)
(* triggered), the notification loop, then the tx loop.                    *)

\* variant: the ConnMeta stored under the acceptor's own comm id
AcceptConnectionOwnId(n) ==
  /\ ~crashed[n]
  /\ relPc[n] = "accept"
  /\ IF pending[n] = {}
     THEN /\ \A d \in Peers(n) : ~RecvReady(n, d)
          /\ relPc' = [relPc EXCEPT ![n] = "notif"]
          /\ UNCHANGED <<idConn, pending, accepting>>
     ELSE \E d \in pending[n] :
            /\ idConn' = [idConn EXCEPT ![n][n] = "live"]
            /\ pending' = [pending EXCEPT ![n] = @ \ {d}]
            /\ accepting' = [accepting EXCEPT ![n] = {d}]
            /\ relPc' = [relPc EXCEPT ![n] = "register"]
  /\ UNCHANGED <<user, ctrl, relNotif, relTx, dropped, prio, crashed, meta>>

\* HandleNewConnection, first half: accept, read the peer's comm id, and
\* under the lock set id_conn_[dest] to a new ConnMeta.  The epoll round
\* ends once it has no listen event and no EPOLLIN event left (those are
\* ReliableRecv); data events the code handles after an accept in the same
\* round are handled in the next one here.
AcceptConnection(n) ==
  /\ ~crashed[n]
  /\ relPc[n] = "accept"
  /\ IF pending[n] = {}
     THEN /\ \A d \in Peers(n) : ~RecvReady(n, d)
          /\ relPc' = [relPc EXCEPT ![n] = "notif"]
          /\ UNCHANGED <<idConn, pending, accepting>>
     ELSE \E d \in pending[n] :
            /\ idConn' = [idConn EXCEPT ![n][d] = "live"]
            /\ pending' = [pending EXCEPT ![n] = @ \ {d}]
            /\ accepting' = [accepting EXCEPT ![n] = {d}]
            /\ relPc' = [relPc EXCEPT ![n] = "register"]
  /\ UNCHANGED <<user, ctrl, relNotif, relTx, dropped, prio, crashed, meta>>

\* HandleNewConnection, second half: AddEndpoint (CHECK_EQ(0, count)), then
\* ADD_CONNECTION to the priority channel.
RegisterConnection(n) ==
  /\ ~crashed[n]
  /\ relPc[n] = "register"
  /\ \E d \in accepting[n] :
       /\ ctrl' = [ctrl EXCEPT ![n][d] = "live"]
       /\ prioNotif' = [prioNotif EXCEPT ![n] = Append(@, Notif("add", d))]
  /\ accepting' = [accepting EXCEPT ![n] = {}]
  /\ relPc' = [relPc EXCEPT ![n] = "notif"]
  /\ UNCHANGED <<user, idConn, pending, relNotif, relTx, dropped, prioPc,
                 srQueue, connMetas, connLen, connMetaMap, served, crashed, meta>>

\* RdEndpoint::Disconnect: the socket is closed.  The frames already
\* written to it still reach the peer; those left in the endpoint's
\* tx_queue_ (a suffix of the stream here) never do.
Disconnect(n, d) ==
  \E k \in 0 .. Len(stream[n][d]) :
    stream' = [stream EXCEPT ![n][d] = SubSeq(@, 1, k)]

\* One TryPop of the notification loop: ADD_ENDPOINT is AddEndpoint;
\* REMOVE_ENDPOINT disconnects a live endpoint but keeps its map entry.
\* An empty queue ends the loop.
ReliableNotification(n) ==
  /\ ~crashed[n]
  /\ relPc[n] = "notif"
  /\ IF relNotif[n] = <<>>
     THEN /\ relPc' = [relPc EXCEPT ![n] = "tx"]
          /\ UNCHANGED <<ctrl, relNotif, stream>>
     ELSE LET m == Head(relNotif[n])
              closes == m.type = "remove" /\ ctrl[n][m.peer] = "live"
          IN /\ ctrl' = [ctrl EXCEPT ![n][m.peer] =
                            IF m.type = "add" THEN "live"
                            ELSE IF closes THEN "dead" ELSE @]
             /\ IF closes THEN Disconnect(n, m.peer) ELSE UNCHANGED stream
             /\ relNotif' = [relNotif EXCEPT ![n] = Tail(@)]
             /\ UNCHANGED relPc
  /\ UNCHANGED <<user, idConn, pending, accepting, relTx, dropped, prio,
                 crashed, metaSent, metaGot, metaQueue>>

\* RdEndpoint::WriteLength and OnSendReady: the buffer is framed with its
\* length and written, over as many EPOLLOUT rounds as the socket needs,
\* after the buffers queued before it; the peer reads whole frames in order.
\* A FlowStart's arrival only sets msg_max_seq, which MltTransfer models, so
\* only UserData frames are kept in the stream.
Transmit(s, k) == IF k = "meta" THEN Append(s, k) ELSE s

\* One TryPop of the tx loop: a buffer for a dest with a live endpoint goes
\* to its tx_queue_; one for a dest without an endpoint entry is dropped;
\* one for a disconnected endpoint stays in its tx_queue_ unsent.  An empty
\* queue ends the iteration.
RouteTx(n) ==
  /\ ~crashed[n]
  /\ relPc[n] = "tx"
  /\ IF relTx[n] = <<>>
     THEN /\ relPc' = [relPc EXCEPT ![n] = "accept"]
          /\ UNCHANGED <<relTx, dropped, stream>>
     ELSE LET f == Head(relTx[n])
          IN /\ dropped' = [dropped EXCEPT ![n] =
                               IF ctrl[n][f.dest] = "absent"
                               THEN @ \cup {f.dest} ELSE @]
             /\ stream' = [stream EXCEPT ![n][f.dest] =
                              IF ctrl[n][f.dest] = "live"
                              THEN Transmit(@, f.kind) ELSE @]
             /\ relTx' = [relTx EXCEPT ![n] = Tail(@)]
             /\ UNCHANGED relPc
  /\ UNCHANGED <<user, idConn, pending, ctrl, accepting, relNotif, prio,
                 crashed, metaSent, metaGot, metaQueue>>

\* RdEndpoint::HandleReceivedData of a UserData frame from d: the buffer
\* goes to the communicator's meta_queue_ tagged with the endpoint's comm id.
HandleReceivedData(n, d, k) ==
  metaQueue' = [metaQueue EXCEPT ![n] = IF k = "meta" THEN Append(@, d) ELSE @]

\* variant: a zero-length read treated as EWOULDBLOCK
ReliableRecvNoEof(n, d) ==
  /\ ~crashed[n]
  /\ relPc[n] = "accept"
  /\ ctrl[n][d] = "live"
  /\ stream[d][n] # <<>>
  /\ HandleReceivedData(n, d, Head(stream[d][n]))
  /\ stream' = [stream EXCEPT ![d][n] = Tail(@)]
  /\ UNCHANGED ctrl
  /\ UNCHANGED <<user, idConn, pending, relPc, accepting, relNotif, relTx,
                 dropped, prio, crashed, metaSent, metaGot>>

\* An EPOLLIN event of the live endpoint for d (RdEndpoint::OnRecvReady):
\* the next whole frame is read and handled (one message per event); a
\* read of 0 bytes, once the peer has closed and everything it wrote has
\* been read, disconnects the endpoint.
ReliableRecv(n, d) ==
  /\ ~crashed[n]
  /\ relPc[n] = "accept"
  /\ ctrl[n][d] = "live"
  /\ IF stream[d][n] # <<>>
     THEN /\ HandleReceivedData(n, d, Head(stream[d][n]))
          /\ stream' = [stream EXCEPT ![d][n] = Tail(@)]
          /\ UNCHANGED ctrl
     ELSE /\ ctrl[d][n] = "dead"
          /\ ctrl' = [ctrl EXCEPT ![n][d] = "dead"]
          /\ Disconnect(n, d)
          /\ UNCHANGED metaQueue
  /\ UNCHANGED <<user, idConn, pending, relPc, accepting, relNotif, relTx,
                 dropped, prio, crashed, metaSent, metaGot>>

-----------------------------------------------------------------------------
(* Priority channel thread: one iteration of PriorityChannel::Run pops the *)
(* send requests, polls the sending messages (no table change), then pops  *)
(* the notifications.                                                      *)

\* conn_metas_[conn_meta_map_[comm_id]]: operator[] inserts index 0 for an
\* unknown comm id; a slot inside the vector's storage yields the pointer
\* kept there (possibly of another peer), a slot outside it a crash.
LookupIndex(n, d) ==
  IF d \in DOMAIN connMetaMap[n] THEN connMetaMap[n][d] ELSE 0

FindConnMetaById(n, d) ==
  IF LookupIndex(n, d) < Len(connMetas[n])
  THEN connMetas[n][LookupIndex(n, d) + 1]
  ELSE Crash

\* One TryPop of the sr_queue_ loop: find the ConnMeta and store the
\* message in its sending_msgs.  An empty queue ends the loop.
PopSendRequest(n) ==
  /\ ~crashed[n]
  /\ prioPc[n] = "sr"
  /\ IF srQueue[n] = <<>>
     THEN /\ prioPc' = [prioPc EXCEPT ![n] = "notif"]
          /\ UNCHANGED <<srQueue, connMetaMap, served, crashed>>
     ELSE LET d == Head(srQueue[n])
              conn == FindConnMetaById(n, d)
          IN /\ connMetaMap' = [connMetaMap EXCEPT ![n] =
                                  IF d \in DOMAIN @ THEN @ ELSE @ @@ (d :> 0)]
             /\ served' = [served EXCEPT ![n] = @ \cup {[dest |-> d, conn |-> conn]}]
             /\ crashed' = [crashed EXCEPT ![n] = (conn = Crash)]
             /\ srQueue' = [srQueue EXCEPT ![n] = Tail(@)]
             /\ UNCHANGED prioPc
  /\ UNCHANGED <<user, idConn, rel, prioNotif, connMetas, connLen, meta>>

\* variant: the index taken after emplace_back
AddConnIndexAfter(n, d) ==
  /\ connMetaMap' = [connMetaMap EXCEPT ![n] =
                       [x \in DOMAIN @ \cup {d} |->
                          IF x = d THEN connLen[n] + 1 ELSE @[x]]]
  /\ connMetas' = [connMetas EXCEPT ![n] =
                     IF connLen[n] < Len(@) THEN [@ EXCEPT ![connLen[n] + 1] = d]
                     ELSE Append(@, d)]
  /\ connLen' = [connLen EXCEPT ![n] = @ + 1]
  /\ UNCHANGED <<idConn, crashed>>

\* ADD_CONNECTION: conn_meta_map_[dest] = conn_metas_.size(), then
\* emplace_back (reusing the slot past the end if the storage has one).
AddConn(n, d) ==
  /\ connMetaMap' = [connMetaMap EXCEPT ![n] =
                       [x \in DOMAIN @ \cup {d} |->
                          IF x = d THEN connLen[n] ELSE @[x]]]
  /\ connMetas' = [connMetas EXCEPT ![n] =
                     IF connLen[n] < Len(@) THEN [@ EXCEPT ![connLen[n] + 1] = d]
                     ELSE Append(@, d)]
  /\ connLen' = [connLen EXCEPT ![n] = @ + 1]
  /\ UNCHANGED <<idConn, crashed>>

\* vector::erase at 1-based position k of a vector of size len: later
\* elements move down one slot; the slot at len keeps its old pointer.
EraseAt(s, k, len) ==
  [i \in 1 .. Len(s) |-> IF k <= i /\ i < len THEN s[i + 1] ELSE s[i]]

\* REMOVE_CONNECTION: erase the map entry, erase the ConnMeta found by
\* std::find from the vector (the indices of later entries are not
\* updated), and reset id_conn_[dest] under the lock, freeing the ConnMeta.
\* Erasing end() when the ConnMeta is not in the vector is undefined: the
\* build either crashes or shrinks the size by one.
RemoveConn(n, d) ==
  LET found == {k \in 1 .. connLen[n] : connMetas[n][k] = d}
      map == [x \in DOMAIN connMetaMap[n] \ {d} |-> connMetaMap[n][x]]
  IN IF found # {}
     THEN /\ connMetas' = [connMetas EXCEPT ![n] =
                            EraseAt(@, CHOOSE k \in found : TRUE, connLen[n])]
          /\ connLen' = [connLen EXCEPT ![n] = @ - 1]
          /\ connMetaMap' = [connMetaMap EXCEPT ![n] = map]
          /\ idConn' = [idConn EXCEPT ![n][d] = "null"]
          /\ UNCHANGED crashed
     ELSE \/ /\ crashed' = [crashed EXCEPT ![n] = TRUE]
             /\ UNCHANGED <<connMetas, connLen, connMetaMap, idConn>>
          \/ /\ connLen[n] > 0
             /\ connLen' = [connLen EXCEPT ![n] = @ - 1]
             /\ connMetaMap' = [connMetaMap EXCEPT ![n] = map]
             /\ idConn' = [idConn EXCEPT ![n][d] = "null"]
             /\ UNCHANGED <<connMetas, crashed>>

\* One TryPop of PollNotification.  An empty queue ends the iteration.
PollNotification(n) ==
  /\ ~crashed[n]
  /\ prioPc[n] = "notif"
  /\ IF prioNotif[n] = <<>>
     THEN /\ prioPc' = [prioPc EXCEPT ![n] = "sr"]
          /\ UNCHANGED <<prioNotif, connMetas, connLen, connMetaMap, idConn,
                         crashed>>
     ELSE LET m == Head(prioNotif[n])
          IN /\ IF m.type = "add" THEN AddConn(n, m.peer)
                ELSE RemoveConn(n, m.peer)
             /\ prioNotif' = [prioNotif EXCEPT ![n] = Tail(@)]
             /\ UNCHANGED prioPc
  /\ UNCHANGED <<user, rel, srQueue, served, meta>>

-----------------------------------------------------------------------------
\* Every process has died: nothing runs any more.
AllCrashed ==
  /\ \A n \in Nodes : crashed[n]
  /\ UNCHANGED vars

Next ==
  \/ \E n \in Nodes :
       \/ \E d \in Peers(n) :
            \/ AddConnection(n, d)
            \/ PostSend(n, d)
            \/ PostRecv(n, d)
            \/ RemoveConnection(n, d)
            \/ SendMetaAsync(n, d)
            \/ ReliableRecv(n, d)
       \/ AddConnectionWait(n)
       \/ RecvMeta(n)
       \/ AcceptConnection(n)
       \/ RegisterConnection(n)
       \/ ReliableNotification(n)
       \/ RouteTx(n)
       \/ PopSendRequest(n)
       \/ PollNotification(n)
  \/ AllCrashed

\* The channel threads loop forever and each step of an iteration is always
\* taken; a user thread spinning in AddConnection keeps re-testing.  The
\* user calls themselves are not forced.
Fairness ==
  \A n \in Nodes :
    /\ WF_vars(AddConnectionWait(n))
    /\ WF_vars(AcceptConnection(n))
    /\ \A d \in Peers(n) : WF_vars(ReliableRecv(n, d))
    /\ WF_vars(RegisterConnection(n))
    /\ WF_vars(ReliableNotification(n))
    /\ WF_vars(RouteTx(n))
    /\ WF_vars(PopSendRequest(n))
    /\ WF_vars(PollNotification(n))

Spec == Init /\ [][Next]_vars /\ Fairness

-----------------------------------------------------------------------------
\* The CHECK_EQ(0, ctrl_endpoints_.count(remote_comm_id)) of
\* ReliableChannel::AddEndpoint never fires, whether the endpoint comes from
\* an accepted connection or from an ADD_ENDPOINT of AddConnection: exactly
\* one side of each pair connects, and each side registers one endpoint.
ReliableChecksHold ==
  \A n \in Nodes : ~crashed[n] =>
    /\ relPc[n] = "register" =>
         \A d \in accepting[n] : ctrl[n][d] = "absent"
    /\ relNotif[n] # <<>> /\ Head(relNotif[n]).type = "add" =>
         ctrl[n][Head(relNotif[n]).peer] = "absent"

\* An AddConnection call on the passive side returns once the active side
\* has called AddConnection too: the active side connects without waiting,
\* and the passive side's reliable thread accepts and stores the ConnMeta
\* the wait loop polls for, in whatever order the threads run.
AddConnectionReturns ==
  \A n \in Nodes : \A d \in Peers(n) :
    (d \in waiting[n] /\ n \in added[d]) ~> d \in added[n]

\* A RemoveConnection reaches the peer: once n's reliable thread has closed
\* its endpoint for d (REMOVE_ENDPOINT), d's reliable thread, after reading
\* whatever n wrote before closing, reads end-of-stream and disconnects its
\* own endpoint for n, whether or not d has registered that endpoint yet
\* and whatever d's user thread does.
PeerCloseNoticed ==
  \A n \in Nodes : \A d \in Peers(n) :
    ctrl[n][d] = "dead" ~> (ctrl[d][n] = "dead" \/ crashed[d])

\* A PostSend made after AddConnection returned reaches its peer: its
\* FlowStart is routed to the peer's endpoint, and FindConnMetaById hands
\* the send request to the peer's ConnMeta (not another one, and not a
\* read outside conn_metas_).
PostSendReachesPeer ==
  \A n \in Nodes :
    /\ dropped[n] = {}
    /\ \A r \in served[n] : r.conn = r.dest

\* conn_meta_map_ indexes conn_metas_: every peer whose ConnMeta is in the
\* vector is mapped to its own slot, after any sequence of ADD_CONNECTION
\* and REMOVE_CONNECTION notifications of several connections, so that
\* FindConnMetaById of a registered peer returns that peer's ConnMeta.
ConnTableConsistent ==
  \A n \in Nodes : ~crashed[n] =>
    \A k \in 1 .. connLen[n] :
      LET d == connMetas[n][k]
      IN d \in DOMAIN connMetaMap[n] /\ connMetaMap[n][d] = k - 1

\* The ConnMeta an endpoint reads is alive: every EPOLLIN event the reliable
\* thread handles for d (RdEndpoint::OnRecvReady and HandleReceivedData)
\* calls comm_id(), which reads conn_meta_->dest_comm_id, so at that step
\* id_conn_[d] must still own the ConnMeta.  RemoveConnection queues
\* REMOVE_CONNECTION, whose handler frees it, before REMOVE_ENDPOINT, and
\* the two channel threads take them in either order.
ConnMetaAliveWhenRead ==
  [][\A n \in Nodes : \A d \in Peers(n) :
       ReliableRecv(n, d) => idConn[n][d] = "live"]_vars
====
