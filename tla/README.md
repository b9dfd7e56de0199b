# TLA+ models of the MLT loss-tolerant transport

This directory holds TLA+ models of the transport under `src/src/mlt`, and the TLC
configurations that check them. `PROJECT.json` lists four things:

- every component, and what is modelled of it;
- every run, with its properties and the mutants that must break them;
- the source lines each definition translates;
- the findings, and the hazards the code is exposed to.

## The system

An `MLTCommunicator` runs three threads, plus the user threads that call into it:

| thread | code | role |
|---|---|---|
| priority channel | `priority_channel.cc` | Pops send requests (`sr_queue_`). Turns the first message of each connection into one UDP datagram per round (`PollSendingMessages`). Serves retransmit requests (`PollRetransmitRequest`). Handles STOP_FLOW / REQUEST_RETRANSMIT / ADD/REMOVE_CONNECTION notifications. |
| receiving channel | `receiving_channel.cc` | Copies arriving datagrams into the posted buffer, or into the backlog (`HandleReceive`). Registers posted receives (`PollReceiveRequest`). Handles FINISH_FLOW / CONFIRM_STOP. |
| reliable channel | `reliable_channel.cc`, `rd_endpoint.cc` | Owns one TCP connection per peer. Frames and sends queued control buffers. Dispatches received signals (`HandleReceivedData`) to the other two threads. |

One message goes through a four-phase exchange:

1. **Start.** `PostSend` sends FlowStart on TCP and gives the message to the priority channel.
2. **Data.** The datagrams go out. The last one is routed together with a FlowFinish on TCP.
3. **Finish.** At the receiver, FlowFinish becomes FINISH_FLOW. If the receive has not met its bound (`size * (1 - loss_ratio)`, aligned up), `FinishFlow` sends a RetransmitRequest listing the missing ranges. The sender serves it, and the last retransmitted datagram carries another FlowFinish.
4. **Stop.** Once the received bytes reach the bound, `HandleReceive` sends a StopRequest. The sender drops the flow, answers StopConfirm and posts the Send completion. The StopConfirm posts the Recv completion.

The missing ranges are tracked per message by a gap tracker. `LtMessageExt` always builds a `TreeBlockMgr`: a `std::set` of missing half-open ranges.

## Modules

| module | models | state and actions |
|---|---|---|
| `BlockSet` | What any `BlockMgr` promises its caller. | `size`, `taken`. `Resize(n)` grows the range. `Record(s)` is one `CopyGradients` use: grow to cover `s`, then take it. |
| `TreeBlocks` | `tree_block_mgr.h` as pure operators on the set of `<<first, last>>` pairs. | `Emplace` ignores a block whose `first` is present, as `std::set` keyed on `first` does. `TreeResize`, `TreeCheck`, `TreeTake`, `TreeByteSize`, `TreeSerialize`. |
| `TreeBlockMgr` | The tracker as a state machine (`tree_`, `size_`, `used_`). | `Resize(n)` is `FinishFlow`'s resize. `CopyGradients(seq)` is the Resize/Check/Take sequence of `LtMessageExt::CopyGradients`. The module refines `BlockSet` under `taken <- TakenSet`. |
| `MltTransfer` | One sender and one receiver communicator over one established connection. | One variable per map or queue of the code. One action per thread step (listed below). |
| `BitmapBlockMgr` | `bitmap_block_mgr.h`: one bit per sequence number, `segments_` counting the missing ranges, and the word scan of `SerializeToBuffer`. | `bitmap` (the set of set bits), `size`, `used`, `segments`. `Resize(n)`, `Take(seq)`. `Serialize` is the scan as the recursive operators `ScanWords`/`ScanWord`, with `Ctzl` and `ShiftMask`. |
| `ConnLifecycle` | Several communicators connecting, exchanging metas, posting and disconnecting (`mlt_communicator.cc`, `reliable_channel.cc`, `rd_endpoint.cc`, the connection table of `priority_channel.cc`), driven as `TestMLTApp` (`mlt_van.h`) drives them. | Per node: the user's progress, `id_conn_`, the reliable thread's phase, listen queue, `ctrl_endpoints_`, notification and tx queues, the TCP stream to each peer, `meta_queue_`, and the priority thread's phase, `sr_queue_`, notification queue, `conn_metas_` (its storage and size) and `conn_meta_map_`. |
| `BoundedFifo` | What an `SpscQueue` promises its two threads. | `queue`, `popped`. `Put(v)` while fewer than `Capacity` are held; `Get` hands out the oldest. |
| `UdpSimpleTest` | The UDP_SIMPLE mode of `TestMLTApp` (`mlt_van.h`) on every node, to the end of `Finalize`, over the reliable channel of `reliable_channel.cc`/`rd_endpoint.cc` and the stop handshake. | Per node: the user's position in `RunTestUdpSimple` (`pc`, `bar`), the root's `ranks`, the posted flags, the Send/Recv completions, the reliable tx queue, `ctrl_endpoints_` (live or dead), the TCP stream to each peer, the reliable notification queue, `meta_queue_`, the `terminated_` flags and whether the reliable thread has left `Run`. |
| `RcSpeedTest` | The RC_SPEED mode of `TestMLTApp` (`RunTestRcSpeed`, `mlt_van.h`) on every node: the endless loop that sends a meta to a peer while at most `max_gap` ahead of it and otherwise receives one, over the reliable channel and `meta_queue_` at its capacity. | Per node: the loop's position `pos` in the peer list, `bal[r]` (= `send_cnt[r] - recv_cnt[r]`), the reliable tx queue and the stream to each peer as counts, the endpoints read this epoll round (`served`), the sender of the buffer a spinning `Push` holds (`pushing`), and `meta_queue_` as a sequence of senders. |
| `SpscQueue` | `spsc_queue.h`: Lamport's ring with `size_t` counters `head_`, `tail_` and slot `x & mask_`. | `head`, `tail`, `vec`, and each thread's program counter and locals. `PushLoad` (the spin on a full ring), `PushWrite`, `PushStore`; `PopLoad`, `PopMove`, `PopStore` (one step per atomic access or slot access). `Capacity` is `RoundUpPower2(count)`. Refines `BoundedFifo` under `queue <- QueueOf`. |
| `FrameFifo` | What one direction of a reliable connection promises: the frames routed to an endpoint reach `HandleReceivedData` whole, in order, once. | `routedQ`, `handed`. `Route(f)` appends; `Hand` hands the next frame. |
| `RdStream` | One direction of a connection at byte level (`rd_endpoint.cc`, `rd_endpoint.h`, the tx loop of `reliable_channel.cc`). | `routed` (frames pushed on the endpoint's `tx_queue_`), byte counters `sent`, `arrived`, `read`, the unfinished receive buffer `rx` (`rx_buffers_`), `handed`, `closed`, `rxState`. `Route`, `OnSendReady`, `Transmit` (TCP segmentation), `Close` (`RemoveEndpoint`), `OnRecvReady` (`Resume` a buffer from `rx_buffers_`, or `ReadLength` then `NewFrame`). Refines `FrameFifo` under `routedQ <- SubSeq(Payloads, 1, routed)`. |

`MltTransfer`'s actions, and the code each one models:

| action | code |
|---|---|
| `PostSend` | `MLTCommunicator::PostSend`: FlowStart, then the send request. |
| `PopSendRequest` | The `sr_queue_` loop of `PriorityChannel::Run`. |
| `SendPacket` | `PollSendingMessages` with `PartitionOne` and `RoutePacket`. |
| `RetransmitPacket` | `PollRetransmitRequest`. |
| `PollPrioNotification` | STOP_FLOW runs `StopFlow`; REQUEST_RETRANSMIT is the other case. |
| `SenderDispatch`, `ReceiverDispatch` | `RdEndpoint::HandleReceivedData` on each side. |
| `PostRecv` | `MLTCommunicator::PostRecv`. |
| `HandleReceive(p)` | `ReceivingChannel::HandleReceive` of datagram `p`. |
| `PollReceiveRequest` | Registers a receive, drains its backlog with `CopyGradients`, sets the bound. |
| `PollRecvNotification` | `FinishFlow` or `ConfirmStop`. |
| `Lose(p)` | The network drops `p`. |

How `MltTransfer` abstracts the code:

- **Control path.** Each direction is one FIFO sequence, `c2r` and `r2c`. That sequence stands for the `ReliableChannel` tx queue, the `RdEndpoint` tx queue, the TCP stream and the peer's rx buffers, all of which are FIFO and lossless.
- **Datagrams.** Datagrams routed to an endpoint are a set, `network`. A datagram can be received in any order, or lost. The code has sixteen ToS FIFOs and spreads datagrams across them by ToS, so any order can occur.
- **Datagram records.** A datagram is a record `[msg, seq, offset, len]`, with `len` its payload. `PayloadBound` stands for `MaxSegment() - 20`.
- **Duplicates.** Two identical copies in flight at once collapse into one set element. A duplicate that arrives after its original is still explored: a retransmission of a datagram already taken.
- **Thread steps.** Each step a thread takes inside one loop iteration is an atomic action of its own. Any interleaving of the threads is therefore explored. Each thread still runs its own steps in program order.
- **Rate throttle.** A round skipped by the rate throttle changes no modelled state, so it is stuttering.
- **uint32_t arithmetic.** The wrap of `uint32_t` (`GetMaxSeqNum`, `max_seq_num + 1`) is taken modulo `Uint32Mod`. TLC's integers are 32-bit signed, so the MC modules use 256; the wrap happens at the same places.

How `RdStream` abstracts the code:

- **Bytes as counters.** The frames' content is fixed by `Payloads`, so the stream is the number of bytes written, arrived and read; a frame occupies `HdrLen + Payloads[i]` bytes (`StreamLen`), as `WriteLength` makes it. A 4-byte read at a frame boundary decodes that frame's length; at any other offset it decodes any length up to `MaxPayload` (`Decoded`).
- **Buffer and socket.** `Buffer` and `TcpSocket` are not in the repository. A buffer is taken to be its size and a handled offset (`MarkHandled`, `IsClear`, `GetRemainSize`); `Send` and `Recv` are POSIX `send`/`recv` on a non-blocking socket: they move between 1 and the requested bytes, return -1 when nothing can move and 0 at end of stream.
- **`OnSendReady`** loops until the queue is empty or `send` would block, crossing buffer boundaries; its net effect is any positive number of bytes the socket has room for (`SockBuf` bounds written-but-unread bytes).
- **`rx_buffers_`** holds at most one buffer: every path that pushes one leaves the loop. A clear buffer found there is skipped, which is the record `NoRx`.
- **Close.** `RemoveEndpoint` disconnects once; the closed socket leaves the epoll set, so the frames still queued are never written, while written bytes arrive and then end-of-stream.

`BitmapBlockMgr` abstracts the code as follows:

- **Words.** `W` bits per word stand for `sizeof(long) * 8`; the MC module uses 4, so a size of 9 spans three words and every word-boundary case occurs.
- **`__builtin_ctzl(0)`.** The scan calls it when a taken run reaches the top bit of a word. It is undefined; the build's `tzcnt` yields `W`, which is `CtzlZero`.
- **Shifts.** `~0l << k` with `k = W` is undefined too; x86 masks the count, so `ShiftMask(k)` takes `k % W`.
- **RC_SPEED.** Two nodes, `max_gap` 3 (320 in the code) and a `meta_queue_` of 2 (32): the queue fills while the peer is still under `max_gap`, so `Push` spins, and both nodes reach the receive branch; 12,528 states. Three nodes, where `RecvMeta` may return either peer's meta, exceed ten million states already at `max_gap` 1 and capacity 1, beyond a five-minute run.
- **`uint32_t`.** `segments_` wraps modulo `Uint32Mod` when it underflows.

`ConnLifecycle`'s actions:

| action | code |
|---|---|
| `AddConnection(n, d)`, `AddConnectionWait(n)` | `MLTCommunicator::AddConnection`: the node with the smaller id creates the ConnMeta, connects and queues ADD_ENDPOINT and ADD_CONNECTION; the other spins until `id_conn_` holds `d`. |
| `SendMetaAsync(n, d)`, `RecvMeta(n)` | The metadata path: a UserData buffer to the reliable tx queue; `meta_queue_.WaitAndPop`. |
| `PostSend(n, d)`, `PostRecv(n, d)`, `RemoveConnection(n, d)` | The user calls; `RemoveConnection` queues REMOVE_CONNECTION and REMOVE_ENDPOINT. |
| `AcceptConnection(n)`, `RegisterConnection(n)` | `HandleNewConnection`, split where it publishes `id_conn_` and before `AddEndpoint`. |
| `ReliableRecv(n, d)` | An EPOLLIN event: `OnRecvReady` reads one whole frame and `HandleReceivedData` queues a UserData; a read of 0 bytes disconnects. |
| `ReliableNotification(n)`, `RouteTx(n)` | The notification loop and the tx loop of `ReliableChannel::Run`. |
| `PopSendRequest(n)`, `PollNotification(n)` | The `sr_queue_` loop with `FindConnMetaById`, and ADD/REMOVE_CONNECTION of `PollNotification`. |

How `ConnLifecycle` abstracts the code:

- **Phases.** Each channel thread has a phase variable (`relPc`, `prioPc`) and runs the loops of one iteration in program order, one queue element per step, so every interleaving with the other threads and nodes is explored.
- **`conn_metas_`.** The vector is its storage plus its size: `erase` leaves the old pointer in the slot past the end, so a read one past the end yields a stale pointer, and a read past the storage is a crash (`Crash`). A crashed node takes no more steps.
- **Undefined erase.** Erasing `end()` (REMOVE_CONNECTION of a ConnMeta not in the vector) either crashes or shrinks the size by one.
- **TCP.** One FIFO of whole frames per connection and direction. A FlowStart's arrival only sets `msg_max_seq`, which `MltTransfer` models, so only UserData frames are kept. Closing a socket loses the frames still in the endpoint's `tx_queue_`: any suffix of the stream.
- **User.** The user thread follows `TestMLTApp`: connect to every peer, then `RunTestConnection` (a meta to each peer, one `RecvMeta` per peer) when `MetaExchange` is TRUE, or nothing (the UDP_SIMPLE mode), then `PostRecv`/`PostSend` per peer, and `RemoveConnection` of a peer once its send request has been served.

`UdpSimpleTest`'s actions:

| action | code |
|---|---|
| `PostRecvs(n)`, `PostSends(n)`, `PollCompletions(n)` | The PostRecv loop, the PostSend loop and the `PollOnce` loop of `RunTestUdpSimple`, which ends once `num_comps + 2 >= 2 * nodes_.size()`. |
| `BarrierSend(n)`, `BarrierRecvRoot(n)`, `BarrierRecvPeer(n)` | `Barrier`: the root's `SendMetaAsync` to every other node and one `RecvMeta` per node (then the sort/unique CHECK); another node's `RecvMeta`, then its meta back to the root. |
| `Finalize(n)`, `Terminate(n)`, `Join(n)` | `TestMLTApp::Finalize`: `StopUdpReceiving`, `RemoveConnection` of every peer (REMOVE_ENDPOINT to the reliable thread); then `MLTCommunicator::Finalize` terminates and joins the threads. |
| `ReliableRecv(n, d)`, `ReliableEof(n, d)` | An EPOLLIN event: `OnRecvReady` reads one frame and `HandleReceivedData` dispatches it; a read of 0 bytes disconnects. |
| `ReliableIteration(n)` | The rest of one `ReliableChannel::Run` iteration: the notification loop (`RemoveEndpoint` disconnects), the tx loop (a buffer for a disconnected endpoint goes into its `tx_queue_` and is never written), and the `terminated_` test. |
| `BoundMet(r, s)` | `HandleReceive` sends the StopRequest once the message from `s` meets `r`'s bound. |

How `UdpSimpleTest` abstracts the code:

- **Datagrams.** The transfer of each message is the single step `BoundMet`, enabled once both sides have posted. `MltTransfer`'s `TransferCompletes` checks that this step is reached.
- **Stop handlers.** STOP_FLOW (`StopFlow`: StopConfirm, then the Send completion) and CONFIRM_STOP (`ConfirmStop`: the Recv completion) are taken in the same step as the read of their frame. Both handlers only push. Their thread cannot have left `Run` before them, since a node tears down only after all its completions.
- **One iteration end.** The two drains and the `terminated_` test of a reliable iteration are one step, taken once no endpoint is readable. What other threads push meanwhile lands either before or after it; both orders are explored.
- **Thread exit.** The priority and receiving threads leave `Run` within one epoll or poll timeout of `Terminate`, so `Join` waits only for the reliable thread.
- **TCP.** One FIFO of whole frames per connection and direction. Closing a socket keeps what was already written, a prefix of what was routed to it.
- **Connections** are set up before the run (`ConnLifecycle` checks set-up); REMOVE_CONNECTION, which frees the ConnMeta, is `ConnLifecycle`'s part.

`RcSpeedTest`'s actions:

| action | code |
|---|---|
| `SendMeta(n)` | The send branch of `RunTestRcSpeed`'s loop: `send_cnt[rank] <= recv_cnt[rank] + max_gap`, `SendMetaAsync` (an enqueue on the reliable tx queue), `send_cnt[rank]++`, next peer. |
| `RecvMeta(n)` | The other branch: `RecvMeta` (`WaitAndPop`, enabled once `meta_queue_` holds a buffer), then `recv_cnt[n_rank]++` for the sender it returns, next peer. |
| `ReliableRecv(n, d)` | An EPOLLIN event: `OnRecvReady` reads one frame ("handle one message once"), and `HandleReceivedData`'s kUserData case calls `meta_queue_.Push`. On a full queue the buffer is held in `pushing` and the thread spins. |
| `PushDone(n)` | `Push`'s spin sees the slot a `TryPop` freed, stores the buffer and returns. |
| `EndRound(n)` | The rest of a `ReliableChannel::Run` iteration: the tx loop routes every queued meta to its endpoint. It cannot run while `Push` spins. |

How `RcSpeedTest` abstracts the code: every frame is a meta, so queues and streams are counts per pair, and `meta_queue_` is a sequence of senders. Only the difference of `send_cnt` and `recv_cnt` decides anything, and it stays within `max_gap + 1` of 0 both ways, so the state space is finite with no caps. TCP is a FIFO of whole frames (`RdStream` checks the byte level). Connections are set up before the loop starts, as in `UdpSimpleTest`. `TestMLTApp::Startup` in this file returns before connecting, and the connections come from the ps-lite `Connect` override. The per-meta CHECKs (known rank, length) hold by construction of the frames.

## Runs

| run | expect | what it shows |
|---|---|---|
| `block_mgrs` | pass | Both trackers in one run, each driven by every sequence of its own calls: the tree by resizes and datagram arrivals up to size 5, the bitmap by Resize/Take up to size 9 over 4-bit words. Each serializes exactly its missing ranges: non-empty, ascending, disjoint, with total length `FreeLength()` (`TreeSerializationExact`, `BitmapSerializationExact`). The tree tracker answers `Check` like the abstract `BlockSet` (`TreeImplementsBlockSet`). The bitmap's refinement is not checked: its `Check` reads the bitmap directly, so the mapping would hold by construction. Module `MC_BlockMgrs` interleaves the two independent specs. |
| `transfer` | pass | One 5-byte message (datagrams of 2, 2, 1 bytes) with bound 4 and up to two datagrams lost, under every interleaving. See the list below. |
| `conn_lifecycle` | pass | Two communicators connect, exchange metas, post and disconnect under every interleaving of their six threads. `AddEndpoint`'s CHECK never fires (`ReliableChecksHold`); the passive `AddConnection` returns once the active side has called (`AddConnectionReturns`); a peer notices a closed connection (`PeerCloseNoticed`). |
| `conn_post_race` | violation | `AddConnection` returns before its ADD_ENDPOINT is processed: the first meta of `RunTestConnection` is dropped by the tx loop, so the peer's `RecvMeta` waits forever. A PostSend can likewise reach `FindConnMetaById` before ADD_CONNECTION and read an empty `conn_metas_`. |
| `spsc_queue` | pass | A producer in `Push` and a consumer polling `TryPop`, every load, store and slot access interleaved, across the wrap of 3-bit counters: the ring is a FIFO of at most `capacity_` elements (`ImplementsBoundedFifo`), `Push` never writes the slot being moved out (`NoDataRace`), and `Push`'s spin on a full ring ends (`PushReturns`). |
| `conn_remove_stale` | violation | Three nodes, UDP_SIMPLE mode: node 2 holds two connections; REMOVE_CONNECTION of the first erases it from `conn_metas_` without renumbering `conn_meta_map_`, so the second peer's index is stale (`ConnTableConsistent`). |
| `conn_teardown_uaf` | violation | Two nodes tear the connection down as `TestMLTApp::Finalize` does. `RemoveConnection` queues REMOVE_CONNECTION, whose handler frees the ConnMeta, before REMOVE_ENDPOINT. After node 1 has closed, node 2's priority thread frees the ConnMeta; node 2's reliable thread then reads end-of-stream and logs `comm_id()`, which is `conn_meta_->dest_comm_id` of the freed object (`ConnMetaAliveWhenRead`, an action property on `ReliableRecv`). |
| `udp_simple` | pass | Three nodes run UDP_SIMPLE to the end of `Finalize`. The Barrier metas, StopRequests and StopConfirms share every tx queue and connection. The properties: the root's Barrier CHECK never fires (`BarrierChecksHold`); no node posts a send before every node has posted its receives, which takes both Barriers (`SendsAfterAllRecvsPosted`); every send completes, whatever the peers' teardown does (`SendsComplete`). |
| `udp_simple_teardown` | violation | Two nodes. The non-root answers the last Barrier with `SendMetaAsync`, which only queues the reply, and goes straight into `Finalize`. Its reliable thread drains REMOVE_ENDPOINT before the tx queue, so it disconnects first and then queues the reply on the dead endpoint. The reply is never written, and the root waits in `RecvMeta` forever (`TestReturns`). With three nodes a StopConfirm can be lost the same way, and then a peer's Recv completion never comes. |
| `rd_stream` | pass | Four frames (payloads 2, 1, 2, 1) through sockets holding 8 bytes, every write, segment and read split at every byte. `OnRecvReady` hands exactly the routed frames, whole and in order (`ImplementsFrameFifo`, the refinement of `FrameFifo`); the receiver disconnects only once every frame written before the sender closed has been handed (`WrittenFramesHanded`), which a recv of 0 confused with -1 would break; and every frame is eventually handed unless the receiver stops, a closed stream being read to its end first (`FramesHanded`). Runs where a header was split and the receiver aborted are part of this state space. |
| `rc_speed` | pass | Two nodes run `RunTestRcSpeed` with `max_gap` 3 and a `meta_queue_` of 2, so the reliable thread spins in `Push` while the user sends, and stops reading and routing. No meta is lost or counted twice: for each pair the two balances add up to the metas in tx queues, streams, a spinning `Push` and `meta_queue_` (`MetaConservation`; a `Push` that gives up when the queue is full, as the commented-out `TryPush` loop would, breaks it). Neither node ever stops sending (`SendsForever`; a `Push` spin that never reloads `head_` stalls both nodes). |
| `rd_stream_split` | violation | One frame. A segment ends inside the 4-byte length prefix, `recv` returns the part, and `CHECK_EQ(sizeof(length), ret)` (`rd_endpoint.cc:119`) aborts the process (`LengthReadWhole`). The payload read keeps partial buffers in `rx_buffers_`; the prefix read does not. |

Three configurations are kept in the directory but are not among the runs. `MC_MltTransferZeroSize` shows a code bug: `GetMaxSeqNum(0)` underflows to `2^32 - 1` (`packetizer.cc:10`). So a FlowFinish for a 0-byte message that beats `PostRecv` makes the receiver request `[0, max_seq_num + 1) = [0, 0)`, and the sender's cursor CHECK in `PollRetransmitRequest` aborts (`SenderChecksHold`). In addition, `MC_MltTransferLossless` shows a FlowFinish overtaking its datagrams so that the receiver requests a retransmission with nothing lost (spec 8.7, S1, `NoRetransmitWithoutLoss`); `MC_MltTransferBoundZero` shows a 1-byte message with loss_ratio 4/5, whose bound is 0, never completing when its datagram is lost (`TransferCompletes`, `receiving_channel.cc:175`).

The `transfer` run checks these properties:

- **No CHECK aborts** (`SenderChecksHold`, `ReceiverChecksHold`). The CHECKs of the code do not fire. Each one is stated on the head of the queue or map the guarded step serves, so it is checked in exactly the states where that step can run.
- **One completion per post** (`CompletionsOnce`, spec 8.5). Each PostSend yields one Send completion, and each PostRecv one Recv completion.
- **Byte count matches the tracker** (`BytesMatchTracker`, spec 8.3). `bytes_received` equals the payload of the sequence numbers the tracker has taken.
- **Completion meets the bound** (`RecvCompletionMeetsBound`, spec 8.4). A Recv completion reports at least the bound.
- **Transfer completes** (`TransferCompletes`). A message that is both posted is eventually completed on both sides.

Each property of a passing run has a mutant in `PROJECT.json`. A mutant is a plausible slip in the mapped code, written as an operator next to the definition it replaces. TLC must find the property violated once the mutant is in place. Examples:

- the dropped early return on duplicates;
- StopFlow forgetting `retransmit_reqs`;
- `GetMaxSeqNum` returning the packet count;
- the `stopped` guard dropped;
- `FinishFlow` ignoring unposted receives.

### Bounds

The sizes are chosen so that every branch of the code occurs.

- **Message and loss.** Three datagrams, with a short last one, and a bound of 4 bytes. Losing only the last datagram is tolerated. Losing any other one forces a retransmission. Two losses allow a loss in the first pass and another in a retransmission.
- **One message.** The transfer runs carry one message; two flows sharing `sending_msgs` and `retransmit_reqs` on one connection are not among the runs. `UdpSimpleTest` has several flows per node, with each transfer abstracted to one step.
- **Backlog.** The backlog is disabled (0 free segments) in every run. `MLT_DISABLE_FLOW_BACKLOG` defaults to 1, and with it set to 0 `ConnMeta::InitBacklog` never returns: its loop `ptr < ptr + backlog_buffer_size` is always true (`conn_meta.cc:20`). The drain in `PollReceiveRequest` is modelled but no run reaches it; with a working free list, a message fully staged before `PostRecv` would meet its bound without a StopRequest ever being sent.
- **Tree.** Sizes up to 5 allow three disjoint missing ranges (0, 2 and 4 missing), so `Take` splits, trims and removes blocks and `Resize` both extends the last block and appends a new one.
- **Bitmap.** 4-bit words and sizes up to 9 give runs that start, end and cross inside and between words, and a top-bit run that reaches `__builtin_ctzl(0)`. The bitmap tracker is not used by the transport. Its `Resize` tests the new last bit instead of the old one, so `segments_` misses the new range and `SerializeToBuffer`'s `CHECK_EQ(Tell(), ByteSize())` aborts: `Take(0)` on a size-1 tracker, then `Resize(2)`. `MC_BitmapBlockMgrResize.cfg` shows this (`SerializeCheckHolds`), but it is not among the runs.
- **Connections.** Two nodes give one active and one passive side, every race between the user's calls and the two channel threads of both sides, and a close seen from either side. The stale index needs one node with two connections, so that run has three nodes; it skips the meta exchange to stay within five minutes.
- **UDP_SIMPLE.** Three nodes are the fewest with two non-roots. With two, one Barrier already orders every PostRecv before every PostSend. With three, a non-root can leave a Barrier before the other non-root has entered it, so the mutant with one Barrier is caught. Two nodes suffice for the lost Barrier reply.
- **`uint32_t`.** `Uint32Mod` is 256 in every MC module.
- **Byte stream.** A 4-byte header and payloads of 1 and 2 bytes through 8 bytes of socket buffer: a write can stop inside a header, a payload or between frames, one frame and part of the next can be in flight at once, and a frame can be half read while the next one is written. Four frames let resumed frames be followed by frames that start at later offsets. `MC_RdStreamSplit` needs only one frame.
- **SPSC ring.** `count` 3 gives a ring of 4 slots (exercising the rounding); 3-bit counters wrap after 8 pushes, so the run crosses the wrap several times with the ring full, empty and in between. Five values cycle, one more than the slots, so a full ring holds distinct values and a lost, duplicated or reordered element changes what is popped.

### Fairness

Each channel thread loops forever. Its wait is an epoll or a non-blocking socket read with a bounded timeout, and it polls all of its queues on every iteration. So every thread step that stays enabled is eventually taken: weak fairness.

A datagram in flight is eventually received unless the network drops it. This is weak fairness of `HandleReceive(p)` for each datagram `p`. Losses are bounded by `MaxLoss`.

The users are not obliged to post anything, so `PostSend` and `PostRecv` carry no fairness. `TransferCompletes` is conditional on both posts.

`WF_vars(PollReceiveRequest)` is written out as `[]<>(rrQueue = <<>>) \/ []<><<PollReceiveRequest>>_vars`. The action is enabled exactly when `rr_queue_` is non-empty, so the two forms are equivalent. The written-out form spares TLC an `ENABLED` evaluation of the backlog drain.

In `ConnLifecycle` each channel thread step is weakly fair for the same reason, and so is `ReliableRecv(n, d)` for each connection: epoll is level-triggered, so a readable socket is reported in every round until it is read, and the round does not end (`AcceptConnection` with nothing pending) while one is readable. The spinning `AddConnection` wait is weakly fair: it re-tests the map in every turn. The user calls themselves are not forced.

In `UdpSimpleTest` the user thread, the reliable thread and the receiving thread of each node are weakly fair. The user thread runs a fixed sequence of blocking calls, each returning once what it waits for is there. The reliable thread loops with a bounded epoll timeout. A message both sides have posted meets its bound, which is `MltTransfer`'s `TransferCompletes`; so `BoundMet` is weakly fair.

In `RdStream`, `Route`, `OnSendReady`, `Transmit` and `OnRecvReady` are weakly fair: the reliable thread routes its tx queue in every iteration; the endpoint's events are registered without `EPOLLET` (`rd_endpoint.cc:17`), so epoll reports a writable or readable socket in every round until it is served; and TCP delivers what was written. `Close` is the user's `RemoveConnection` and is not forced.

In `RcSpeedTest` each node's user loop (`SendMeta` or `RecvMeta`), `PushDone`, `EndRound` and each `ReliableRecv(n, d)` are weakly fair. `WaitAndPop` and `Push` spin, re-testing the queue, and only the spinning thread can undo what it waits for. The reliable thread's epoll is level-triggered with a bounded timeout. Deadlock is checked: the loop never ends, so a state where no thread can move is a stall.

In `SpscQueue` both threads are weakly fair: the producer is a running thread inside `Push`, and every queue's consumer is a channel thread that polls `TryPop` on each iteration. `meta_queue_` is the exception: its consumer is the user's `RecvMeta`, so `PushReturns` says nothing about it.

In the hang configurations, `CHECK_DEADLOCK FALSE` is set: after the flow is abandoned, the threads do idle, and the liveness property is what reports the hang. The passing runs check deadlock. Their final state, with everything complete, is `Quiescent`.

## Not modelled, and why

- **Reconnection.** Each pair is connected once. A reconnect after `RemoveConnection` would meet the kept `ctrl_endpoints_` entry (AddEndpoint's CHECK) and the null `id_conn_` entry that ends the passive wait early.
- **Use after free on the receiving thread.** `HandleReceive` uses the ConnMeta after unlocking, and a concurrent REMOVE_CONNECTION frees it. `ConnLifecycle` has no datagram path, so only the reliable thread's use of a freed ConnMeta is checked (`conn_teardown_uaf`). A ConnMeta is "freed" when `idConn` is `"null"`.
- **EPOLLERR.** Endpoint garbage collection on socket errors, and SIGPIPE on writes to a closed peer.
- **Queue capacity in the channel modules.** `meta_queue_` and the other `SpscQueue`s spin when full. The channel modules treat them as unbounded sequences, since each pair sends one meta there. `RcSpeedTest` models `meta_queue_` at its capacity, and `SpscQueue` checks the ring itself.
- **ToS routing.** The priority functions (a random ToS per datagram) only pick which UDP queue a datagram joins; `MltTransfer` already lets datagrams arrive in any order. With fewer than 8 priorities configured (`MLT_NUM_PRIO`, `MLT_NUM_QUEUES`), `DefaultPktPrioFunc` still draws a DSCP from 0 to 7, and `RoutePacket` indexes `prio_endpoints_` with the -1 of an unregistered ToS (`packetizer.cc:16`); the default configuration registers all 16.
- **UDP send loop.** `UdpEndpoint::OnSendReady` pops a datagram before `sendmsg` and breaks on EAGAIN, so the popped datagram is lost at the sender (`udp_endpoint.cc:24`). In `MltTransfer` this is one of the losses `Lose(p)` stands for.
- **Rate control.** `RateAdjustment` and the meters measure wall-clock rates. A throttled round is stuttering in the model.
- **Socket I/O.** UDP `sendmsg` is the lossy datagram set. TCP framing and partial sends are `RdStream`'s; the other modules use its whole-frame FIFO, `FrameFifo`, for the control path.
- **Weak memory order.** `TryPop` stores `head_` with relaxed order after moving the element out. On x86 the store is not seen before the move, and `SpscQueue` checks that order; on ARM or POWER a `Push` could see the store first and overwrite the slot being read. That reordered outcome is not explored.
- **`count` 0.** `RoundUpPower2(0)` is 0, so `Push` would spin for ever; every queue is built with the default 32.
- **Configuration and tools.** Configuration, argument parsing, the speed-test client and server, the ps-lite `Van` overrides of `mlt_van.h`, and the vendored `dmlc`/`prism` headers.
- **Receiving thread after `StopUdpReceiving`.** `StopUdpReceiving` only sets `terminated_` and does not join, so the receiving thread may still run during teardown (see above). `UdpSimpleTest` does not model datagrams, so it does not explore this.

A size-0 `TreeBlockMgr` holds the empty block `[0,0)`, so its `ByteSize()` is 8 where spec 4.1 implies 0; no run checks this case.
