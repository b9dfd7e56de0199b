------------------------------ MODULE RdStream ------------------------------
(***************************************************************************)
(* One direction of a reliable connection at the level of bytes            *)
(* (src/src/mlt/rd_endpoint.cc, reliable_channel.cc): the sender's tx loop *)
(* prefixes each buffer with its length (WriteLength) and pushes it on the *)
(* endpoint's tx_queue_; OnSendReady writes what the socket takes, so a    *)
(* frame may go out in pieces; TCP delivers the byte stream in order but   *)
(* split anywhere; OnRecvReady reads a 4-byte length, then the payload,    *)
(* keeps an unfinished buffer in rx_buffers_ and hands a finished one to   *)
(* HandleReceivedData.                                                     *)
(*                                                                         *)
(* The stream's content is fixed by Payloads, so the bytes are counters:   *)
(* written (sent), arrived at the receiver's kernel, and read.  A Buffer   *)
(* is its size and the count of bytes MarkHandled so far (IsClear: all     *)
(* handled); the Socket's Send and Recv are POSIX send and recv on a       *)
(* non-blocking socket.                                                    *)
(***************************************************************************)
EXTENDS Naturals, Sequences, FiniteSets, SequencesExt

CONSTANTS
  Payloads,     \* payload sizes of the buffers the tx loop routes, in order
  HdrLen,       \* sizeof(uint32_t), the length prefix
  SockBuf,      \* bytes the two kernels hold: written and not yet read
  MaxPayload    \* largest length a read at a wrong offset may decode

N == Len(Payloads)

\* the bytes of the first k frames: each is its length prefix and payload
StreamLen(k) == FoldLeft(LAMBDA acc, p : acc + HdrLen + p, 0, SubSeq(Payloads, 1, k))

\* the length a 4-byte read at stream offset p decodes: the frame's own
\* length at a frame boundary, anything elsewhere
Decoded(p) ==
  IF \E i \in 1 .. N : StreamLen(i - 1) = p
  THEN {Payloads[CHOOSE i \in 1 .. N : StreamLen(i - 1) = p]}
  ELSE 0 .. MaxPayload

\* rx_buffers_ after the search for a buffer that is not clear: a clear
\* (or zero-size) buffer is skipped, so one record covers both cases
NoRx == [len |-> 0, got |-> 0]

VARIABLES
  routed,    \* buffers the tx loop has pushed on the endpoint's tx_queue_
  sent,      \* bytes OnSendReady has written to the socket
  arrived,   \* bytes in the receiver's kernel buffer or already read
  read,      \* bytes OnRecvReady has read
  rx,        \* the unfinished receive buffer: its size and bytes handled
  handed,    \* payload sizes handed to HandleReceivedData, in order
  closed,    \* the sender's endpoint is disconnected (RemoveEndpoint)
  rxState    \* the receiver: "open", "disconnected", or "aborted" (CHECK)

vars == <<routed, sent, arrived, read, rx, handed, closed, rxState>>

TypeOK ==
  /\ routed \in 0 .. N
  /\ sent \in 0 .. StreamLen(routed)
  /\ arrived \in 0 .. sent
  /\ read \in 0 .. arrived
  /\ sent - read <= SockBuf
  /\ rx.len \in 0 .. MaxPayload /\ rx.got \in 0 .. rx.len
  /\ handed \in Seq(0 .. MaxPayload)
  /\ closed \in BOOLEAN
  /\ rxState \in {"open", "disconnected", "aborted"}

Init ==
  /\ routed = 0
  /\ sent = 0
  /\ arrived = 0
  /\ read = 0
  /\ rx = NoRx
  /\ handed = <<>>
  /\ closed = FALSE
  /\ rxState = "open"

-----------------------------------------------------------------------------
(* The sending side                                                        *)

\* the tx loop of ReliableChannel::Run: WriteLength stores size - 4 in the
\* prefix (CHECK_GE holds: every buffer has its header), then push; a
\* dead endpoint stays in ctrl_endpoints_ and is still routed to
Route ==
  /\ routed < N
  /\ routed' = routed + 1
  /\ UNCHANGED <<sent, arrived, read, rx, handed, closed, rxState>>

\* EPOLLOUT: OnSendReady sends the front buffer's remaining bytes, marks
\* what the socket took, pops a clear buffer and goes on until the queue is
\* empty or send returns -1 (EWOULDBLOCK): any number of bytes the socket
\* has room for, continuing across buffer boundaries
OnSendReady ==
  /\ ~closed
  /\ sent < StreamLen(routed)
  /\ SockBuf - (sent - read) > 0
  /\ \E k \in 1 .. Min({StreamLen(routed) - sent, SockBuf - (sent - read)}) :
       sent' = sent + k
  /\ UNCHANGED <<routed, arrived, read, rx, handed, closed, rxState>>

\* TCP moves written bytes to the receiver in segments of any size
Transmit ==
  /\ arrived < sent
  /\ \E a \in arrived + 1 .. sent : arrived' = a
  /\ UNCHANGED <<routed, sent, read, rx, handed, closed, rxState>>

\* RemoveEndpoint: Disconnect closes the socket (which leaves the epoll
\* set) once; what the tx_queue_ still holds is never written, what was
\* written still arrives
Close ==
  /\ ~closed
  /\ closed' = TRUE
  /\ UNCHANGED <<routed, sent, arrived, read, rx, handed, rxState>>

-----------------------------------------------------------------------------
(* The receiving side: OnRecvReady on EPOLLIN                              *)

\* what a recv may return now, and whether the peer has shut down
Avail == arrived - read
Eof == closed /\ arrived = sent

\* the buffer of r bytes, now with got handled: HandleReceivedData once it
\* is clear, else back into rx_buffers_
Finish(len, got) ==
  IF got = len
  THEN /\ handed' = Append(handed, len)
       /\ rx' = NoRx
  ELSE /\ rx' = [len |-> len, got |-> got]
       /\ UNCHANGED handed

\* variant: recv into the buffer asks for all the socket has, not
\* GetRemainSize()
ResumeOverread ==
  /\ rx.got < rx.len
  /\ \/ /\ Avail > 0
        /\ read' = read + Avail
        /\ Finish(rx.len, rx.got + Avail)
        /\ UNCHANGED rxState
     \/ /\ Avail = 0
        /\ rxState' = "disconnected"
        /\ UNCHANGED <<read, rx, handed>>

\* variant: a resumed buffer that completes is pushed back to rx_buffers_
\* instead of being handed on, and the next call skips it as clear
ResumeDrop ==
  /\ rx.got < rx.len
  /\ \/ /\ Avail > 0
        /\ LET r == Min({rx.len - rx.got, Avail})
           IN /\ read' = read + r
              /\ rx' = [rx EXCEPT !.got = @ + r]
              /\ UNCHANGED handed
        /\ UNCHANGED rxState
     \/ /\ Avail = 0
        /\ rxState' = "disconnected"
        /\ UNCHANGED <<read, rx, handed>>

\* a buffer from rx_buffers_ that is not clear: recv into its remaining
\* bytes; 0 bytes means the peer shut down (Disconnect)
Resume ==
  /\ rx.got < rx.len
  /\ \/ /\ Avail > 0
        /\ LET r == Min({rx.len - rx.got, Avail})
           IN /\ read' = read + r
              /\ Finish(rx.len, rx.got + r)
        /\ UNCHANGED rxState
     \/ /\ Avail = 0
        /\ rxState' = "disconnected"
        /\ UNCHANGED <<read, rx, handed>>

\* variant: an unfinished payload is dropped instead of kept
NewFrameNoKeep ==
  \E len \in Decoded(read) :
    LET r == Min({len, Avail - HdrLen})
    IN /\ read' = read + HdrLen + r
       /\ IF r = len THEN handed' = Append(handed, len) ELSE UNCHANGED handed
       /\ rx' = NoRx
       /\ UNCHANGED rxState

\* variant: a payload recv that moves nothing is taken for the shutdown,
\* whether it returned 0 or -1
NewFrameEofOnEmpty ==
  \E len \in Decoded(read) :
    LET r == Min({len, Avail - HdrLen})
    IN \/ /\ r > 0
          /\ read' = read + HdrLen + r
          /\ Finish(len, r)
          /\ UNCHANGED rxState
       \/ /\ r = 0
          /\ read' = read + HdrLen
          /\ rxState' = "disconnected"
          /\ UNCHANGED <<rx, handed>>

\* then a Buffer of the decoded length and recv into it: -1 keeps it in
\* rx_buffers_, 0 (the peer shut down, or a zero length) disconnects
NewFrame ==
  \E len \in Decoded(read) :
    LET r == Min({len, Avail - HdrLen})
    IN \/ /\ r > 0
          /\ read' = read + HdrLen + r
          /\ Finish(len, r)
          /\ UNCHANGED rxState
       \/ /\ r = 0
          /\ len > 0
          /\ ~Eof
          /\ read' = read + HdrLen
          /\ rx' = [len |-> len, got |-> 0]
          /\ UNCHANGED <<handed, rxState>>
       \/ /\ r = 0
          /\ (len = 0 \/ Eof)
          /\ read' = read + HdrLen
          /\ rxState' = "disconnected"
          /\ UNCHANGED <<rx, handed>>

\* no such buffer: recv(&length, 4).  0 bytes: the peer shut down.  Fewer
\* than 4: CHECK_EQ(sizeof(length), ret) aborts the process.
ReadLength ==
  /\ rx.got = rx.len
  /\ \/ /\ Avail = 0
        /\ rxState' = "disconnected"
        /\ UNCHANGED <<read, rx, handed>>
     \/ /\ Avail \in 1 .. HdrLen - 1
        /\ rxState' = "aborted"
        /\ read' = read + Avail
        /\ UNCHANGED <<rx, handed>>
     \/ /\ Avail >= HdrLen
        /\ NewFrame

\* one call handles at most one message; level-triggered epoll calls it
\* again while bytes or the shutdown are pending
OnRecvReady ==
  /\ rxState = "open"
  /\ Avail > 0 \/ Eof
  /\ Resume \/ ReadLength
  /\ UNCHANGED <<routed, sent, arrived, closed>>

-----------------------------------------------------------------------------
\* Every frame routed is handed, or the receiver has stopped, or the
\* sender has closed and its stream has been read to the end: the threads
\* then idle in their loops.
Quiescent ==
  /\ ~ENABLED (Route \/ OnSendReady \/ Transmit \/ OnRecvReady)
  /\ UNCHANGED vars

Next == Route \/ OnSendReady \/ Transmit \/ Close \/ OnRecvReady \/ Quiescent

\* The reliable thread routes its tx_queue_ on every iteration and epoll is
\* level-triggered, so EPOLLOUT and EPOLLIN are reported every round until
\* served; TCP delivers what was written.  RemoveEndpoint is the user's
\* call and is not forced.
Fairness ==
  /\ WF_vars(Route)
  /\ WF_vars(OnSendReady)
  /\ WF_vars(Transmit)
  /\ WF_vars(OnRecvReady)

Spec == Init /\ [][Next]_vars /\ Fairness

-----------------------------------------------------------------------------
Abs == INSTANCE FrameFifo WITH Frames <- 0 .. MaxPayload,
                               routedQ <- SubSeq(Payloads, 1, routed)

\* Refinement: however the socket splits the writes and TCP the segments,
\* OnRecvReady hands HandleReceivedData exactly the routed frames, whole,
\* in order and once each: each recv resumes at the offset where the last
\* one stopped (rx_buffers_), so every length is read at a frame boundary.
ImplementsFrameFifo == Abs!Spec

\* Every routed frame reaches HandleReceivedData, or the receiver stops:
\* an endpoint the sender closed is read to the end of its stream and then
\* disconnects; a frame split across writes and segments is finished by
\* later OnRecvReady calls.
FramesHanded ==
  <>(Len(handed) = N \/ rxState # "open")

\* frames whose every byte the sender has written
WrittenFrames == Cardinality({i \in 1 .. N : StreamLen(i) <= sent})

\* The receiver disconnects only at the real end of the stream: by then
\* every frame the sender wrote whole has been handed on.  OnRecvReady
\* takes recv's 0 for the peer's shutdown and -1 for "nothing yet"; a
\* disconnect on the wrong one drops the frames still in the socket.
WrittenFramesHanded ==
  rxState = "disconnected" => Len(handed) = WrittenFrames

\* OnRecvReady's CHECK_EQ(sizeof(length), ret) never fires: the 4-byte
\* length prefix is always available whole when a new frame is read.
LengthReadWhole == rxState # "aborted"
=============================================================================
