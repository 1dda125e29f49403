----------------------------- MODULE GrpcStream -----------------------------
(***************************************************************************)
(* A proxied flow over the gRPC transport: the byte-stream adapter         *)
(* GrpcStream (poll_read, poll_write, poll_flush) and its split write half *)
(* GrpcWriteHalf, between the copy loops that drive them and an HTTP/2     *)
(* stream with flow control.  WsStream adds the WebSocket transport, which *)
(* shares the copy loops and the state, and states the properties of both. *)
(*                                                                         *)
(* Mode "stream" is link_to_conn over the AsyncWrite adapter, mode "sink"  *)
(* is link_to_sink over GrpcWriteHalf.  A poll that returns Pending        *)
(* registers a waker and is modelled by the step that completes it.        *)
(***************************************************************************)
EXTENDS GrpcServe

CONSTANTS
    Loads,      \* the flows to explore: [service, calls, mine, mode, downlink, uplink,
                \* trash], that is the connection and the stream followed, the mode
                \* "stream" or "sink", the chunks the outbound puts on the link, the
                \* hunks the client frames, in order, as [fields, payload], where
                \* fields are the bytes of fields the proxy does not know, and what
                \* the client sends after them that is no hunk
    MaxWindow   \* bound on the flow-control window the client opens at once

ASSUME GrpcConstants == /\ \A l \in Loads : l.mode \in {"stream", "sink"}
                        /\ MaxWindow \in Nat \ {0}

VARIABLES
    link,       \* chunks on the downlink
    linkOpen,   \* the outbound still holds the sender
    fed,        \* chunks the outbound has sent so far
    loop,       \* the downlink copy loop: "recv", "write", "flush" or "done"
    chunk,      \* the chunk it is writing
    writeBuf,   \* write_buf (or, for the sink, what send_all has left)
    window,     \* flow-control capacity
    wire,       \* DATA sent to the client
    peer,       \* client: encoded bytes still to send
    recvd,      \* DATA received and not read (RecvStream)
    ended,      \* client: end of stream sent
    recvBuf, pending, eof,  \* GrpcStream.recv_buf, .pending, .eof
    got,        \* bytes handed to the uplink copy loop
    read        \* the uplink copy loop's last poll_read: "open", "eof" or "error";
                \* "hello" before the stream has a task, "refused" when it gets none

down == <<link, linkOpen, fed, loop, chunk, writeBuf, window, wire>>
up == <<peer, recvd, ended, recvBuf, pending, eof, got, read>>
vars == <<load, carrier, down, up>>

Mode == load.mode
Grpc == Mode \in {"stream", "sink"}
Downlink == load.downlink
Uplink == load.uplink

\* A client's hunk: fields the proxy does not know may come before the payload.
PeerHunk(h) == LET e == EncodeHunk(h.payload) IN <<0, Len(h.fields) + e[2]>> \o h.fields \o SeqFrom(e, 3)

Init ==
    /\ load \in Loads
    /\ link = <<>> /\ linkOpen = TRUE /\ fed = 0 /\ loop = "recv" /\ chunk = <<>>
    /\ writeBuf = <<>> /\ window = 0 /\ wire = <<>>
    /\ peer = FlattenSeq([i \in DOMAIN Uplink |-> PeerHunk(Uplink[i])]) \o load.trash
    /\ recvd = <<>> /\ ended = FALSE
    /\ recvBuf = <<>> /\ pending = <<>> /\ eof = FALSE /\ got = <<>> /\ read = "hello"
    /\ ServeInit

-----------------------------------------------------------------------------
(* The connection.  The stream followed is read once it has a task.        *)

Carried ==
    /\ read' = IF read # "hello" THEN read
               ELSE IF load.mine \in tasks' THEN "open" ELSE IF load.mine \in refused' THEN "refused" ELSE read
    /\ UNCHANGED <<load, down, peer, recvd, ended, recvBuf, pending, eof, got>>
Carriers == Grpc /\ (AcceptRequest \/ SendStream \/ FanOut \/ FanReturns) /\ Carried
Client == Grpc /\ (Call \/ (Hangup /\ ended /\ loop = "done")) /\ Carried

-----------------------------------------------------------------------------
(* The outbound and the client's flow control (external).                  *)

Feed == /\ linkOpen /\ read \notin {"hello", "refused"} /\ fed < Len(Downlink)
        /\ link' = Append(link, Downlink[fed + 1]) /\ fed' = fed + 1
        /\ UNCHANGED <<linkOpen, loop, chunk, writeBuf, window, wire, up, load, carrier>>

LinkEof == /\ linkOpen /\ read # "hello" /\ linkOpen' = FALSE
           /\ UNCHANGED <<link, fed, loop, chunk, writeBuf, window, wire, up, load, carrier>>

\* h2 assigns capacity to a stream that has reserved some or is about to.
OpenWindow == /\ driver = "accept" /\ window = 0 /\ (loop = "write" \/ writeBuf # <<>>)
              /\ \E n \in 1..MaxWindow : window' = n
              /\ UNCHANGED <<link, linkOpen, fed, loop, chunk, writeBuf, wire, up, load, carrier>>

-----------------------------------------------------------------------------
(* Downlink.                                                               *)

\* flush_write_buf while there is capacity: buf is what is to be sent.
Sendable(buf) == IF window < Len(buf) THEN window ELSE Len(buf)
FlushInto(buf) ==
    LET n == Sendable(buf) IN
    /\ wire' = wire \o SubSeq(buf, 1, n)
    /\ writeBuf' = SeqFrom(buf, n + 1)
    /\ window' = window - n

\* The loop takes a chunk; the sink drops empty ones.
Recv ==
    /\ loop = "recv" /\ link # <<>>
    /\ link' = Tail(link)
    /\ IF Mode \in {"sink", "wssink"} /\ Head(link) = <<>>
       THEN UNCHANGED <<loop, chunk>>
       ELSE loop' = "write" /\ chunk' = Head(link)
    /\ UNCHANGED <<linkOpen, fed, writeBuf, window, wire, up, load, carrier>>

RecvEof ==
    /\ loop = "recv" /\ link = <<>> /\ ~linkOpen
    /\ loop' = "flush"
    /\ UNCHANGED <<link, linkOpen, fed, chunk, writeBuf, window, wire, up, load, carrier>>

\* Mutant: the rest of a frame waits for a window that takes it whole.
DrainWhole ==
    /\ loop = "write" /\ writeBuf # <<>> /\ window >= Len(writeBuf)
    /\ Mode # "ws" /\ (Mode = "stream" => chunk # <<>>)
    /\ FlushInto(writeBuf)
    /\ loop' = IF Mode # "stream" /\ writeBuf' = <<>> THEN "recv" ELSE "write"
    /\ UNCHANGED <<link, linkOpen, fed, chunk, up, load, carrier>>

\* poll_write, first part: the previous frame drains before more is taken.
\* The same loop is GrpcWriteHalf::send_all awaiting capacity, and the flush in
\* the websocket's send.
DrainPrevious ==
    /\ loop = "write" /\ writeBuf # <<>> /\ window > 0
    /\ Mode # "ws" /\ (Mode = "stream" => chunk # <<>>)
    /\ FlushInto(writeBuf)
    /\ loop' = IF Mode # "stream" /\ writeBuf' = <<>> THEN "recv" ELSE "write"
    /\ UNCHANGED <<link, linkOpen, fed, chunk, up, load, carrier>>

\* poll_write, second part: frame the chunk, flush what the window allows and
\* report it consumed; an empty write (write_all of nothing) does nothing.
PollWrite ==
    /\ Mode = "stream" /\ loop = "write" /\ (writeBuf = <<>> \/ chunk = <<>>)
    /\ IF chunk = <<>> THEN UNCHANGED <<writeBuf, window, wire>> ELSE FlushInto(EncodeHunk(chunk))
    /\ loop' = "recv"
    /\ UNCHANGED <<link, linkOpen, fed, chunk, up, load, carrier>>

\* GrpcWriteHalf::send returns when all of header and payload is sent.
SinkSend ==
    /\ Mode = "sink" /\ loop = "write" /\ writeBuf = <<>>
    /\ FlushInto(EncodeHunk(chunk))
    /\ loop' = IF writeBuf' = <<>> THEN "recv" ELSE "write"
    /\ chunk' = <<>>
    /\ UNCHANGED <<link, linkOpen, fed, up, load, carrier>>

\* End of the link: flush (poll_flush awaits capacity), then return.
Flush ==
    /\ loop = "flush"
    /\ IF writeBuf = <<>> THEN loop' = "done" /\ UNCHANGED <<writeBuf, window, wire>>
       ELSE window > 0 /\ FlushInto(writeBuf) /\ UNCHANGED loop
    /\ UNCHANGED <<link, linkOpen, fed, chunk, up, load, carrier>>

-----------------------------------------------------------------------------
(* Uplink: the client sends its frames cut anywhere; poll_read.            *)

PeerData ==
    /\ driver = "accept" /\ recvd = <<>> /\ ~ended /\ read # "hello"
    /\ \E n \in 1..Len(peer) : recvd' = SubSeq(peer, 1, n) /\ peer' = SeqFrom(peer, n + 1)
    /\ UNCHANGED <<load, carrier, down, ended, recvBuf, pending, eof, got, read>>

\* The client ends the stream, perhaps in the middle of a frame.
PeerEnd == /\ driver = "accept" /\ ~ended /\ ended' = TRUE
           /\ UNCHANGED <<load, carrier, down, peer, recvd, recvBuf, pending, eof, got, read>>

\* Decoded bytes are handed out first, at most what the caller has room for.
ReadPending ==
    /\ pending # <<>>
    /\ \E n \in 1..Len(pending) : /\ got' = got \o SubSeq(pending, 1, n)
                                  /\ pending' = SeqFrom(pending, n + 1)
    /\ UNCHANGED <<load, carrier, down, peer, recvd, ended, recvBuf, eof, read>>

\* One frame is decoded from the front of recv_buf.
Decode ==
    /\ Grpc /\ pending = <<>> /\ read = "open"
    /\ LET d == TryDecode(recvBuf) IN
         /\ d \notin {None, Invalid}
         /\ pending' = d.payload /\ recvBuf' = d.rest
    /\ UNCHANGED <<load, carrier, down, peer, recvd, ended, eof, got, read>>

\* A compressed or oversized frame or a malformed hunk: poll_read fails.
DecodeError ==
    /\ Grpc /\ pending = <<>> /\ read = "open" /\ TryDecode(recvBuf) = Invalid
    /\ read' = "error"
    /\ UNCHANGED <<load, carrier, down, peer, recvd, ended, recvBuf, pending, eof, got>>

NeedsData == Grpc /\ pending = <<>> /\ read = "open" /\ TryDecode(recvBuf) = None

PollData ==
    /\ NeedsData /\ ~eof /\ recvd # <<>>
    /\ recvBuf' = recvBuf \o recvd /\ recvd' = <<>>
    /\ UNCHANGED <<load, carrier, down, peer, ended, pending, eof, got, read>>

SeeEnd ==
    /\ NeedsData /\ ~eof /\ recvd = <<>> /\ ended
    /\ eof' = TRUE
    /\ UNCHANGED <<load, carrier, down, peer, recvd, ended, recvBuf, pending, got, read>>

\* No bytes and no more to come: the caller sees end of stream.
ReadEof ==
    /\ NeedsData /\ eof
    /\ read' = "eof"
    /\ UNCHANGED <<load, carrier, down, peer, recvd, ended, recvBuf, pending, eof, got>>

Downlinks == Recv \/ RecvEof \/ DrainPrevious \/ PollWrite \/ SinkSend \/ Flush
Uplinks == ReadPending \/ Decode \/ DecodeError \/ PollData \/ SeeEnd \/ ReadEof

Next == \/ Carriers \/ Client \/ Feed \/ LinkEof \/ OpenWindow \/ Downlinks
        \/ PeerData \/ PeerEnd \/ Uplinks
=============================================================================
