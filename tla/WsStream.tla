------------------------------ MODULE WsStream ------------------------------
(***************************************************************************)
(* The WebSocket transport (transport::ws): the upgrade with its early     *)
(* data, the byte-stream adapter WsStream and the split halves, next to    *)
(* the gRPC one; and the properties of both.                               *)
(*                                                                         *)
(* Mode "ws" is link_to_conn over the AsyncWrite adapter, mode "wssink" is *)
(* link_to_sink over WsWriteHalf.  The WebSocket library (framing, control *)
(* frames, its write buffer) is external: it yields whole messages, keeps  *)
(* what it is given in a buffer and writes it out when it is flushed or    *)
(* the buffer is past its limit.                                           *)
(***************************************************************************)
EXTENDS GrpcStream

CONSTANTS
    WsLoads,  \* the WebSocket flows: [mode, downlink, uplink, want, ask, early], that
              \* is the chunks on the link, the client's messages [kind, data], the
              \* path and host wanted and asked for, the subprotocol header
    WsLimit,  \* the library's write buffer
    Symbol    \* the base64url alphabet: character -> byte

ASSUME WsConstants == WsLimit \in Nat /\ \A l \in WsLoads : l.mode \in {"ws", "wssink"}

Ws == Mode \in {"ws", "wssink"}

WsInit ==
    /\ load \in WsLoads
    /\ link = <<>> /\ linkOpen = TRUE /\ fed = 0 /\ loop = "recv" /\ chunk = <<>>
    /\ writeBuf = <<>> /\ window = 0 /\ wire = <<>>
    /\ peer = load.uplink /\ recvd = <<>> /\ ended = FALSE
    /\ recvBuf = <<>> /\ pending = <<>> /\ eof = FALSE /\ got = <<>> /\ read = "hello"
    /\ ServeInit

-----------------------------------------------------------------------------
(* accept.                                                                 *)

\* decode_early_data: both alphabets, padding dropped; None if not base64.
DecodeEarlyData(s) ==
    LET norm == [i \in DOMAIN s |-> CASE s[i] = "+" -> "-" [] s[i] = "/" -> "_" [] OTHER -> s[i]]
        kept == SelectSeq(norm, LAMBDA c : c # "=")
    IN  IF ToSet(kept) \subseteq DOMAIN Symbol THEN [i \in DOMAIN kept |-> Symbol[kept[i]]] ELSE None

\* The callback: an empty path and no host accept any; the port of the host is
\* not compared.
Refused(want, ask) ==
    \/ want.path # "" /\ ask.path # want.path
    \/ want.host # None /\ (ask.host = None \/ ask.host.name # want.host)

WsAccept ==
    /\ Ws /\ read = "hello"
    /\ IF Refused(load.want, load.ask) THEN read' = "refused" /\ UNCHANGED pending
       ELSE LET early == IF load.early = None THEN None ELSE DecodeEarlyData(load.early) IN
            read' = "open" /\ pending' = IF early = None THEN <<>> ELSE early
    /\ UNCHANGED <<load, carrier, down, peer, recvd, ended, recvBuf, eof, got>>

-----------------------------------------------------------------------------
(* Downlink.                                                               *)

WsFrame(c) == <<Len(c)>> \o c

\* The library takes a message: it is written out if the buffer is past the
\* limit.
Buffer(buf) ==
    IF Len(buf) > WsLimit THEN FlushInto(buf) ELSE writeBuf' = buf /\ UNCHANGED <<wire, window>>

\* poll_write: poll_ready, which flushes a buffer that is past its limit, then
\* start_send of the whole chunk, and no flush.
WsReady ==
    /\ Mode = "ws" /\ loop = "write" /\ chunk # <<>> /\ Len(writeBuf) > WsLimit /\ window > 0
    /\ FlushInto(writeBuf)
    /\ UNCHANGED <<link, linkOpen, fed, loop, chunk, up, load, carrier>>
WsPollWrite ==
    /\ Mode = "ws" /\ loop = "write" /\ (Len(writeBuf) <= WsLimit \/ chunk = <<>>)
    /\ IF chunk = <<>> THEN UNCHANGED <<writeBuf, window, wire>> ELSE Buffer(writeBuf \o WsFrame(chunk))
    /\ loop' = "recv"
    /\ UNCHANGED <<link, linkOpen, fed, chunk, up, load, carrier>>

\* WsWriteHalf::send: the message is flushed before send returns.
WsSend ==
    /\ Mode = "wssink" /\ loop = "write" /\ writeBuf = <<>>
    /\ FlushInto(WsFrame(chunk))
    /\ loop' = IF writeBuf' = <<>> THEN "recv" ELSE "write"
    /\ chunk' = <<>>
    /\ UNCHANGED <<link, linkOpen, fed, up, load, carrier>>

-----------------------------------------------------------------------------
(* Uplink: poll_read of WsStream and of WsReadHalf.                        *)

\* Mutant: a message without payload ends the stream.
WsNextEmptyEnds ==
    /\ Ws /\ pending = <<>> /\ read = "open" /\ ~eof /\ recvd # <<>>
    /\ LET m == Head(recvd)
           data == IF m.kind \in {"binary", "text"} THEN m.data ELSE <<>>
       IN  /\ pending' = data
           /\ eof' = (data = <<>>) /\ read' = IF data = <<>> THEN "eof" ELSE "open"
    /\ recvd' = Tail(recvd)
    /\ UNCHANGED <<load, carrier, down, peer, ended, recvBuf, got>>

\* poll_next yields a message; control frames are passed over, and so is a
\* message without payload.
WsNext ==
    /\ Ws /\ pending = <<>> /\ read = "open" /\ ~eof /\ recvd # <<>>
    /\ LET m == Head(recvd) IN
         /\ pending' = IF m.kind \in {"binary", "text"} THEN m.data ELSE <<>>
         /\ eof' = (m.kind = "close")
         /\ read' = CASE m.kind = "close" -> "eof" [] m.kind = "invalid" -> "error" [] OTHER -> "open"
    /\ recvd' = Tail(recvd)
    /\ UNCHANGED <<load, carrier, down, peer, ended, recvBuf, got>>

\* The connection is gone: poll_next yields nothing, or the library's error.
WsGone ==
    /\ Ws /\ pending = <<>> /\ read = "open" /\ recvd = <<>> /\ ended
    /\ \/ read' = "eof" /\ eof' = TRUE
       \/ read' = "error" /\ UNCHANGED eof
    /\ UNCHANGED <<load, carrier, down, peer, recvd, ended, recvBuf, pending, got>>

WsDownlinks == WsReady \/ WsPollWrite \/ WsSend
WsUplinks == WsAccept \/ WsNext \/ WsGone

Spec == (Init \/ WsInit) /\ [][Next \/ WsDownlinks \/ WsUplinks]_vars

\* Woken tasks are polled, and a client that reads reopens the window.
FairSpec == Spec /\ WF_vars(Downlinks \/ WsDownlinks) /\ WF_vars(Uplinks \/ WsUplinks) /\ WF_vars(OpenWindow) /\ WF_vars(Carriers)

-----------------------------------------------------------------------------
(* Properties.                                                             *)

\* What a client decodes from the DATA frames so far.
RECURSIVE Decoded(_)
Decoded(buf) == LET d == TryDecode(buf) IN
                IF d \in {None, Invalid} THEN <<>> ELSE d.payload \o Decoded(d.rest)
RECURSIVE Messages(_)
Messages(buf) == IF buf = <<>> \/ Len(buf) <= Head(buf) THEN <<>>
                 ELSE SubSeq(buf, 2, Head(buf) + 1) \o Messages(SeqFrom(buf, Head(buf) + 2))
Shown == IF Ws THEN Messages(wire) ELSE Decoded(wire)

Sent == FlattenSeq(SubSeq(Downlink, 1, fed))
Meant ==
    IF ~Ws THEN FlattenSeq([i \in DOMAIN Uplink |-> Uplink[i].payload])
    ELSE (IF load.early = None \/ DecodeEarlyData(load.early) = None THEN <<>> ELSE DecodeEarlyData(load.early))
         \o FlattenSeq([i \in DOMAIN Uplink |-> Uplink[i].data])

\* The types.
TypeOK ==
    /\ loop \in {"recv", "write", "flush", "done"} /\ window \in 0..MaxWindow
    /\ fed \in 0..Len(Downlink) /\ linkOpen \in BOOLEAN /\ eof \in BOOLEAN
    /\ read \in {"hello", "refused", "open", "eof", "error"}

\* Both directions carry their bytes in order and completely, wherever flow
\* control and DATA frames cut them.  The client decodes a prefix of the
\* downlink, and all of it once the copy loop has returned (poll_write, send).
\* The uplink copy loop reads a prefix of what the client framed, whatever
\* unknown fields are in its hunks, and sees end of stream, or the error of
\* what is no hunk, only behind every byte of every complete frame; an empty
\* payload is not mistaken for end of stream (poll_read).  The early data of a
\* WebSocket comes before its messages.
InOrder ==
    /\ IsPrefix(Shown, Sent)
    /\ loop = "done" => Shown = Sent
    /\ IsPrefix(got, Meant)
    /\ (read \in {"eof", "error"} /\ peer = <<>>) \/ (Grpc /\ read = "error") => got = Meant

\* Again and again everything the outbound has put on the link has reached the
\* client that keeps reading -- except what poll_write has reported as written and left in
\* write_buf, or in the buffer of the WebSocket, which it never flushes:
\* nothing polls the writer again before the link has more to write or ends.
\* The sinks leave nothing behind.
FedIsSent ==
    []<>(\/ Shown = Sent
         \/ Mode \in {"stream", "ws"} /\ loop = "recv" /\ link = <<>> /\ writeBuf # <<>>)
=============================================================================
