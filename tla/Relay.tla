------------------------------- MODULE Relay --------------------------------
(***************************************************************************)
(* One proxied TCP flow end to end: the client's connection, the inbound   *)
(* relay, the in-process Link, the outbound relay and the target's         *)
(* connection (kernel::pipe, proxy::io, proxy::outbound).                  *)
(*                                                                         *)
(* Both sides run the same two loops: rd copies the connection into the    *)
(* link (conn_to_link, the "up" block of relay_framed), wr copies the link *)
(* into the connection (link_to_conn, the "down" block).  A "stream" side  *)
(* joins its loops with try_join! (relay_stream, splice), a "framed" side  *)
(* races them with select! (relay_framed, SsOutbound::relay).              *)
(*                                                                         *)
(* Chunks are numbered per direction.  Time is abstract: the idle period   *)
(* of a side may elapse whenever no chunk has reset its timer since.       *)
(***************************************************************************)
EXTENDS Naturals, Sequences

CONSTANTS
    Flows,     \* the flows considered: how each side is relayed, how many
               \* chunks its peer may send, and whether the header read already
               \* holds the client's first chunk
    Capacity,  \* LINK_CAPACITY: chunks in flight per link direction
    SockCap    \* chunks a socket buffers per direction

Sides == {"in", "out"}
Other(s) == IF s = "in" THEN "out" ELSE "in"

ASSUME RelayConstants ==
    /\ \A f \in Flows :
          /\ f.mode \in [Sides -> {"stream", "framed"}]
          /\ f.chunks \in [Sides -> Nat]
          /\ f.leftover \in BOOLEAN /\ (f.leftover => f.chunks["in"] > 0)
    /\ Capacity \in Nat \ {0} /\ SockCap \in Nat \ {0}

VARIABLES
    flow,    \* the flow under way; never changes
    \* the peers: client ("in") and target ("out")
    sent,    \* chunks the peer has put on the wire
    fin,     \* the peer has closed its sending direction
    reset,   \* the peer has reset the connection
    wire,    \* socket buffer, peer -> proxy
    out,     \* socket buffer, proxy -> peer
    got,     \* chunks the peer has read
    eos,     \* end of stream signalled to the peer inside the connection
    \* the relays
    relay,   \* "dial", "run", "ok" or "err"
    rd,      \* "lead" (sending the leftover), "read", "send", "done"
    rbuf,    \* the chunk rd is sending
    wr,      \* "recv", "write", "done"
    wbuf,    \* the chunk wr is writing
    chan,    \* link direction written by this side
    \* the idle timers
    quiet,   \* the idle period has elapsed since the last update
    timer,   \* the timer task: "sleep", "fire", "off"
    cancelled

peerVars  == <<flow, sent, fin, reset>>
timerVars == <<quiet, timer, cancelled>>
vars == <<flow, sent, fin, reset, wire, out, got, eos, relay, rd, rbuf, wr, wbuf, chan,
          quiet, timer, cancelled>>

Init ==
    /\ flow \in Flows
    /\ sent = [s \in Sides |-> IF s = "in" /\ flow.leftover THEN 1 ELSE 0]
    /\ fin = [s \in Sides |-> FALSE]
    /\ reset = [s \in Sides |-> FALSE]
    /\ wire = [s \in Sides |-> <<>>]
    /\ out = [s \in Sides |-> <<>>]
    /\ got = [s \in Sides |-> <<>>]
    /\ eos = [s \in Sides |-> FALSE]
    /\ relay = [s \in Sides |-> IF s = "in" THEN "run" ELSE "dial"]
    /\ rd = [s \in Sides |-> IF s = "in" /\ flow.leftover
                             THEN IF flow.mode[s] = "stream" THEN "lead" ELSE "send"
                             ELSE "read"]
    /\ rbuf = [s \in Sides |-> IF s = "in" /\ flow.leftover THEN <<1>> ELSE <<>>]
    /\ wr = [s \in Sides |-> "recv"]
    /\ wbuf = [s \in Sides |-> <<>>]
    /\ chan = [s \in Sides |-> <<>>]
    /\ quiet = [s \in Sides |-> FALSE]
    /\ timer = [s \in Sides |-> "sleep"]
    /\ cancelled = [s \in Sides |-> FALSE]

Running(s) == relay[s] = "run"
\* Whether the sender / the receiver of the link direction written by s exists.
\* The outbound half of the link lives with the outbound from the start.
HasSender(s) == relay[s] \in {"dial", "run"} /\ rd[s] # "done"
HasReceiver(s) == relay[Other(s)] \in {"dial", "run"} /\ wr[Other(s)] # "done"

\* Timer::update.
Update(s) == quiet' = [quiet EXCEPT ![s] = FALSE]

\* The relay of s ends: its link ends are dropped and its socket closed, so
\* whatever it still held is gone.
End(s, how) ==
    /\ relay' = [relay EXCEPT ![s] = how]
    /\ wire' = [wire EXCEPT ![s] = <<>>]
    /\ rbuf' = [rbuf EXCEPT ![s] = <<>>]
    /\ wbuf' = [wbuf EXCEPT ![s] = <<>>]
    /\ chan' = [chan EXCEPT ![Other(s)] = <<>>]

-----------------------------------------------------------------------------
(* The peers (external): they send, stop sending, reset, and read at will. *)

PeerSend(s) ==
    /\ sent[s] < flow.chunks[s] /\ ~fin[s] /\ ~reset[s]
    /\ Running(s)
    /\ Len(wire[s]) < SockCap
    /\ sent' = [sent EXCEPT ![s] = @ + 1]
    /\ wire' = [wire EXCEPT ![s] = Append(@, sent[s] + 1)]
    /\ UNCHANGED <<flow, fin, reset, out, got, eos, relay, rd, rbuf, wr, wbuf, chan, timerVars>>

PeerFin(s) ==
    /\ Running(s) /\ ~fin[s] /\ ~reset[s]
    /\ fin' = [fin EXCEPT ![s] = TRUE]
    /\ UNCHANGED <<flow, sent, reset, wire, out, got, eos, relay, rd, rbuf, wr, wbuf, chan, timerVars>>

PeerReset(s) ==
    /\ Running(s) /\ ~reset[s]
    /\ reset' = [reset EXCEPT ![s] = TRUE]
    /\ UNCHANGED <<flow, sent, fin, wire, out, got, eos, relay, rd, rbuf, wr, wbuf, chan, timerVars>>

PeerRead(s) ==
    /\ out[s] # <<>> /\ ~reset[s]
    /\ got' = [got EXCEPT ![s] = Append(@, Head(out[s]))]
    /\ out' = [out EXCEPT ![s] = Tail(@)]
    /\ UNCHANGED <<peerVars, wire, eos, relay, rd, rbuf, wr, wbuf, chan, timerVars>>

-----------------------------------------------------------------------------
(* The outbound dials, or drops the link: blackhole, unknown tag, invalid  *)
(* target, or a failed dial.                                               *)

DialOk ==
    /\ relay["out"] = "dial"
    /\ relay' = [relay EXCEPT !["out"] = "run"]
    /\ UNCHANGED <<peerVars, wire, out, got, eos, rd, rbuf, wr, wbuf, chan, timerVars>>

DropLink ==
    /\ relay["out"] = "dial"
    /\ \E how \in {"ok", "err"} : End("out", how)
    /\ UNCHANGED <<peerVars, out, got, eos, rd, wr, timerVars>>

-----------------------------------------------------------------------------
(* rd: connection -> link.                                                 *)

\* A stream side polls the idle token first in every select.
MayRead(s) == flow.mode[s] = "stream" => ~cancelled[s]

ReadChunk(s) ==
    /\ Running(s) /\ rd[s] = "read" /\ MayRead(s)
    /\ ~reset[s] /\ wire[s] # <<>>
    /\ rbuf' = [rbuf EXCEPT ![s] = <<Head(wire[s])>>]
    /\ wire' = [wire EXCEPT ![s] = Tail(@)]
    /\ rd' = [rd EXCEPT ![s] = "send"]
    /\ Update(s)
    /\ UNCHANGED <<peerVars, out, got, eos, relay, wr, wbuf, chan, timer, cancelled>>

\* The rd loop returns Ok: a stream relay ends when its other loop has ended
\* too (try_join!), a framed relay at once (select!).
RdReturns(s) ==
    IF flow.mode[s] = "framed" \/ wr[s] = "done"
    THEN End(s, "ok") /\ rd' = [rd EXCEPT ![s] = "done"]
    ELSE /\ rd' = [rd EXCEPT ![s] = "done"]
         /\ rbuf' = [rbuf EXCEPT ![s] = <<>>]
         /\ UNCHANGED <<relay, wire, wbuf, chan>>

ReadEof(s) ==
    /\ Running(s) /\ rd[s] = "read" /\ MayRead(s)
    /\ ~reset[s] /\ wire[s] = <<>> /\ fin[s]
    /\ RdReturns(s)
    /\ UNCHANGED <<peerVars, out, got, eos, wr, timerVars>>

ReadError(s) ==
    /\ Running(s) /\ rd[s] = "read" /\ MayRead(s) /\ reset[s]
    /\ End(s, "err")
    /\ UNCHANGED <<peerVars, out, got, eos, rd, wr, timerVars>>

\* tx.send: waits for room; the relay does not look at the token here.
SendChunk(s) ==
    /\ Running(s) /\ rd[s] \in {"lead", "send"}
    /\ HasReceiver(s) /\ Len(chan[s]) < Capacity
    /\ chan' = [chan EXCEPT ![s] = @ \o rbuf[s]]
    /\ rbuf' = [rbuf EXCEPT ![s] = <<>>]
    /\ rd' = [rd EXCEPT ![s] = "read"]
    /\ UNCHANGED <<peerVars, wire, out, got, eos, relay, wr, wbuf, timerVars>>

\* The receiver is gone: the loop returns Ok and the chunk is dropped.
SendClosed(s) ==
    /\ Running(s) /\ rd[s] \in {"lead", "send"} /\ ~HasReceiver(s)
    /\ RdReturns(s)
    /\ UNCHANGED <<peerVars, out, got, eos, wr, timerVars>>

-----------------------------------------------------------------------------
(* wr: link -> connection.  In relay_stream it starts after the leftover.  *)

Receiving(s) == Running(s) /\ wr[s] = "recv" /\ rd[s] # "lead" /\ MayRead(s)

RecvChunk(s) ==
    /\ Receiving(s) /\ chan[Other(s)] # <<>>
    /\ wbuf' = [wbuf EXCEPT ![s] = <<Head(chan[Other(s)])>>]
    /\ chan' = [chan EXCEPT ![Other(s)] = Tail(@)]
    /\ wr' = [wr EXCEPT ![s] = "write"]
    /\ Update(s)
    /\ UNCHANGED <<peerVars, wire, out, got, eos, relay, rd, rbuf, timer, cancelled>>

\* Mutant: the end of the link is acted on before its queue is drained.
RecvEofUndrained(s) ==
    /\ Receiving(s) /\ ~HasSender(Other(s))
    /\ wr' = [wr EXCEPT ![s] = "done"]
    /\ UNCHANGED <<peerVars, relay, wire, rbuf, wbuf, chan, eos, out, got, rd, timerVars>>

\* recv yields None: a stream side flushes; a framed side writes its end
\* marker (enc.finish, w.shutdown) and ends the relay.
RecvEof(s) ==
    /\ Receiving(s) /\ chan[Other(s)] = <<>> /\ ~HasSender(Other(s))
    /\ wr' = [wr EXCEPT ![s] = "done"]
    /\ IF flow.mode[s] = "framed"
       THEN End(s, "ok") /\ eos' = [eos EXCEPT ![s] = TRUE]
       ELSE /\ IF rd[s] = "done" THEN End(s, "ok")
               ELSE UNCHANGED <<relay, wire, rbuf, wbuf, chan>>
            /\ UNCHANGED eos
    /\ UNCHANGED <<peerVars, out, got, rd, timerVars>>

\* write_all: waits for the peer to take the bytes, not for the token.
WriteChunk(s) ==
    /\ Running(s) /\ wr[s] = "write" /\ ~reset[s]
    /\ Len(out[s]) < SockCap
    /\ out' = [out EXCEPT ![s] = @ \o wbuf[s]]
    /\ wbuf' = [wbuf EXCEPT ![s] = <<>>]
    /\ wr' = [wr EXCEPT ![s] = "recv"]
    /\ UNCHANGED <<peerVars, wire, got, eos, relay, rd, rbuf, chan, timerVars>>

WriteError(s) ==
    /\ Running(s) /\ wr[s] = "write" /\ reset[s]
    /\ End(s, "err")
    /\ UNCHANGED <<peerVars, out, got, eos, rd, wr, timerVars>>

-----------------------------------------------------------------------------
(* The idle timer.                                                         *)

\* The idle period passes without an update.
Elapse(s) ==
    /\ Running(s) /\ timer[s] = "sleep" /\ ~quiet[s]
    /\ quiet' = [quiet EXCEPT ![s] = TRUE]
    /\ UNCHANGED <<peerVars, wire, out, got, eos, relay, rd, rbuf, wr, wbuf, chan, timer, cancelled>>

\* The timer task wakes and finds the deadline passed ...
TimerCheck(s) ==
    /\ Running(s) /\ timer[s] = "sleep" /\ quiet[s]
    /\ timer' = [timer EXCEPT ![s] = "fire"]
    /\ UNCHANGED <<peerVars, wire, out, got, eos, relay, rd, rbuf, wr, wbuf, chan, quiet, cancelled>>

\* Mutant: the timer task ends without cancelling the token.
TimerForgets(s) ==
    /\ timer[s] = "fire"
    /\ timer' = [timer EXCEPT ![s] = "off"]
    /\ UNCHANGED <<peerVars, wire, out, got, eos, relay, rd, rbuf, wr, wbuf, chan, quiet, cancelled>>

\* ... and, having released the deadline lock, cancels the token.
TimerCancel(s) ==
    /\ timer[s] = "fire"
    /\ timer' = [timer EXCEPT ![s] = "off"]
    /\ cancelled' = [cancelled EXCEPT ![s] = TRUE]
    /\ UNCHANGED <<peerVars, wire, out, got, eos, relay, rd, rbuf, wr, wbuf, chan, quiet>>

\* Mutant: only the wait on the link watches the token.
SeeIdleReceiving(s) ==
    /\ Running(s) /\ cancelled[s] /\ wr[s] = "recv" /\ rd[s] # "lead"
    /\ End(s, "err")
    /\ UNCHANGED <<peerVars, out, got, eos, rd, wr, timerVars>>

\* The token is seen: by a stream side where it waits to read or to receive,
\* by a framed side anywhere (the outer select! races the token).
SeeIdle(s) ==
    /\ Running(s) /\ cancelled[s]
    /\ flow.mode[s] = "framed" \/ rd[s] = "read" \/ (wr[s] = "recv" /\ rd[s] # "lead")
    /\ End(s, "err")
    /\ UNCHANGED <<peerVars, out, got, eos, rd, wr, timerVars>>

-----------------------------------------------------------------------------
ReadLoop(s) == ReadChunk(s) \/ ReadEof(s) \/ ReadError(s) \/ SendChunk(s) \/ SendClosed(s)
WriteLoop(s) == RecvChunk(s) \/ RecvEof(s) \/ WriteChunk(s) \/ WriteError(s)
Peer(s) == PeerSend(s) \/ PeerFin(s) \/ PeerReset(s) \/ PeerRead(s)
TimerTask(s) == Elapse(s) \/ TimerCheck(s) \/ TimerCancel(s)

Next ==
    \/ DialOk \/ DropLink
    \/ \E s \in Sides : Peer(s) \/ ReadLoop(s) \/ WriteLoop(s) \/ TimerTask(s) \/ SeeIdle(s)

Spec == Init /\ [][Next]_vars

\* Tasks run, time passes, a dial ends.  What the peers do is not assumed.
ProxyFairness ==
    /\ WF_vars(DialOk \/ DropLink)
    /\ \A s \in Sides : /\ WF_vars(ReadLoop(s)) /\ WF_vars(WriteLoop(s))
                        /\ WF_vars(TimerTask(s)) /\ WF_vars(SeeIdle(s))

FairSpec == Spec /\ ProxyFairness

-----------------------------------------------------------------------------
(* Properties.                                                             *)

\* The types of the sockets, loops, link and timers of both sides.
TypeOK ==
    /\ flow \in Flows
    /\ \A s \in Sides :
          /\ sent[s] \in 0..flow.chunks[s]
          /\ wire[s] \in Seq(1..flow.chunks[s]) /\ Len(wire[s]) <= SockCap
          /\ out[s] \in Seq(1..flow.chunks[Other(s)]) /\ Len(out[s]) <= SockCap
          /\ got[s] \in Seq(1..flow.chunks[Other(s)])
          /\ chan[s] \in Seq(1..flow.chunks[s]) /\ Len(chan[s]) <= Capacity
          /\ rbuf[s] \in Seq(1..flow.chunks[s]) /\ wbuf[s] \in Seq(1..flow.chunks[Other(s)])
          /\ (rbuf[s] # <<>>) = (Running(s) /\ rd[s] \in {"lead", "send"})
          /\ (wbuf[s] # <<>>) = (Running(s) /\ wr[s] = "write")
    /\ fin \in [Sides -> BOOLEAN] /\ reset \in [Sides -> BOOLEAN] /\ eos \in [Sides -> BOOLEAN]
    /\ relay \in [Sides -> {"dial", "run", "ok", "err"}]
    /\ rd \in [Sides -> {"lead", "read", "send", "done"}]
    /\ wr \in [Sides -> {"recv", "write", "done"}]
    /\ quiet \in [Sides -> BOOLEAN] /\ cancelled \in [Sides -> BOOLEAN]
    /\ timer \in [Sides -> {"sleep", "fire", "off"}]

\* What the peer of s has been given.
Delivered(s) == got[s] \o out[s]

\* How the direction towards the peer of s stands: complete when wr has seen
\* the link's end and the other rd loop ended it by itself, cut when wr saw it
\* because the other relay was gone, or the relay of s is gone.
Status(s) == IF wr[s] = "done" /\ rd[Other(s)] = "done" THEN "complete"
             ELSE IF wr[s] = "done" \/ relay[s] \in {"ok", "err"} THEN "cut" ELSE "open"

P == INSTANCE Pipe WITH recvd <- [s \in Sides |-> Delivered(s)],
                        status <- [s \in Sides |-> Status(s)]

\* The two relays and the link between them implement the Pipe: bytes are
\* never lost, duplicated or reordered, even when a relay is aborted in the
\* middle; a full link blocks and loses nothing; the end of a direction does
\* not overtake its last chunk, and comes by itself only after a peer closed
\* and everything it sent was written out, whichever of try_join! and select!
\* joins the loops.
ImplementsPipe == P!Spec

\* Both loops of a stream side are held up where they do not look at the idle
\* token: in tx.send towards a full link, in write_all towards a full socket.
HeldUp(s) ==
    /\ flow.mode[s] = "stream" /\ Running(s)
    /\ rd[s] \in {"lead", "send", "done"}
    /\ wr[s] \in {"write", "done"} \/ rd[s] = "lead"

\* An idle connection is torn down: once the idle token of a side has been
\* cancelled its relay ends -- always for a framed side, and for a stream side
\* unless both of its loops stay held up by peers that do not read.  (A token
\* stays cancelled and an ended relay ended.)
IdleEndsRelay ==
    <>[](\A s \in Sides : cancelled[s] => ~Running(s) \/ HeldUp(s))

\* Neither half of a flow outlives the other for ever: once a relay has
\* ended, the relay at the other end of the link ends too (its peer goes away,
\* or its idle timer ends it), with the same exception.
NoOrphanRelay ==
    <>[](\A s \in Sides : relay[s] \in {"ok", "err"} =>
            relay[Other(s)] \in {"ok", "err"} \/ HeldUp(Other(s)))
=============================================================================
