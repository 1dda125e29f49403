-------------------------------- MODULE Mux ---------------------------------
(***************************************************************************)
(* The mux.cool demuxer (proxy::mux): one carrier stream fans out to       *)
(* sub-sessions.  The demux task reads the client's frames and feeds one   *)
(* bounded link per sub-session; per sub-session an egress task moves      *)
(* chunks between that link and the target and a relay task turns what     *)
(* comes back into frames; a single writer task writes the frames to the   *)
(* client from a bounded queue.  All sub-sessions share one idle timer.    *)
(*                                                                         *)
(* VLESS hands the demuxer its connection.  VMess puts a bridge between     *)
(* them (vmess::body::serve_mux): a task that opens the client's chunks    *)
(* into a duplex pipe and seals what comes out of it, the demuxer working  *)
(* on the pipe's other end.  The demuxer sees the end of the pipe only     *)
(* when both directions of the bridge have ended.                          *)
(*                                                                         *)
(* A sub-session is numbered by the client's New frames; the server only   *)
(* sees its sid.  Chunks are numbered per sub-session and direction.  A     *)
(* client's Keep frame for a UDP sub-session carries its target.            *)
(***************************************************************************)
EXTENDS Naturals, Sequences

CONSTANTS
    Sids,      \* session ids the client uses
    MaxSubs,   \* bound on New frames
    MaxWire,   \* bound on client frames in flight
    Loads,     \* the workloads considered, [sids, up, down, nets, controls, reuse,
               \* bridged]: the sids in use, bounds on the chunks per sub-session
               \* in each direction, the networks asked for, the client's other
               \* frames, whether it reuses the sid of a live sub-session, and
               \* whether the carrier is VMess's
    LinkCap,   \* LINK_CAPACITY
    OutCap,    \* capacity of the frame queue (64)
    DuplexCap, \* frames the duplex pipe holds (65536 bytes)
    None

Subs == 1..MaxSubs

ASSUME MuxConstants ==
    /\ MaxSubs \in Nat /\ MaxWire \in Nat
    /\ LinkCap \in Nat \ {0} /\ OutCap \in Nat \ {0} /\ DuplexCap \in Nat \ {0} /\ None \notin Sids
    /\ \A w \in Loads :
          /\ w.sids \subseteq Sids
          /\ \E n \in 1..MaxSubs : w.up \in [1..n -> Nat] /\ w.down \in [1..n -> Nat]
          /\ w.nets \subseteq {"tcp", "udp"} /\ w.reuse \in BOOLEAN /\ w.bridged \in BOOLEAN
          /\ w.controls \subseteq {"end", "keepalive", "bare", "bad"} \union (IF w.bridged THEN {"terminal"} ELSE {})

VARIABLES
    load,     \* the workload under way; never changes
    carrier,  \* "open" or "closed" by the client
    wire,     \* client frames not yet read by demux, those in the duplex included
    cur,      \* client: sid -> its latest sub-session (0: never used)
    sent,     \* client: chunks sent per sub-session
    cgot,     \* client: what arrived per sub-session, in order
    demux,    \* "read", "send" (blocked on a link) or "done"
    held,     \* the chunk demux is sending: [k, c]
    sessions, \* server: sid -> sub-session whose link sender it holds
    net, sidOf, \* client: network and sid asked for per sub-session
    eg,       \* egress task of a sub-session: "none", "dial", "run" or "gone"
    upq, upDone, downq, downDone,
    tsent, tclosed, tgot,  \* targets: chunks sent, write side closed, chunks received
    rl, out,  \* relay task: state, frame in hand
    outq,     \* frames queued to the writer
    writer,   \* "recv", "write" or "done"
    wframe,   \* the frame in the writer's hands
    duplex,   \* frames the writer put into the duplex
    dirs,     \* directions of the bridge still running
    fired     \* the shared idle timer has cancelled its token

client == <<load, carrier, wire, cur, sent, net, sidOf>>
egress == <<eg, upDone, downDone>>
targets == <<tsent, tclosed, tgot>>
writing == <<writer, wframe, duplex, dirs, cgot>>
vars == <<client, demux, held, sessions, egress, upq, downq, targets, rl, out, outq, writing, fired>>

Init ==
    /\ load \in Loads
    /\ carrier = "open" /\ wire = <<>> /\ cur = [s \in Sids |-> 0]
    /\ sent = [k \in Subs |-> 0] /\ cgot = [k \in Subs |-> <<>>]
    /\ demux = "read" /\ held = None /\ sessions = [s \in Sids |-> 0]
    /\ net = [k \in Subs |-> None] /\ sidOf = [k \in Subs |-> None]
    /\ eg = [k \in Subs |-> "none"]
    /\ upq = [k \in Subs |-> <<>>] /\ upDone = [k \in Subs |-> FALSE]
    /\ downq = [k \in Subs |-> <<>>] /\ downDone = [k \in Subs |-> FALSE]
    /\ tsent = [k \in Subs |-> 0] /\ tclosed = [k \in Subs |-> FALSE]
    /\ tgot = [k \in Subs |-> <<>>]
    /\ rl = [k \in Subs |-> "none"] /\ out = [k \in Subs |-> None]
    /\ outq = <<>> /\ writer = "recv" /\ wframe = None
    /\ duplex = <<>> /\ dirs = IF load.bridged THEN {"up", "down"} ELSE {}
    /\ fired = FALSE

End == 0   \* stands for the End frame among chunk numbers
Frame(st, sid, k, c) == [st |-> st, sid |-> sid, k |-> k, c |-> c]
Ended(k) == cgot[k] # <<>> /\ cgot[k][Len(cgot[k])] = End

-----------------------------------------------------------------------------
(* The client (external).  It reuses a sid after the server's End, or over *)
(* the sub-session that has it.                                            *)

Emit(f) == /\ carrier = "open" /\ Len(wire) < MaxWire /\ wire' = Append(wire, f)
           /\ UNCHANGED <<load, carrier, demux, held, sessions, egress, upq, downq, targets, rl, out, outq, writing, fired>>

ClientNew(k, s, n, c) ==
    /\ sidOf[k] = None /\ \A j \in 1..(k - 1) : sidOf[j] # None
    /\ cur[s] # 0 => load.reuse \/ Ended(cur[s])
    /\ cur' = [cur EXCEPT ![s] = k]
    /\ net' = [net EXCEPT ![k] = n] /\ sidOf' = [sidOf EXCEPT ![k] = s]
    /\ sent' = [sent EXCEPT ![k] = IF c = None THEN 0 ELSE c]
    /\ Emit(Frame("new", s, k, c))

ClientKeep(s) ==
    /\ cur[s] # 0 /\ sent[cur[s]] < load.up[cur[s]]
    /\ sent' = [sent EXCEPT ![cur[s]] = @ + 1]
    /\ Emit(Frame("keep", s, cur[s], sent[cur[s]] + 1))
    /\ UNCHANGED <<cur, net, sidOf>>

ClientOther(st, s) ==
    /\ cur[s] # 0
    /\ Emit(Frame(st, s, cur[s], None))
    /\ UNCHANGED <<cur, sent, net, sidOf>>

ClientClose ==
    /\ carrier = "open" /\ carrier' = "closed"
    /\ UNCHANGED <<load, wire, cur, sent, net, sidOf, demux, held, sessions, egress, upq, downq, targets, rl, out, outq, writing, fired>>

-----------------------------------------------------------------------------
(* The demux task.                                                         *)

EgressAlive(k) == eg[k] \in {"dial", "run"} /\ ~upDone[k]

Read(st) ==
    /\ demux = "read" /\ wire # <<>> /\ Head(wire).st = st
    /\ wire' = Tail(wire)
    /\ UNCHANGED <<load, carrier, cur, sent, net, sidOf, targets, outq, writing, upDone, downDone, fired>>

\* handle_new: fresh link, egress and relay tasks, first chunk queued; a
\* session of the same sid is replaced, which closes its link.
HandleNew ==
    /\ Read("new")
    /\ LET f == Head(wire) IN
         /\ eg' = [eg EXCEPT ![f.k] = "dial"]
         /\ rl' = [rl EXCEPT ![f.k] = "recv"]
         /\ upq' = [upq EXCEPT ![f.k] = IF f.c = None THEN <<>> ELSE <<f.c>>]
         /\ sessions' = [sessions EXCEPT ![f.sid] = f.k]
    /\ UNCHANGED <<demux, held, downq, out>>

\* Mutant: a full link drops the chunk (try_send).
KeepTrySend ==
    /\ Read("keep")
    /\ LET f == Head(wire)  k == sessions[f.sid] IN
         upq' = IF k # 0 /\ EgressAlive(k) /\ Len(upq[k]) < LinkCap
                THEN [upq EXCEPT ![k] = Append(@, f.c)] ELSE upq
    /\ UNCHANGED <<demux, held, sessions, eg, downq, rl, out>>

\* handle_keep: no session, or one whose egress has gone: the chunk is lost;
\* otherwise demux awaits room in the link.
HandleKeep ==
    /\ Read("keep")
    /\ LET f == Head(wire)  k == sessions[f.sid] IN
         IF k # 0 /\ EgressAlive(k)
         THEN demux' = "send" /\ held' = [k |-> k, c |-> f.c]
         ELSE UNCHANGED <<demux, held>>
    /\ UNCHANGED <<sessions, eg, upq, downq, rl, out>>

\* The awaited send completes: there is room, or the receiver has gone.
LinkSend ==
    /\ demux = "send" /\ (Len(upq[held.k]) < LinkCap \/ ~EgressAlive(held.k))
    /\ upq' = IF EgressAlive(held.k) THEN [upq EXCEPT ![held.k] = Append(@, held.c)] ELSE upq
    /\ demux' = "read" /\ held' = None
    /\ UNCHANGED <<client, sessions, egress, downq, targets, rl, out, outq, writing, fired>>

HandleEnd ==
    /\ Read("end")
    /\ sessions' = [sessions EXCEPT ![Head(wire).sid] = 0]
    /\ UNCHANGED <<demux, held, eg, upq, downq, rl, out>>

KeepAlive ==
    /\ Read("keepalive")
    /\ UNCHANGED <<demux, held, sessions, eg, upq, downq, rl, out>>

\* A Keep frame without data, or without a target for a UDP sub-session, is
\* dropped.
KeepBare ==
    /\ Read("bare")
    /\ UNCHANGED <<demux, held, sessions, eg, upq, downq, rl, out>>

\* The bridge writes nothing more: its uplink saw the end of the connection or
\* the client's terminal chunk, behind which nothing is read.
UplinkOver == carrier = "closed" \/ \E i \in DOMAIN wire : wire[i].st = "terminal"

\* demux reads end of stream: of the connection, or of the duplex, whose other
\* end is dropped with the last direction of the bridge.
CarrierEof ==
    IF load.bridged THEN dirs = {} /\ (wire # <<>> => Head(wire).st = "terminal")
    ELSE carrier = "closed" /\ wire = <<>>

\* Mutant: end of stream is read as an empty frame, again and again.
DemuxReturnsBare ==
    /\ demux = "read" /\ CarrierEof
    /\ demux' = "read"
    /\ UNCHANGED <<client, held, sessions, egress, upq, downq, targets, rl, out, outq, writing, fired>>

\* demux returns on end of stream; serve cancels the token and drops the
\* frame sender and the sessions, then awaits the writer.
DemuxReturns ==
    /\ demux = "read" /\ CarrierEof
    /\ demux' = "done" /\ sessions' = [s \in Sids |-> 0]
    /\ UNCHANGED <<client, held, net, egress, upq, downq, targets, rl, out, outq, writing, fired>>

\* An unknown status is an error of the whole carrier.
DemuxFails ==
    /\ Read("bad")
    /\ demux' = "done" /\ sessions' = [s \in Sids |-> 0]
    /\ UNCHANGED <<held, eg, upq, downq, rl, out>>

-----------------------------------------------------------------------------
(* The egress task of a sub-session: splice for TCP, freedom_udp for UDP.  *)

UpOpen(k) == \E s \in Sids : sessions[s] = k
EgFrame == UNCHANGED <<client, demux, held, sessions, rl, out, outq, writing>>

Dial(k) ==
    /\ eg[k] = "dial" /\ eg' = [eg EXCEPT ![k] = "run"]
    /\ EgFrame /\ UNCHANGED <<upq, upDone, downq, downDone, targets, fired>>

\* The task returns: both link halves are dropped.
Gone(k) == eg' = [eg EXCEPT ![k] = "gone"] /\ EgFrame /\ UNCHANGED <<upq, upDone, downq, downDone, targets, fired>>

\* Dial error, socket error.
EgressFails(k) == eg[k] \in {"dial", "run"} /\ Gone(k)

\* The idle token: both copy directions and freedom_udp watch it.
EgressIdles(k) == eg[k] = "run" /\ fired /\ Gone(k)

\* Both TCP directions done; for UDP either one ends the task.
EgressEnds(k) ==
    /\ eg[k] = "run" /\ (IF net[k] = "udp" THEN upDone[k] \/ downDone[k] ELSE upDone[k] /\ downDone[k])
    /\ Gone(k)

EgressUp(k) ==
    /\ eg[k] = "run" /\ ~fired /\ upq[k] # <<>>
    /\ tgot' = [tgot EXCEPT ![k] = Append(@, Head(upq[k]))]
    /\ upq' = [upq EXCEPT ![k] = Tail(@)]
    /\ EgFrame /\ UNCHANGED <<eg, upDone, downq, downDone, tsent, tclosed, fired>>

EgressUpEof(k) ==
    /\ eg[k] = "run" /\ ~upDone[k] /\ upq[k] = <<>> /\ ~UpOpen(k)
    /\ upDone' = [upDone EXCEPT ![k] = TRUE]
    /\ EgFrame /\ UNCHANGED <<eg, upq, downq, downDone, targets, fired>>

\* A chunk from the target, read when the link has room for it.
EgressDown(k) ==
    /\ eg[k] = "run" /\ ~downDone[k] /\ ~fired /\ ~tclosed[k]
    /\ tsent[k] < load.down[k] /\ Len(downq[k]) < LinkCap
    /\ tsent' = [tsent EXCEPT ![k] = @ + 1]
    /\ IF rl[k] # "done"
       THEN downq' = [downq EXCEPT ![k] = Append(@, tsent[k] + 1)] /\ UNCHANGED downDone
       ELSE downDone' = [downDone EXCEPT ![k] = TRUE] /\ UNCHANGED downq
    /\ EgFrame /\ UNCHANGED <<eg, upq, upDone, tclosed, tgot, fired>>

\* The target closes its side (TCP): end of stream on the link.
EgressDownEof(k) ==
    /\ eg[k] = "run" /\ net[k] = "tcp" /\ ~downDone[k] /\ ~fired
    /\ tclosed' = [tclosed EXCEPT ![k] = TRUE]
    /\ downDone' = [downDone EXCEPT ![k] = TRUE]
    /\ EgFrame /\ UNCHANGED <<eg, upq, upDone, downq, tsent, tgot, fired>>

-----------------------------------------------------------------------------
(* The relay task of a sub-session, and the writer.                        *)

RelayFrame == UNCHANGED <<client, demux, held, sessions, egress, upq, targets, writing, fired>>

RelayRecv(k) ==
    /\ rl[k] = "recv" /\ downq[k] # <<>>
    /\ out' = [out EXCEPT ![k] = Head(downq[k])]
    /\ downq' = [downq EXCEPT ![k] = Tail(@)]
    /\ rl' = [rl EXCEPT ![k] = "send"]
    /\ RelayFrame /\ UNCHANGED outq

\* Mutant: the relay returns without an End frame.
RelayEofSilent(k) ==
    /\ rl[k] = "recv" /\ downq[k] = <<>> /\ (downDone[k] \/ eg[k] = "gone")
    /\ rl' = [rl EXCEPT ![k] = "done"]
    /\ RelayFrame /\ UNCHANGED <<downq, out, outq>>

\* recv returns None: the egress dropped its sender and the link is drained.
RelayEof(k) ==
    /\ rl[k] = "recv" /\ downq[k] = <<>> /\ (downDone[k] \/ eg[k] = "gone")
    /\ rl' = [rl EXCEPT ![k] = "end"]
    /\ RelayFrame /\ UNCHANGED <<downq, out, outq>>

\* serve has cancelled the token.
RelayCancelled(k) ==
    /\ rl[k] = "recv" /\ demux = "done"
    /\ rl' = [rl EXCEPT ![k] = "end"]
    /\ RelayFrame /\ UNCHANGED <<downq, out, outq>>

Queue(k, item) == outq' = Append(outq, [k |-> k, c |-> item])

RelaySend(k) ==
    /\ rl[k] = "send" /\ writer # "done" /\ Len(outq) < OutCap
    /\ Queue(k, out[k])
    /\ rl' = [rl EXCEPT ![k] = "recv"] /\ out' = [out EXCEPT ![k] = None]
    /\ RelayFrame /\ UNCHANGED downq

\* The relay's last frame.
RelaySendEnd(k) ==
    /\ rl[k] = "end" /\ writer # "done" /\ Len(outq) < OutCap
    /\ Queue(k, End)
    /\ rl' = [rl EXCEPT ![k] = "done"]
    /\ RelayFrame /\ UNCHANGED <<downq, out>>

\* The writer has gone: sends fail, the task ends.
RelaySendFails(k) ==
    /\ rl[k] \in {"send", "end"} /\ writer = "done"
    /\ rl' = [rl EXCEPT ![k] = "done"] /\ out' = [out EXCEPT ![k] = None]
    /\ RelayFrame /\ UNCHANGED <<downq, outq>>

WriterFrame == UNCHANGED <<client, demux, held, sessions, egress, upq, downq, targets, rl, out, fired>>

WriterRecv ==
    /\ writer = "recv" /\ outq # <<>>
    /\ wframe' = Head(outq) /\ outq' = Tail(outq) /\ writer' = "write"
    /\ WriterFrame /\ UNCHANGED <<duplex, dirs, cgot>>

\* The client files a frame under the sid it carries.
Deliver(f) == cgot' = [cgot EXCEPT ![f.k] = Append(@, f.c)]

\* The frame reaches the client, or the duplex.
WriterWrite ==
    /\ writer = "write"
    /\ \/ ~load.bridged /\ carrier = "open" /\ Deliver(wframe) /\ UNCHANGED duplex
       \/ load.bridged /\ dirs # {} /\ Len(duplex) < DuplexCap
          /\ duplex' = Append(duplex, wframe) /\ UNCHANGED cgot
    /\ writer' = "recv" /\ wframe' = None
    /\ WriterFrame /\ UNCHANGED <<outq, dirs>>

WriterFails ==
    /\ writer = "write" /\ (IF load.bridged THEN dirs = {} ELSE carrier = "closed")
    /\ writer' = "done" /\ wframe' = None /\ outq' = <<>>
    /\ WriterFrame /\ UNCHANGED <<duplex, dirs, cgot>>

\* recv returns None: every frame sender has been dropped.
WriterEnds ==
    /\ writer = "recv" /\ outq = <<>> /\ demux = "done"
    /\ \A k \in Subs : rl[k] \in {"none", "done"}
    /\ writer' = "done"
    /\ WriterFrame /\ UNCHANGED <<wframe, outq, duplex, dirs, cgot>>

-----------------------------------------------------------------------------
(* The bridge of a VMess carrier.                                          *)
Served == demux = "done" /\ writer = "done"

BridgeFrame == UNCHANGED <<client, demux, held, sessions, egress, upq, downq, targets, rl, out, outq, writer, wframe, fired>>

\* up_dir: its half of the pipe is dropped, the pipe is not.
BridgeUpEnds ==
    /\ "up" \in dirs /\ UplinkOver
    /\ dirs' = dirs \ {"up"}
    /\ BridgeFrame /\ UNCHANGED <<duplex, cgot>>

\* down_dir: a frame is sealed and written; it ends when that fails.
BridgeDown ==
    /\ "down" \in dirs /\ duplex # <<>>
    /\ duplex' = Tail(duplex)
    /\ \/ carrier = "open" /\ Deliver(Head(duplex)) /\ UNCHANGED dirs
       \/ carrier = "closed" /\ dirs' = dirs \ {"down"} /\ UNCHANGED cgot
    /\ BridgeFrame

\* serve has returned: the bridge is aborted, with what the duplex still holds.
BridgeAborts ==
    /\ Served /\ dirs # {}
    /\ dirs' = {} /\ duplex' = <<>>
    /\ BridgeFrame /\ UNCHANGED cgot

\* An idle interval passes: every frame and chunk restarts it (timer.update),
\* and a pause before any step may be long enough.
IdleFires ==
    /\ ~fired /\ fired' = TRUE
    /\ UNCHANGED <<client, demux, held, sessions, egress, upq, downq, targets, rl, out, outq, writing>>

-----------------------------------------------------------------------------
ClientStep ==
    \/ \E k \in DOMAIN load.up, s \in load.sids, n \in load.nets :
          \E c \in {None} \union {i \in {1} : load.up[k] > 0} : ClientNew(k, s, n, c)
    \/ \E s \in Sids : ClientKeep(s)
    \/ \E s \in Sids, st \in load.controls : ClientOther(st, s)
    \/ ClientClose
DemuxStep == \/ HandleNew \/ HandleKeep \/ LinkSend \/ HandleEnd \/ KeepAlive \/ KeepBare
             \/ DemuxReturns \/ DemuxFails
EgressStep(k) == \/ Dial(k) \/ EgressIdles(k) \/ EgressEnds(k) \/ EgressUp(k) \/ EgressUpEof(k)
TargetStep(k) == EgressFails(k) \/ EgressDown(k) \/ EgressDownEof(k)
RelayStep(k) == \/ RelayRecv(k) \/ RelayEof(k) \/ RelayCancelled(k) \/ RelaySend(k)
                \/ RelaySendEnd(k) \/ RelaySendFails(k)
WriterStep == WriterRecv \/ WriterWrite \/ WriterFails \/ WriterEnds
BridgeStep == BridgeUpEnds \/ BridgeDown \/ BridgeAborts

Next ==
    \/ ClientStep \/ DemuxStep \/ WriterStep \/ BridgeStep \/ IdleFires
    \/ \E k \in Subs : EgressStep(k) \/ TargetStep(k) \/ RelayStep(k)

Spec == Init /\ [][Next]_vars

\* The executor runs every task that can run; the client reads what is
\* written to it and the targets accept dials and data.
FairSpec ==
    /\ Spec /\ WF_vars(DemuxStep) /\ WF_vars(WriterStep) /\ WF_vars(BridgeStep)
    /\ \A k \in Subs : WF_vars(EgressStep(k)) /\ WF_vars(RelayStep(k))

-----------------------------------------------------------------------------
(* Properties.                                                             *)

\* The types; queues never exceed the capacities of their channels.
TypeOK ==
    /\ carrier \in {"open", "closed"} /\ demux \in {"read", "send", "done"}
    /\ writer \in {"recv", "write", "done"} /\ sessions \in [Sids -> 0..MaxSubs]
    /\ eg \in [Subs -> {"none", "dial", "run", "gone"}]
    /\ rl \in [Subs -> {"none", "recv", "send", "end", "done"}]
    /\ dirs \subseteq {"up", "down"} /\ Len(duplex) <= DuplexCap
    /\ Len(outq) <= OutCap /\ \A k \in Subs : Len(upq[k]) <= LinkCap /\ Len(downq[k]) <= LinkCap

UpTo(n) == [i \in 1..n |-> i]

\* A target receives the chunks of its own sub-session, all of them up to
\* some point and in order, whatever the other sub-sessions, replaced sids,
\* full links and failed egress tasks do; a New frame over a live sub-session
\* takes its sid away from it and none of its chunks.  The client hears a
\* target's chunks in order and nothing of a sub-session after its End frame,
\* so a sid reused after End never receives a frame of its predecessor; and
\* when the target closed and the carrier is still served the End frame comes
\* after everything it sent.
SubflowInOrder ==
    \A k \in Subs :
        LET n == IF Ended(k) THEN Len(cgot[k]) - 1 ELSE Len(cgot[k]) IN
        /\ tgot[k] = UpTo(Len(tgot[k])) /\ Len(tgot[k]) <= sent[k]
        /\ SubSeq(cgot[k], 1, n) = UpTo(n)
        /\ Ended(k) /\ tclosed[k] /\ demux # "done" => n = tsent[k]

\* The demuxer of a bridged carrier cannot know that the client is gone: the
\* bridge's uplink ended, its downlink waits for something to write, and
\* nothing is on its way to it.  Once the idle timer has fired every
\* sub-session has ended as well.
Unaware ==
    /\ load.bridged /\ dirs = {"down"} /\ demux = "read"
    /\ outq = <<>> /\ wframe = None /\ duplex = <<>>
    /\ fired => \A k \in Subs : rl[k] \in {"none", "done"}

\* When the client closes the carrier, serve (and serve_mux) returns: no task
\* waits on another for ever (demux on a full link, relays on the full frame
\* queue, serve on the writer, the writer on the relays or on a full duplex).
\* The one exception is a bridged carrier with no frame left to write, the only
\* thing that would show its demuxer the close.
CloseEndsServe == []<>(carrier = "closed" => (Served /\ dirs = {}) \/ Unaware)

\* An egress that has ended is announced to the client, or the carrier ends.
EndIsAnnounced == \A k \in Subs : (eg[k] = "gone") ~> (Ended(k) \/ demux = "done" \/ carrier = "closed")
=============================================================================
