------------------------------- MODULE SsUdp -------------------------------
(***************************************************************************)
(* The standalone Shadowsocks UDP service, Shadowsocks::serve_udp in       *)
(* src/proxy/src/shadowsocks.rs.  One task owns the session table and      *)
(* selects between a datagram from the socket and a source address to     *)
(* reap.  Every session is two more tasks: freedom_udp, which drives the   *)
(* outbound half of a private udp_pipe over its own socket, and the       *)
(* downlink task, which sends the replies back and reaps the session when *)
(* freedom_udp drops its half of the pipe.                                 *)
(*                                                                         *)
(* A datagram is its place in the order of arrival; that of a session is  *)
(* its place in the order of creation.  A datagram that no user's key      *)
(* opens changes nothing (udp_decode returns None) and is left out.        *)
(***************************************************************************)
EXTENDS Naturals, Sequences

CONSTANTS Sources,      \* client socket addresses
          Users,        \* users whose key opens a datagram
          LinkCap,      \* LINK_CAPACITY of the udp_pipe, each direction
          ReapCap,      \* capacity of the reap channel (64 in the code)
          MaxPkts,      \* bound: datagrams that arrive
          MaxSessions,  \* bound: sessions created
          None

ASSUME SsUdpConstants ==
    /\ LinkCap \in Nat \ {0} /\ ReapCap \in Nat \ {0}
    /\ MaxPkts \in Nat /\ MaxSessions \in Nat
    /\ None \notin Nat

VARIABLES
    arrived,   \* the datagrams decoded so far: [from, user]
    billed,    \* billed[p]: the user whose counter took datagram p
    table,     \* `sessions`: source -> session, or None
    home,      \* home[g]: [from, user] of session g, fixed when it is created
    egress,    \* egress[g]: freedom_udp of session g: "binding", "up" or "gone"
    up,        \* up[g]: datagrams in the uplink of session g's pipe
    down,      \* down[g]: how many replies are in its downlink
    reader,    \* reader[g]: its downlink task: "running", "reaping" or "done"
    reap,      \* the reap channel
    sending,   \* the send the service awaits: None or [to, pkt]
    sent       \* what left on the egress sockets: [by, pkt]

vars == <<arrived, billed, table, home, egress, up, down, reader, reap,
          sending, sent>>

Sessions == 1 .. Len(home)

Init ==
    /\ arrived = <<>> /\ billed = <<>> /\ home = <<>>
    /\ table = [s \in Sources |-> None]
    /\ egress = <<>> /\ up = <<>> /\ down = <<>> /\ reader = <<>>
    /\ reap = <<>> /\ sending = None /\ sent = <<>>

----------------------------------------------------------------------------
(* The service task. *)

\* A datagram of user u arrives from s while the service is in its select.
Arrive(s, u) ==
    /\ sending = None
    /\ Len(arrived) < MaxPkts
    /\ arrived' = Append(arrived, [from |-> s, user |-> u])

\* No session for s: spawn freedom_udp and the downlink task over a fresh pipe,
\* enter the session in the table, count the datagram, start to send it.
Open(s, u) ==
    /\ Len(home) < MaxSessions
    /\ home' = Append(home, [from |-> s, user |-> u])
    /\ egress' = Append(egress, "binding")
    /\ up' = Append(up, <<>>)
    /\ down' = Append(down, 0)
    /\ reader' = Append(reader, "running")
    /\ table' = [table EXCEPT ![s] = Len(home')]
    /\ billed' = Append(billed, u)
    /\ sending' = [to |-> Len(home'), pkt |-> Len(arrived')]
    /\ UNCHANGED <<reap, sent>>

\* A session for s: its sender and its counter are used, whoever the datagram's
\* user is.
Reuse(s) ==
    /\ billed' = Append(billed, home[table[s]].user)
    /\ sending' = [to |-> table[s], pkt |-> Len(arrived')]
    /\ UNCHANGED <<table, home, egress, up, down, reader, reap, sent>>

\* Mutant: a session whose egress is gone is replaced without waiting for its
\* reap message.
RecvReplacing(s, u) ==
    /\ Arrive(s, u)
    /\ \/ (table[s] # None => egress[table[s]] = "gone") /\ Open(s, u)
       \/ table[s] # None /\ egress[table[s]] # "gone" /\ Reuse(s)

RecvFrom(s, u) ==
    /\ Arrive(s, u)
    /\ \/ table[s] = None /\ Open(s, u)
       \/ table[s] # None /\ Reuse(s)

\* tx.send(..).await, once there is room ...
SendOk ==
    /\ sending # None
    /\ egress[sending.to] # "gone"
    /\ Len(up[sending.to]) < LinkCap
    /\ up' = [up EXCEPT ![sending.to] = Append(@, sending.pkt)]
    /\ sending' = None
    /\ UNCHANGED <<arrived, billed, table, home, egress, down, reader, reap, sent>>

\* Mutant: the error is taken for a full link and the send tried again.
SendRetries ==
    /\ sending # None
    /\ egress[sending.to] = "gone"
    /\ UNCHANGED vars

\* ... or the receiver is gone: the error is dropped, and the datagram with it.
SendFails ==
    /\ sending # None
    /\ egress[sending.to] = "gone"
    /\ sending' = None
    /\ UNCHANGED <<arrived, billed, table, home, egress, up, down, reader, reap, sent>>

\* The other branch of the select: a finished session leaves the table.
Reap ==
    /\ sending = None
    /\ reap # <<>>
    /\ table' = [table EXCEPT ![Head(reap)] = None]
    /\ reap' = Tail(reap)
    /\ UNCHANGED <<arrived, billed, home, egress, up, down, reader, sending, sent>>

----------------------------------------------------------------------------
(* freedom_udp of session g. *)

Bind(g) ==
    /\ egress[g] = "binding"
    /\ egress' = [egress EXCEPT ![g] = "up"]
    /\ UNCHANGED <<arrived, billed, table, home, up, down, reader, reap, sending, sent>>

\* It returns: bind error, idle token, resolve or socket error.  Both halves of
\* its link are dropped: the queued uplink is lost, the queued downlink is not.
EgressEnds(g) ==
    /\ egress[g] # "gone"
    /\ egress' = [egress EXCEPT ![g] = "gone"]
    /\ up' = [up EXCEPT ![g] = <<>>]
    /\ UNCHANGED <<arrived, billed, table, home, down, reader, reap, sending, sent>>

\* Mutant: the newest datagram first.
EgressSendsNewest(g) ==
    /\ egress[g] = "up"
    /\ up[g] # <<>>
    /\ sent' = Append(sent, [by |-> g, pkt |-> up[g][Len(up[g])]])
    /\ up' = [up EXCEPT ![g] = SubSeq(@, 1, Len(@) - 1)]
    /\ UNCHANGED <<arrived, billed, table, home, egress, down, reader, reap, sending>>

\* recv, resolve_first and send_to of one datagram.
EgressSends(g) ==
    /\ egress[g] = "up"
    /\ up[g] # <<>>
    /\ sent' = Append(sent, [by |-> g, pkt |-> Head(up[g])])
    /\ up' = [up EXCEPT ![g] = Tail(@)]
    /\ UNCHANGED <<arrived, billed, table, home, egress, down, reader, reap, sending>>

\* recv_from and writer.send of one reply.
EgressReceives(g) ==
    /\ egress[g] = "up"
    /\ down[g] < LinkCap
    /\ down' = [down EXCEPT ![g] = @ + 1]
    /\ UNCHANGED <<arrived, billed, table, home, egress, up, reader, reap, sending, sent>>

----------------------------------------------------------------------------
(* The downlink task of session g. *)

DownRecv(g) ==
    /\ reader[g] = "running"
    /\ down[g] > 0
    /\ down' = [down EXCEPT ![g] = @ - 1]
    /\ UNCHANGED <<arrived, billed, table, home, egress, up, reader, reap, sending, sent>>

\* reader.recv() is None: the writer is gone and the queue is drained.
DownEof(g) ==
    /\ reader[g] = "running"
    /\ egress[g] = "gone" /\ down[g] = 0
    /\ reader' = [reader EXCEPT ![g] = "reaping"]
    /\ UNCHANGED <<arrived, billed, table, home, egress, up, down, reap, sending, sent>>

\* Mutant: try_send, so that a full channel loses the message.
ReapTrySend(g) ==
    /\ reader[g] = "reaping"
    /\ reap' = IF Len(reap) < ReapCap THEN Append(reap, home[g].from) ELSE reap
    /\ reader' = [reader EXCEPT ![g] = "done"]
    /\ UNCHANGED <<arrived, billed, table, home, egress, up, down, sending, sent>>

\* reap.send(from).await: waits for room in the channel.
ReapSend(g) ==
    /\ reader[g] = "reaping"
    /\ Len(reap) < ReapCap
    /\ reap' = Append(reap, home[g].from)
    /\ reader' = [reader EXCEPT ![g] = "done"]
    /\ UNCHANGED <<arrived, billed, table, home, egress, up, down, sending, sent>>

----------------------------------------------------------------------------
Egress(g) ==
    \/ Bind(g)
    \/ EgressEnds(g)
    \/ EgressSends(g)
    \/ EgressReceives(g)

Downlink(g) ==
    \/ DownRecv(g)
    \/ DownEof(g)
    \/ ReapSend(g)

Next ==
    \/ \E s \in Sources, u \in Users : RecvFrom(s, u)
    \/ SendOk
    \/ SendFails
    \/ Reap
    \/ \E g \in Sessions : Egress(g) \/ Downlink(g)

Spec == Init /\ [][Next]_vars

(* Each task is polled again when it can progress; binding, a lookup and    *)
(* send_to return.  No datagram has to arrive, no reply has to come and no *)
(* session has to idle out.                                                *)
FairSpec ==
    /\ Spec
    /\ WF_vars(SendOk \/ SendFails) /\ WF_vars(Reap)
    /\ \A g \in 1 .. MaxSessions :
        /\ WF_vars(g \in Sessions /\ (Bind(g) \/ EgressSends(g)))
        /\ WF_vars(g \in Sessions /\ DownRecv(g))
        /\ WF_vars(g \in Sessions /\ (DownEof(g) \/ ReapSend(g)))

----------------------------------------------------------------------------
(* Properties *)

\* The sessions, the pipes and the channels have their types and stay within
\* their capacities.
TypeOK ==
    /\ arrived \in Seq([from : Sources, user : Users]) /\ Len(arrived) <= MaxPkts
    /\ billed \in Seq(Users) /\ Len(billed) = Len(arrived)
    /\ home \in Seq([from : Sources, user : Users]) /\ Len(home) <= MaxSessions
    /\ table \in [Sources -> Sessions \cup {None}]
    /\ egress \in [Sessions -> {"binding", "up", "gone"}]
    /\ up \in [Sessions -> Seq(1 .. Len(arrived))]
    /\ down \in [Sessions -> 0 .. LinkCap]
    /\ \A g \in Sessions : Len(up[g]) <= LinkCap
    /\ reader \in [Sessions -> {"running", "reaping", "done"}]
    /\ reap \in Seq(Sources) /\ Len(reap) <= ReapCap
    /\ sending \in [to : Sessions, pkt : 1 .. Len(arrived)] \cup {None}
    /\ sent \in Seq([by : Sessions, pkt : 1 .. Len(arrived)])

\* "One direct-egress session per client source addr": while a session has not
\* finished, the table of serve_udp leads its source to that session and to no
\* other, so a reap message never takes a running session out of the table.
RunningIsTabled ==
    \A g \in Sessions : reader[g] # "done" => table[home[g].from] = g

\* The datagrams of one source leave in the order they arrived, each at most
\* once, across the end of a session and the start of the next one.
SourceInOrder ==
    \A i, j \in 1 .. Len(sent) :
        (i < j /\ arrived[sent[i].pkt].from = arrived[sent[j].pkt].from)
            => sent[i].pkt < sent[j].pkt

\* The service loop is never held for good by one session: whatever it is
\* sending, it gets back to its select.
LoopReturns == sending # None ~> sending = None

\* A session whose egress has ended leaves the table, so that its source can
\* open a new one.
DeadIsReaped ==
    \A g \in 1 .. MaxSessions :
        (g \in Sessions /\ egress[g] = "gone") ~> (\A s \in Sources : table[s] # g)

============================================================================
