--------------------------- MODULE DispatchProofs ---------------------------
(***************************************************************************)
(* Proofs about the routing engine and the dialer behind it, for any rule  *)
(* tables, flows, zones and bounds: the balancers are even, the first rule *)
(* that matches decides, and a flow is connected to an address of a fresh  *)
(* answer for its own host.                                                *)
(***************************************************************************)
EXTENDS Dispatch, WellFoundedInduction, TLAPS

Flows == Queries[DnsUse] \union Queries[UpstreamUse]
Targets == {Dest(q) : q \in Flows} \union {Server}
Literals == {d \in Targets : d.addr.kind = "ip"}
Answers == UNION {Zones[h] : h \in Hosts}
Singles == {<<d.addr.bytes>> : d \in Literals}
Lists == Answers \union Singles \union {<<>>}
Members(l) == {l[i] : i \in DOMAIN l}
Reached == UNION {Members(l) : l \in Lists}
Peers == Reached \union {None}
Early == {"dropped", "resolve", "lookup", "answer"}
Talking == {"greet", "auth", "ask", "relay", "drained", "stopped"}
Stages == Early \union Talking \union {"dial", "failed"}
OutKinds == {outbounds[t] : t \in DOMAIN outbounds}
Conn == [q : Flows, kind : OutKinds, to : Targets, st : Stages, ips : Lists, at : Nat, tried : Nat, peer : Peers]

\* What is dialled is the literal, or an answer heard for the host, fresh when
\* it was taken.
Sourced(c, H) ==
    /\ c.st \in {"lookup", "answer"} => c.to.addr.kind # "ip"
    /\ c.st \notin Early /\ c.ips # <<>> =>
          /\ c.to.addr.kind = "ip" => c.ips = <<c.to.addr.bytes>>
          /\ c.to.addr.kind = "domain" =>
                 \E t \in 0..c.at : <<c.to.addr.bytes, c.ips, t>> \in H /\ c.at < t + Ttl

\* Who answered, and when the flow gave up.
Peered(c) ==
    /\ c.st \in Early \union {"dial"} => c.peer = None
    /\ c.st \in Talking => c.peer # None
    /\ c.peer # None => c.peer = c.ips[c.tried + 1]
    /\ c.st = "failed" /\ c.peer = None /\ c.ips # <<>> => c.tried = Len(c.ips)

\* What is cached was heard.
Cached(h) ==
    cache[h] # None => /\ cache[h].ips \in Lists /\ cache[h].at \in 0..now
                       /\ <<h, cache[h].ips, cache[h].at>> \in heard

DnsInv ==
    /\ conns \in Seq(Conn) /\ now \in Nat /\ zone \in [Hosts -> Lists] /\ DOMAIN cache = Hosts
    /\ \A h \in Hosts : Cached(h)
    /\ \A k \in DOMAIN conns : Sourced(conns[k], heard) /\ Peered(conns[k])

-----------------------------------------------------------------------------
(* The constants.                                                          *)

\* Every list of addresses is a sequence of addresses.
LEMMA ListsAreLists ==
  ASSUME NEW l \in Lists
  PROVE  Len(l) \in Nat /\ DOMAIN l = 1..Len(l) /\ \A i \in DOMAIN l : l[i] # None /\ l[i] \in Peers
  <1>1. \A i \in DOMAIN l : l[i] \in Peers
    <2>1. \A i \in DOMAIN l : l[i] \in Members(l)
      BY Zenon DEF Members
    <2>2. \A x \in Members(l) : x \in Peers
      BY Zenon DEF Peers, Reached
    <2> QED
      BY <2>1, <2>2, Zenon
  <1>2. CASE l \in Answers
    BY <1>1, <1>2, DispatchConstants DEF Answers
  <1>3. CASE l \in Singles
    <2>1. PICK d \in Literals : l = <<d.addr.bytes>>
      BY <1>3, Zenon DEF Singles
    <2>2. Known(d)
      BY DispatchConstants, Zenon DEF Literals, Targets, Flows
    <2>3. d.addr.bytes # None
      BY <2>2, Zenon DEF Known, Literals
    <2> QED
      BY <1>1, <2>1, <2>3
  <1>4. CASE l = <<>>
    BY <1>4, <1>1
  <1>5. l \in Answers \/ l \in Singles \/ l = <<>>
    BY DEF Lists
  <1> QED
    BY <1>2, <1>3, <1>4, <1>5, Zenon

\* A name that is dialled is one the resolver answers for.
LEMMA NamesAreHosts ==
  ASSUME NEW d \in Targets, d.addr.kind # "ip"
  PROVE  d.addr.kind = "domain" /\ d.addr.bytes \in Hosts
  <1>1. Known(d)
    BY DispatchConstants, Zenon DEF Targets, Flows
  <1> QED
    BY <1>1, Zenon DEF Known

-----------------------------------------------------------------------------
(* A connection at a time.                                                 *)

\* More answers never hurt.
LEMMA HeardGrows ==
  ASSUME NEW c, NEW H, NEW G, H \subseteq G, Sourced(c, H)
  PROVE  Sourced(c, G)
  BY Zenon DEF Sourced

\* A step of one connection that keeps it in order keeps all of them.
LEMMA OneStep ==
  ASSUME DnsInv, NEW k \in DOMAIN conns, NEW d \in Conn, conns' = [conns EXCEPT ![k] = d],
         outbounds' = outbounds, heard \subseteq heard', Sourced(d, heard'), Peered(d)
  PROVE  /\ (conns \in Seq(Conn))'
         /\ \A j \in DOMAIN conns' : Sourced(conns'[j], heard') /\ Peered(conns'[j])
  <1>1. Conn' = Conn
    BY DEF Conn, OutKinds
  <1>2. conns' \in Seq(Conn) /\ DOMAIN conns' = DOMAIN conns
    BY DEF DnsInv
  <1>3. ASSUME NEW j \in DOMAIN conns PROVE Sourced(conns'[j], heard') /\ Peered(conns'[j])
    <2>1. CASE j = k
      <3>1. conns'[j] = d
        BY <2>1, Zenon
      <3> QED
        BY <3>1, Zenon
    <2>2. CASE j # k
      <3>1. conns'[j] = conns[j]
        BY <2>2, Zenon
      <3>2. Sourced(conns[j], heard) /\ Peered(conns[j])
        BY Zenon DEF DnsInv
      <3> QED
        BY <3>1, <3>2, HeardGrows, Zenon
    <2> QED
      BY <2>1, <2>2
  <1> QED
    BY <1>1, <1>2, <1>3, Zenon

\* Outbound::process starts a connection that has resolved nothing yet.
LEMMA ProcessStarts ==
  ASSUME NEW q \in Flows, NEW kind \in OutKinds, NEW H
  PROVE  Process(q, kind) \in Conn /\ Sourced(Process(q, kind), H) /\ Peered(Process(q, kind))
  <1> DEFINE c == Process(q, kind)
  <1>1. (IF kind \in DOMAIN Login THEN Server ELSE Dest(q)) \in Targets
    BY Zenon DEF Targets
  <1>2. <<>> \in Lists /\ None \in Peers
    <2>1. <<>> \in Lists
      BY DEF Lists
    <2>2. None \in Peers
      BY Zenon DEF Peers
    <2> QED
      BY <2>1, <2>2
  <1>3. c \in Conn
    BY <1>1, <1>2 DEF Process, Conn, Stages, Early
  <1>4. c.st \in {"dropped", "resolve"} /\ c.peer = None
    BY DEF Process
  <1> HIDE DEF c
  <1> QED
    BY <1>3, <1>4 DEF Sourced, Peered, Early, Talking, c

\* Stages that follow one another without a change of address or peer.
LEMMA StageMoves ==
  ASSUME NEW c \in Conn, NEW st \in Stages
  PROVE  LET d == [c EXCEPT !.st = st] IN
         /\ d \in Conn /\ d.st = st /\ d.ips = c.ips /\ d.to = c.to /\ d.at = c.at
         /\ d.tried = c.tried /\ d.peer = c.peer
  BY DEF Conn

\* Once it talks to a peer, a connection that goes on, ends or fails keeps it.
LEMMA TalkGoesOn ==
  ASSUME NEW c \in Conn, NEW H, c.st \in Talking, Sourced(c, H), Peered(c), NEW st \in Talking \union {"failed"}
  PROVE  LET d == [c EXCEPT !.st = st] IN d \in Conn /\ Sourced(d, H) /\ Peered(d)
  <1> DEFINE d == [c EXCEPT !.st = st]
  <1>1. st \in Stages
    BY DEF Stages
  <1>2. /\ d \in Conn /\ d.st = st /\ d.ips = c.ips /\ d.to = c.to /\ d.at = c.at
        /\ d.tried = c.tried /\ d.peer = c.peer
    BY <1>1, StageMoves, Zenon
  <1>3. c.st \notin Early /\ st \notin Early \union {"dial", "lookup", "answer"}
    BY DEF Talking, Early
  <1> HIDE DEF d
  <1>4. Sourced(d, H)
    BY <1>2, <1>3, Zenon DEF Sourced
  <1>5. Peered(d)
    BY <1>2, <1>3 DEF Peered
  <1> QED
    BY <1>2, <1>4, <1>5 DEF d

\* Go: the connection moves to another stage.
LEMMA GoIsOneStep ==
  ASSUME DnsInv, NEW k \in DOMAIN conns, NEW st, Go(k, st)
  PROVE  conns' = [conns EXCEPT ![k] = [conns[k] EXCEPT !.st = st]]
  BY DEF Go

\* Dial: the connection starts on a list of addresses.
LEMMA DialIsOneStep ==
  ASSUME DnsInv, NEW k \in DOMAIN conns, NEW l \in Lists, Dial(k, l)
  PROVE  \E d \in Conn :
            /\ conns' = [conns EXCEPT ![k] = d]
            /\ d.st = "dial" /\ d.ips = l /\ d.at = now /\ d.to = conns[k].to
            /\ d.tried = conns[k].tried /\ d.peer = conns[k].peer
  <1> DEFINE d == [conns[k] EXCEPT !.st = "dial", !.ips = l, !.at = now]
  <1>1. conns[k] \in Conn /\ now \in Nat
    BY DEF DnsInv
  <1>2. conns' = [conns EXCEPT ![k] = d]
    BY Zenon DEF Dial, DnsInv
  <1>3. d \in Conn
    BY <1>1, Zenon DEF Conn, Stages
  <1>4. /\ d.st = "dial" /\ d.ips = l /\ d.at = now /\ d.to = conns[k].to
        /\ d.tried = conns[k].tried /\ d.peer = conns[k].peer
    BY <1>1 DEF Conn
  <1> QED
    BY <1>2, <1>3, <1>4, Zenon

\* A connection that dials an answer that may be dialled is in order.
LEMMA DialOK ==
  ASSUME DnsInv, NEW k \in DOMAIN conns, NEW l \in Lists, Dial(k, l), conns[k].st \in Early,
         outbounds' = outbounds, heard \subseteq heard',
         conns[k].to.addr.kind = "ip" => l = <<conns[k].to.addr.bytes>>,
         conns[k].to.addr.kind = "domain" =>
            \E t \in 0..now : <<conns[k].to.addr.bytes, l, t>> \in heard' /\ now < t + Ttl
  PROVE  /\ (conns \in Seq(Conn))'
         /\ \A j \in DOMAIN conns' : Sourced(conns'[j], heard') /\ Peered(conns'[j])
  <1>1. PICK d \in Conn :
            /\ conns' = [conns EXCEPT ![k] = d]
            /\ d.st = "dial" /\ d.ips = l /\ d.at = now /\ d.to = conns[k].to
            /\ d.tried = conns[k].tried /\ d.peer = conns[k].peer
    BY DialIsOneStep, Zenon
  <1>2. conns[k].peer = None
    BY DEF DnsInv, Peered
  <1>3. Sourced(d, heard')
    BY <1>1 DEF Sourced
  <1>4. Peered(d)
    BY <1>1, <1>2 DEF Peered, Talking
  <1> QED
    BY <1>1, <1>3, <1>4, OneStep, Zenon

-----------------------------------------------------------------------------
(* The steps of a connection.                                              *)

\* resolve_addr: the literal, or what the cache holds while it lives.
LEMMA ResolvingOK ==
  ASSUME DnsInv, NEW k \in DOMAIN conns, Resolving(k)
  PROVE  DnsInv'
  <1> DEFINE c == conns[k]
  <1>0. c \in Conn /\ c.to \in Targets /\ c.st = "resolve" /\ c.st \in Early
    <2>1. c \in Conn
      BY DEF DnsInv
    <2> QED
      BY <2>1 DEF Resolving, Conn, Early
  <1>1. UNCHANGED <<outbounds, cache, zone, now, heard>>
    BY DEF Resolving, dns, evars, vars, config
  <1>2. heard \subseteq heard'
    BY <1>1
  <1>3. /\ (conns \in Seq(Conn))'
        /\ \A j \in DOMAIN conns' : Sourced(conns'[j], heard') /\ Peered(conns'[j])
    <2>1. CASE c.to.addr.kind = "ip"
      <3>1. Dial(k, <<c.to.addr.bytes>>)
        BY <2>1, Zenon DEF Resolving
      <3>2. <<c.to.addr.bytes>> \in Lists
        <4>1. <<c.to.addr.bytes>> \in Singles
          BY <1>0, <2>1, Zenon DEF Singles, Literals
        <4> QED
          BY <4>1, Zenon DEF Lists
      <3>3. c.to.addr.kind # "domain"
        BY <2>1
      <3> QED
        BY <1>0, <1>1, <1>2, <2>1, <3>1, <3>2, <3>3, DialOK, Zenon
    <2>2. CASE c.to.addr.kind # "ip" /\ Live(HostOf(k))
      <3>1. Dial(k, cache[HostOf(k)].ips)
        BY <2>2, Zenon DEF Resolving
      <3>2. HostOf(k) \in Hosts
        BY <1>0, <2>2, NamesAreHosts, Zenon DEF HostOf
      <3>3. Cached(HostOf(k)) /\ now \in Nat
        BY <3>2, Zenon DEF DnsInv
      <3>4. /\ cache[HostOf(k)].ips \in Lists /\ cache[HostOf(k)].at \in 0..now
            /\ now < cache[HostOf(k)].at + Ttl
            /\ <<c.to.addr.bytes, cache[HostOf(k)].ips, cache[HostOf(k)].at>> \in heard'
        BY <2>2, <3>3, <1>1, Zenon DEF Cached, Live, HostOf
      <3>5. \E t \in 0..now : <<c.to.addr.bytes, cache[HostOf(k)].ips, t>> \in heard' /\ now < t + Ttl
        BY <3>4, Zenon
      <3> QED
        BY <1>0, <1>1, <1>2, <2>2, <3>1, <3>4, <3>5, DialOK, Zenon
    <2>3. CASE c.to.addr.kind # "ip" /\ ~Live(HostOf(k))
      <3>1. conns' = [conns EXCEPT ![k] = [c EXCEPT !.st = "lookup"]]
        BY <2>3, GoIsOneStep, Zenon DEF Resolving
      <3>2. "lookup" \in Stages /\ "lookup" \in Early /\ "lookup" \notin Talking
        BY DEF Stages, Early, Talking
      <3>3. PICK d : d = [c EXCEPT !.st = "lookup"]
        BY Zenon
      <3>4. d \in Conn /\ d.st = "lookup" /\ d.to = c.to /\ d.peer = c.peer
        BY <1>0, <3>2, <3>3, StageMoves, Zenon
      <3>5. c.peer = None
        BY <1>0, Zenon DEF DnsInv, Peered
      <3>6. Sourced(d, heard')
        BY <2>3, <3>2, <3>4, Zenon DEF Sourced
      <3>7. Peered(d)
        BY <3>2, <3>4, <3>5 DEF Peered
      <3> QED
        BY <1>1, <1>2, <3>1, <3>3, <3>4, <3>6, <3>7, OneStep, Zenon
    <2> QED
      BY <2>1, <2>2, <2>3, Zenon
  <1> QED
    BY <1>1, <1>3, Zenon DEF DnsInv, Cached

\* lookup_ip: the inner resolver's answer for the host.
LEMMA AnswerOK ==
  ASSUME DnsInv, NEW k \in DOMAIN conns, Answer(k)
  PROVE  DnsInv'
  <1> DEFINE c == conns[k]
             d == [c EXCEPT !.st = "answer", !.ips = zone[HostOf(k)]]
  <1>0. c \in Conn /\ c.to \in Targets /\ c.st = "lookup" /\ Sourced(c, heard) /\ Peered(c)
    <2>1. c \in Conn
      BY DEF DnsInv
    <2>2. c.to \in Targets
      BY <2>1 DEF Conn
    <2> QED
      BY <2>1, <2>2, Zenon DEF Answer, DnsInv
  <1>1. UNCHANGED <<outbounds, cache, zone, now, heard>>
    BY DEF Answer, dns, evars, vars, config
  <1>2. c.to.addr.kind # "ip" /\ c.peer = None
    BY <1>0 DEF Sourced, Peered, Early
  <1>3. zone[HostOf(k)] \in Lists
    BY <1>0, <1>2, NamesAreHosts, Zenon DEF HostOf, DnsInv
  <1>4. conns' = [conns EXCEPT ![k] = d]
    BY Zenon DEF Answer, DnsInv
  <1>5. d \in Conn
    BY <1>0, <1>3, Zenon DEF Conn, Stages, Early
  <1>6. d.st = "answer" /\ d.to = c.to /\ d.peer = c.peer
    BY <1>0 DEF Conn
  <1> HIDE DEF d
  <1>7. Sourced(d, heard') /\ Peered(d)
    BY <1>2, <1>6 DEF Sourced, Peered, Early, Talking
  <1>8. /\ (conns \in Seq(Conn))'
        /\ \A j \in DOMAIN conns' : Sourced(conns'[j], heard') /\ Peered(conns'[j])
    <2>1. PICK e : e = d
      BY Zenon
    <2> QED
      BY <1>1, <1>4, <1>5, <1>7, <2>1, OneStep, Zenon
  <1> QED
    BY <1>1, <1>8, Zenon DEF DnsInv, Cached

\* The answer is inserted and dialled; a failed lookup fails the connection.
LEMMA InsertOK ==
  ASSUME DnsInv, NEW k \in DOMAIN conns, Insert(k)
  PROVE  DnsInv'
  <1> DEFINE c == conns[k]
  <1>0. c \in Conn /\ c.to \in Targets /\ c.ips \in Lists /\ c.st = "answer" /\ Sourced(c, heard) /\ Peered(c)
    <2>1. c \in Conn
      BY DEF DnsInv
    <2>2. c.to \in Targets /\ c.ips \in Lists
      BY <2>1 DEF Conn
    <2> QED
      BY <2>1, <2>2, Zenon DEF Insert, DnsInv
  <1>1. UNCHANGED <<outbounds, zone, now>> /\ now \in Nat
    BY DEF Insert, evars, vars, config, DnsInv
  <1>2. c.to.addr.kind # "ip" /\ c.peer = None /\ c.st \in Early
    BY <1>0 DEF Sourced, Peered, Early
  <1>3. HostOf(k) \in Hosts
    BY <1>0, <1>2, NamesAreHosts, Zenon DEF HostOf
  <1>4. CASE c.ips = <<>>
    <2>1. conns' = [conns EXCEPT ![k] = [c EXCEPT !.st = "failed"]]
      BY <1>4, GoIsOneStep, Zenon DEF Insert
    <2>2. UNCHANGED <<cache, heard>>
      BY <1>4, Zenon DEF Insert
    <2>3. "failed" \in Stages /\ "failed" \notin Early \union Talking
      BY DEF Stages, Early, Talking
    <2>4. PICK d : d = [c EXCEPT !.st = "failed"]
      BY Zenon
    <2>5. d \in Conn /\ d.st = "failed" /\ d.ips = <<>> /\ d.peer = None
      BY <1>0, <1>2, <1>4, <2>3, <2>4, StageMoves, Zenon
    <2>6. Sourced(d, heard')
      BY <2>5 DEF Sourced
    <2>7. Peered(d)
      BY <2>3, <2>5 DEF Peered
    <2>8. heard \subseteq heard'
      BY <2>2
    <2>9. /\ (conns \in Seq(Conn))'
          /\ \A j \in DOMAIN conns' : Sourced(conns'[j], heard') /\ Peered(conns'[j])
      BY <1>1, <2>1, <2>4, <2>5, <2>6, <2>7, <2>8, OneStep, Zenon
    <2> QED
      BY <1>1, <2>2, <2>9, Zenon DEF DnsInv, Cached
  <1>5. CASE c.ips # <<>>
    <2>1. /\ Dial(k, c.ips)
          /\ cache' = [cache EXCEPT ![HostOf(k)] = [ips |-> c.ips, at |-> now]]
          /\ heard' = heard \union {<<HostOf(k), c.ips, now>>}
      BY <1>5, Zenon DEF Insert
    <2>2. heard \subseteq heard' /\ <<c.to.addr.bytes, c.ips, now>> \in heard'
      BY <2>1 DEF HostOf
    <2>3. now \in 0..now /\ now < now + Ttl
      BY <1>1, DispatchConstants
    <2>4. /\ (conns \in Seq(Conn))'
          /\ \A j \in DOMAIN conns' : Sourced(conns'[j], heard') /\ Peered(conns'[j])
      <3>1. \E t \in 0..now : <<c.to.addr.bytes, c.ips, t>> \in heard' /\ now < t + Ttl
        BY <2>2, <2>3, Zenon
      <3> QED
        BY <1>0, <1>1, <1>2, <2>1, <2>2, <3>1, DialOK, Zenon
    <2>5. DOMAIN cache' = Hosts
      BY <2>1, Zenon DEF DnsInv
    <2>6. ASSUME NEW h \in Hosts PROVE Cached(h)'
      <3>1. CASE h = HostOf(k)
        <4>1. cache'[h] = [ips |-> c.ips, at |-> now]
          BY <2>1, <3>1, Zenon DEF DnsInv
        <4>2. cache'[h].ips = c.ips /\ cache'[h].at = now
          BY <4>1
        <4>3. <<h, c.ips, now>> \in heard'
          BY <2>1, <3>1
        <4> QED
          BY <1>0, <1>1, <2>3, <4>2, <4>3, Zenon DEF Cached
      <3>2. CASE h # HostOf(k)
        <4>1. cache'[h] = cache[h]
          BY <2>1, <3>2, Zenon DEF DnsInv
        <4>2. Cached(h)
          BY Zenon DEF DnsInv
        <4> QED
          BY <1>1, <2>2, <4>1, <4>2, Zenon DEF Cached
      <3> QED
        BY <3>1, <3>2
    <2> QED
      BY <1>1, <2>4, <2>5, <2>6, Zenon DEF DnsInv
  <1> QED
    BY <1>4, <1>5

\* The addresses in turn, until one accepts or there is none left.
LEMMA ConnectOK ==
  ASSUME DnsInv, NEW k \in DOMAIN conns, Connect(k)
  PROVE  DnsInv'
  <1> DEFINE c == conns[k]
             Moved(d) == /\ d \in Conn /\ conns' = [conns EXCEPT ![k] = d] /\ Peered(d)
                         /\ d.st \notin Early /\ d.ips = c.ips /\ d.to = c.to /\ d.at = c.at
  <1>0. c \in Conn /\ c.ips \in Lists /\ c.tried \in Nat /\ c.st = "dial" /\ Sourced(c, heard) /\ Peered(c)
    <2>1. c \in Conn
      BY DEF DnsInv
    <2>2. c.ips \in Lists /\ c.tried \in Nat
      BY <2>1 DEF Conn
    <2> QED
      BY <2>1, <2>2, Zenon DEF Connect, DnsInv
  <1>1. UNCHANGED <<outbounds, cache, zone, now, heard>>
    BY DEF Connect, dns, evars, vars, config
  <1>2. c.peer = None /\ c.st \notin Early
    BY <1>0 DEF Peered, Early
  <1>3. Len(c.ips) \in Nat /\ DOMAIN c.ips = 1..Len(c.ips) /\ \A i \in DOMAIN c.ips : c.ips[i] # None /\ c.ips[i] \in Peers
    BY <1>0, ListsAreLists, Zenon
  <1>4. \E d : Moved(d)
    <2>1. CASE c.tried = Len(c.ips) /\ Go(k, "failed")
      <3> DEFINE d == [c EXCEPT !.st = "failed"]
      <3>1. conns' = [conns EXCEPT ![k] = d]
        BY <2>1, GoIsOneStep, Zenon
      <3>2. "failed" \in Stages /\ "failed" \notin Early \union Talking \union {"dial"}
        BY DEF Stages, Early, Talking
      <3>3. /\ d \in Conn /\ d.st = "failed" /\ d.ips = c.ips /\ d.to = c.to /\ d.at = c.at
            /\ d.tried = c.tried /\ d.peer = c.peer
        BY <1>0, <3>2, StageMoves, Zenon
      <3> HIDE DEF d
      <3>4. Peered(d)
        BY <1>2, <2>1, <3>2, <3>3 DEF Peered
      <3> QED
        BY <3>1, <3>2, <3>3, <3>4, Zenon
    <2>2. CASE c.tried < Len(c.ips) /\ conns' = [conns EXCEPT ![k].tried = @ + 1]
      <3> DEFINE d == [c EXCEPT !.tried = @ + 1]
      <3>1. conns' = [conns EXCEPT ![k] = d]
        BY <2>2 DEF DnsInv
      <3>2. d \in Conn
        BY <1>0 DEF Conn
      <3>3. /\ d.st = "dial" /\ d.ips = c.ips /\ d.to = c.to /\ d.at = c.at /\ d.peer = c.peer
        BY <1>0 DEF Conn
      <3> HIDE DEF d
      <3>4. Peered(d)
        BY <1>2, <3>3 DEF Peered, Talking
      <3> QED
        BY <1>0, <1>2, <3>1, <3>2, <3>3, <3>4, Zenon
    <2>3. CASE /\ c.tried < Len(c.ips)
               /\ conns' = [conns EXCEPT ![k].peer = c.ips[c.tried + 1],
                                         ![k].st = IF c.kind \in DOMAIN Login /\ c.kind # "ss" THEN "greet" ELSE "relay"]
      <3>1. PICK st \in {"greet", "relay"} : conns' = [conns EXCEPT ![k].peer = c.ips[c.tried + 1], ![k].st = st]
        BY <2>3, Zenon
      <3>2. c.tried + 1 \in DOMAIN c.ips
        BY <1>0, <1>3, <2>3
      <3>3. c.ips[c.tried + 1] # None /\ c.ips[c.tried + 1] \in Peers
        BY <1>3, <3>2, Zenon
      <3> DEFINE d == [c EXCEPT !.peer = c.ips[c.tried + 1], !.st = st]
      <3>4. conns' = [conns EXCEPT ![k] = d]
        BY <3>1, Zenon DEF DnsInv
      <3>5. st \in Stages /\ st \in Talking /\ st \notin Early \union {"dial", "failed"}
        BY <3>1 DEF Stages, Talking, Early
      <3>6. d \in Conn
        BY <1>0, <3>3, <3>5, Zenon DEF Conn
      <3>7. /\ d.st = st /\ d.ips = c.ips /\ d.to = c.to /\ d.at = c.at /\ d.tried = c.tried
            /\ d.peer = c.ips[c.tried + 1]
        BY <1>0 DEF Conn
      <3> HIDE DEF d
      <3>8. Peered(d)
        BY <3>3, <3>5, <3>7 DEF Peered
      <3> QED
        BY <3>4, <3>5, <3>6, <3>7, <3>8, Zenon
    <2> QED
      BY <2>1, <2>2, <2>3, Zenon DEF Connect
  <1>5. PICK d : Moved(d)
    BY <1>4, Zenon
  <1>6. "lookup" \in Early /\ "answer" \in Early
    BY DEF Early
  <1>7. Sourced(d, heard')
    BY <1>0, <1>1, <1>2, <1>5, <1>6 DEF Sourced
  <1>8. heard \subseteq heard'
    BY <1>1
  <1>9. /\ (conns \in Seq(Conn))'
        /\ \A j \in DOMAIN conns' : Sourced(conns'[j], heard') /\ Peered(conns'[j])
    BY <1>1, <1>5, <1>7, <1>8, OneStep, Zenon
  <1> QED
    BY <1>1, <1>9, Zenon DEF DnsInv, Cached

\* The upstream exchange and the relay behind it move a connection only
\* between the stages it has a peer in.
LEMMA TalkStep ==
  ASSUME NEW k \in DOMAIN conns,
         SocksMethod(k) \/ SocksPassed(k) \/ SocksReply(k) \/ Up(k) \/ Down(k) \/ Stop(k)
  PROVE  /\ UNCHANGED <<outbounds, cache, zone, now, heard>>
         /\ \/ UNCHANGED conns
            \/ conns[k].st \in Talking /\ \E st \in Talking \union {"failed"} : Go(k, st)
  <1>1. {"greet", "auth", "ask", "relay", "drained", "stopped"} = Talking
    BY DEF Talking
  <1>2. UNCHANGED <<outbounds, cache, zone, now, heard>>
    BY Zenon DEF SocksMethod, SocksPassed, SocksReply, Up, Down, Stop, dns, evars, vars, config
  <1>3. CASE SocksMethod(k)
    BY <1>1, <1>2, <1>3 DEF SocksMethod
  <1>4. CASE SocksPassed(k)
    BY <1>1, <1>2, <1>4 DEF SocksPassed
  <1>5. CASE SocksReply(k)
    BY <1>1, <1>2, <1>5 DEF SocksReply
  <1>6. CASE Up(k)
    BY <1>2, <1>6, Zenon DEF Up
  <1>7. CASE Down(k)
    BY <1>1, <1>2, <1>7 DEF Down, Relaying
  <1>8. CASE Stop(k)
    BY <1>1, <1>2, <1>8 DEF Stop, Relaying
  <1> QED
    BY <1>3, <1>4, <1>5, <1>6, <1>7, <1>8

\* And so keeps every connection in order.
LEMMA TalkOK ==
  ASSUME DnsInv, NEW k \in DOMAIN conns,
         SocksMethod(k) \/ SocksPassed(k) \/ SocksReply(k) \/ Up(k) \/ Down(k) \/ Stop(k)
  PROVE  DnsInv'
  <1>1. UNCHANGED <<outbounds, cache, zone, now, heard>>
    BY TalkStep, Zenon
  <1>2. Conn' = Conn
    BY <1>1, Zenon DEF Conn, OutKinds
  <1>3. CASE UNCHANGED conns
    BY <1>1, <1>2, <1>3, Zenon DEF DnsInv, Cached
  <1>4. CASE conns[k].st \in Talking /\ \E st \in Talking \union {"failed"} : Go(k, st)
    <2>1. PICK st \in Talking \union {"failed"} : Go(k, st)
      BY <1>4
    <2>2. PICK d : d = [conns[k] EXCEPT !.st = st]
      BY Zenon
    <2>3. conns' = [conns EXCEPT ![k] = d]
      BY <2>1, <2>2, GoIsOneStep, Zenon
    <2>4. conns[k] \in Conn
      BY DEF DnsInv
    <2>5. d \in Conn /\ Sourced(d, heard) /\ Peered(d)
      BY <1>4, <2>2, <2>4, TalkGoesOn, Zenon DEF DnsInv
    <2>6. heard \subseteq heard'
      BY <1>1
    <2>7. /\ (conns \in Seq(Conn))'
          /\ \A j \in DOMAIN conns' : Sourced(conns'[j], heard') /\ Peered(conns'[j])
      BY <1>1, <2>3, <2>5, <2>6, OneStep, Zenon
    <2> QED
      BY <1>1, <2>7, Zenon DEF DnsInv, Cached
  <1> QED
    BY <1>3, <1>4, TalkStep, Zenon

-----------------------------------------------------------------------------
(* Every step.                                                             *)

\* A routed flow is one of the deployment's, and is served by an outbound of
\* the list or by none.
LEMMA RoutedToAnOutbound ==
  ASSUME Next
  PROVE  UNCHANGED config /\ query' \in Queries[use] /\ (sink' # None => sink' \in DOMAIN outbounds)
  <1>1. PICK q \in Queries[use] : Flow(q)
    BY Zenon DEF Next
  <1>2. UNCHANGED config /\ query' = q /\ (RouteDefault(q) \/ RouteNoOuts(q) \/ RouteOuts(q))
    BY <1>1, Zenon DEF Flow
  <1>3. \E d : Decide(d)
    BY <1>2, Zenon DEF RouteDefault, RouteNoOuts, RouteOuts
  <1>4. \A d : Resolve(d) # None => Resolve(d) \in DOMAIN outbounds
    BY Zenon DEF Resolve
  <1> QED
    BY <1>2, <1>3, <1>4, Zenon DEF Decide

\* ProxyService::call adds a connection that has yet to resolve.
LEMMA ArriveOK ==
  ASSUME DnsInv, Arrive
  PROVE  DnsInv'
  <1>1. UNCHANGED config /\ query' \in Queries[use] /\ (sink' # None => sink' \in DOMAIN outbounds)
    BY RoutedToAnOutbound, Zenon DEF Arrive, ENext
  <1>2. UNCHANGED <<outbounds, cache, zone, now, heard>>
    BY <1>1, Zenon DEF Arrive, dns, config
  <1>3. Conn' = Conn
    BY <1>2, Zenon DEF Conn, OutKinds
  <1>4. CASE UNCHANGED conns
    BY <1>2, <1>3, <1>4, Zenon DEF DnsInv, Cached
  <1>5. CASE /\ use \in {DnsUse, UpstreamUse} /\ sink' # None
             /\ conns' = Append(conns, Process(query', outbounds[sink']))
    <2>1. query' \in Flows /\ outbounds[sink'] \in OutKinds
      BY <1>1, <1>5 DEF Flows, OutKinds
    <2>2. PICK d : d = Process(query', outbounds[sink'])
      BY Zenon
    <2>3. d \in Conn /\ Sourced(d, heard) /\ Peered(d)
      BY <2>1, <2>2, ProcessStarts, Zenon
    <2>4. conns \in Seq(Conn) /\ conns' = Append(conns, d)
      BY <1>5, <2>2, Zenon DEF DnsInv
    <2>5. /\ conns' \in Seq(Conn)
          /\ \A j \in DOMAIN conns' : conns'[j] = d \/ (j \in DOMAIN conns /\ conns'[j] = conns[j])
      BY <2>3, <2>4
    <2>6. \A j \in DOMAIN conns' : Sourced(conns'[j], heard) /\ Peered(conns'[j])
      BY <2>3, <2>5, Zenon DEF DnsInv
    <2> QED
      BY <1>2, <1>3, <2>5, <2>6, Zenon DEF DnsInv, Cached
  <1> QED
    BY <1>4, <1>5, Zenon DEF Arrive

\* The invariant of the dialer is kept by every step of the system.
LEMMA DnsNext ==
  ASSUME DnsInv, [DNext]_dvars
  PROVE  DnsInv'
  <1>1. CASE Arrive
    BY <1>1, ArriveOK, Zenon
  <1>2. ASSUME NEW k \in DOMAIN conns, Client(k) PROVE DnsInv'
    BY <1>2, ResolvingOK, AnswerOK, InsertOK, ConnectOK, TalkOK, Zenon DEF Client
  <1>3. CASE ZoneChange
    <2>1. UNCHANGED <<outbounds, conns, cache, now, heard>>
      BY <1>3, Zenon DEF ZoneChange, evars, vars, config
    <2>2. PICK h \in Hosts : \E z \in Zones[h] : zone' = [zone EXCEPT ![h] = z]
      BY <1>3, Zenon DEF ZoneChange
    <2>0. PICK z \in Zones[h] : zone' = [zone EXCEPT ![h] = z]
      BY <2>2, Zenon
    <2>3. z \in Lists
      <3>1. z \in Answers
        BY <2>0, Zenon DEF Answers
      <3> QED
        BY <3>1, Zenon DEF Lists
    <2>4. zone' \in [Hosts -> Lists]
      BY <2>0, <2>3 DEF DnsInv
    <2>5. Conn' = Conn
      BY <2>1, Zenon DEF Conn, OutKinds
    <2> QED
      BY <2>1, <2>4, <2>5, Zenon DEF DnsInv, Cached
  <1>4. CASE Tick
    <2>1. UNCHANGED <<outbounds, conns, cache, zone, heard>> /\ now' = now + 1
      BY <1>4, Zenon DEF Tick, evars, vars, config
    <2>2. now \in Nat /\ now' \in Nat /\ \A x \in 0..now : x \in 0..now'
      BY <2>1 DEF DnsInv
    <2>3. Conn' = Conn
      BY <2>1, Zenon DEF Conn, OutKinds
    <2> QED
      BY <2>1, <2>2, <2>3, Zenon DEF DnsInv, Cached
  <1>5. ASSUME UNCHANGED <<outbounds, conns, cache, zone, now, heard>> PROVE DnsInv'
    <2>1. Conn' = Conn
      BY <1>5, Zenon DEF Conn, OutKinds
    <2> QED
      BY <1>5, <2>1, Zenon DEF DnsInv, Cached
  <1>6. CASE SrvSocks \/ SrvSs \/ SrvRead \/ SrvSend \/ SrvEnd \/ Deliver
    BY <1>5, <1>6, Zenon DEF SrvSocks, SrvSs, SrvRead, SrvSend, SrvEnd, Deliver, dns, evars, vars, config
  <1>7. CASE UNCHANGED dvars
    BY <1>5, <1>7, Zenon DEF dvars, dns, evars, vars, config
  <1> QED
    BY <1>1, <1>2, <1>3, <1>4, <1>6, <1>7, Zenon DEF DNext

\* No flow has arrived and nothing is cached.
LEMMA DnsStart == DInit => DnsInv
  <1> SUFFICES ASSUME DInit PROVE DnsInv
    OBVIOUS
  <1>1. conns = <<>> /\ now = 0 /\ cache = [h \in Hosts |-> None] /\ zone \in [Hosts -> Answers]
    BY Zenon DEF DInit, Answers
  <1>2. zone \in [Hosts -> Lists]
    BY <1>1 DEF Lists
  <1>3. DOMAIN cache = Hosts /\ \A h \in Hosts : cache[h] = None
    BY <1>1
  <1>4. conns \in Seq(Conn) /\ DOMAIN conns = {} /\ now \in Nat
    BY <1>1
  <1> QED
    BY <1>2, <1>3, <1>4, Zenon DEF DnsInv, Cached

\* A flow is connected to an address of an answer that came in for its own
\* host less than the time to live before it was used (CachedResolver::resolve
\* and SystemDialer::dial_tcp), whatever the other flows do with the cache, and
\* gives up only after every address refused.
THEOREM DialledAsAnswered == DSpec => []DialsTheAnswer
  <1>1. DnsInv => DialsTheAnswer
    <2> SUFFICES ASSUME DnsInv PROVE DialsTheAnswer
      OBVIOUS
    <2>1. \A k \in DOMAIN conns : Sourced(conns[k], heard) /\ Peered(conns[k])
      BY Zenon DEF DnsInv
    <2> QED
      BY <2>1 DEF DialsTheAnswer, Sourced, Peered, Early
  <1> QED
    BY <1>1, DnsStart, DnsNext, PTL DEF DSpec

-----------------------------------------------------------------------------
(* The balancer: what the tags have been served, this round's aside, is    *)
(* the same but for the rounds cut short by a wrap of the cursor.          *)

Served(c, n, i) == IF i <= c % n THEN 1 ELSE 0
EvenBut(c, n, p, w) == \A i, j \in 1..n : p[i] + Served(c, n, j) <= p[j] + Served(c, n, i) + w
Balances(r) == table[r].mode = "roundRobin" /\ Len(table[r].outs) > 1
Level(r) == Balances(r) => EvenBut(cursor[r], Len(table[r].outs), picks[r], wraps[r])

Given == use \notin {EgressUse, AppUse}
CursorSpan == 2^CursorBits
EvenInv ==
    Given =>
        /\ use \in Uses /\ table \in Tables[use]
        /\ cursor \in [DOMAIN table -> 0..(CursorSpan - 1)] /\ wraps \in [DOMAIN table -> Nat]
        /\ DOMAIN picks = DOMAIN table /\ \A r \in DOMAIN table : picks[r] \in [DOMAIN table[r].outs -> Nat]
        /\ \A r \in DOMAIN table : Level(r)

\* Remainders are unique.
LEMMA RemainderUnique ==
  ASSUME NEW n \in Nat, n > 0, NEW a \in Nat, NEW b \in Nat, NEW r \in 0..(n - 1), NEW s \in 0..(n - 1),
         n * a + r = n * b + s
  PROVE  r = s
  <1>1. ASSUME NEW x \in Nat, NEW y \in Nat, NEW u \in 0..(n - 1), NEW v \in 0..(n - 1),
               n * x + u = n * y + v, x >= y + 1
        PROVE  FALSE
    <2>1. PICK d \in Nat : x = y + 1 + d
      <3>1. x - y - 1 \in Nat /\ x = y + 1 + (x - y - 1)
        BY <1>1
      <3> QED
        BY <3>1
    <2>2. n * x = n * y + n + n * d
      BY <2>1
    <2>3. n * d >= 0
      OBVIOUS
    <2> QED
      BY <1>1, <2>2, <2>3
  <1>2. a = b \/ a >= b + 1 \/ b >= a + 1
    OBVIOUS
  <1>3. CASE a = b
    BY <1>3
  <1> QED
    BY <1>1, <1>2, <1>3

\* The index after the next: one further, or back to the first.
LEMMA NextIndex ==
  ASSUME NEW n \in Nat, n > 0, NEW c \in Nat
  PROVE  c % n \in 0..(n - 1) /\ (c + 1) % n = IF c % n = n - 1 THEN 0 ELSE (c % n) + 1
  <1> DEFINE a == c \div n
             b == (c + 1) \div n
  <1>1. a \in Nat /\ c % n \in 0..(n - 1) /\ c = n * a + (c % n)
    OBVIOUS
  <1>2. b \in Nat /\ (c + 1) % n \in 0..(n - 1) /\ c + 1 = n * b + ((c + 1) % n)
    OBVIOUS
  <1> HIDE DEF a, b
  <1>3. CASE c % n = n - 1
    <2>1. n * (a + 1) = n * a + n
      BY <1>1
    <2>2. n * b + ((c + 1) % n) = n * (a + 1) + 0 /\ 0 \in 0..(n - 1) /\ a + 1 \in Nat
      BY <1>1, <1>2, <1>3, <2>1
    <2>3. (c + 1) % n = 0
      BY <1>2, <2>2, RemainderUnique, Zenon
    <2> QED
      BY <1>1, <1>3, <2>3
  <1>4. CASE c % n # n - 1
    <2>1. n * b + ((c + 1) % n) = n * a + ((c % n) + 1) /\ (c % n) + 1 \in 0..(n - 1)
      BY <1>1, <1>2, <1>4
    <2>2. (c + 1) % n = (c % n) + 1
      BY <1>1, <1>2, <2>1, RemainderUnique, Zenon
    <2> QED
      BY <1>1, <1>4, <2>2
  <1> QED
    BY <1>3, <1>4

\* A nonempty set of naturals has a least element.
LEMMA Least ==
  ASSUME NEW S \in SUBSET Nat, S # {}
  PROVE  \E i \in S : \A j \in S : i <= j
  <1>1. \E x \in S : \A y \in S : ~(<<y, x>> \in OpToRel(<, Nat))
    BY NatLessThanWellFounded, WFMin, Zenon
  <1>2. \A x, y \in Nat : ~(<<y, x>> \in OpToRel(<, Nat)) => x <= y
    BY DEF OpToRel
  <1> QED
    BY <1>1, <1>2, Zenon

\* RouteTable::route finds the first rule that matches.
LEMMA FirstMatchIsFirst ==
  ASSUME NEW q, Len(table) \in Nat, DOMAIN table = 1..Len(table), FirstMatch(q) # 0
  PROVE  /\ FirstMatch(q) \in DOMAIN table /\ RuleMatches(table[FirstMatch(q)], q)
         /\ \A s \in DOMAIN table : RuleMatches(table[s], q) => FirstMatch(q) <= s
  <1> DEFINE m == {r \in DOMAIN table : RuleMatches(table[r], q)}
  <1>1. m # {} /\ FirstMatch(q) = CHOOSE r \in m : \A s \in m : r <= s
    BY Zenon DEF FirstMatch
  <1>2. m \in SUBSET Nat
    OBVIOUS
  <1>3. \E r \in m : \A s \in m : r <= s
    BY <1>1, <1>2, Least, Zenon
  <1>4. FirstMatch(q) \in m /\ \A s \in m : FirstMatch(q) <= s
    BY <1>1, <1>3, Zenon
  <1> QED
    BY <1>4, Zenon

\* One pick of the balancer (LoadBalancer::pick): the tag at the cursor is
\* served and the cursor moves on, or wraps and leaves a round unfinished.
LEMMA PickKeepsLevel ==
  ASSUME NEW n \in Nat, n > 1, NEW M \in Nat \ {0}, NEW c \in 0..(M - 1), NEW w \in Nat,
         NEW p \in [1..n -> Nat], EvenBut(c, n, p, w)
  PROVE  LET c2 == (c + 1) % M IN
         EvenBut(c2, n, [p EXCEPT ![(c % n) + 1] = @ + 1], IF c2 = 0 THEN w + 1 ELSE w)
  <1> DEFINE x == c % n
             p2 == [p EXCEPT ![x + 1] = @ + 1]
             c2 == (c + 1) % M
             y == c2 % n
             w2 == IF c2 = 0 THEN w + 1 ELSE w
  <1>0. n > 0 /\ c \in Nat
    OBVIOUS
  <1>1. x \in 0..(n - 1) /\ (c + 1) % n = IF x = n - 1 THEN 0 ELSE x + 1
    BY <1>0, NextIndex, Zenon
  <1>2. c2 = IF c + 1 = M THEN 0 ELSE c + 1
    OBVIOUS
  <1>3. \A i \in 1..n : p[i] \in Nat /\ p2[i] = p[i] + (IF i = x + 1 THEN 1 ELSE 0)
    BY <1>1
  <1>4. \A i, j \in 1..n :
           p[i] + (IF j <= x THEN 1 ELSE 0) <= p[j] + (IF i <= x THEN 1 ELSE 0) + w
    BY DEF EvenBut, Served
  <1>5. 0 % n = 0
    OBVIOUS
  <1>6. CASE c2 = 0
    <2>1. y = 0 /\ w2 = w + 1
      BY <1>5, <1>6
    <2> HIDE DEF x, p2, y, w2
    <2>2. ASSUME NEW i \in 1..n, NEW j \in 1..n PROVE p2[i] <= p2[j] + w + 1
      <3>1. /\ p[i] \in Nat /\ p2[i] = p[i] + (IF i = x + 1 THEN 1 ELSE 0)
            /\ p[j] \in Nat /\ p2[j] = p[j] + (IF j = x + 1 THEN 1 ELSE 0)
            /\ p[i] + (IF j <= x THEN 1 ELSE 0) <= p[j] + (IF i <= x THEN 1 ELSE 0) + w
        BY <1>3, <1>4, Zenon
      <3> QED
        BY <1>1, <3>1
    <2>3. \A i, j \in 1..n : p2[i] + (IF j <= y THEN 1 ELSE 0) <= p2[j] + (IF i <= y THEN 1 ELSE 0) + w2
      BY <1>3, <2>1, <2>2
    <2> QED
      BY <2>3, Zenon DEF EvenBut, Served, y, p2, w2, x
  <1>7. CASE c2 # 0
    <2>1. y = (IF x = n - 1 THEN 0 ELSE x + 1) /\ w2 = w
      BY <1>1, <1>2, <1>7
    <2> HIDE DEF x, p2, y, w2
    <2>2. ASSUME NEW i \in 1..n, NEW j \in 1..n
          PROVE  p2[i] + (IF j <= y THEN 1 ELSE 0) <= p2[j] + (IF i <= y THEN 1 ELSE 0) + w2
      <3>1. /\ p[i] \in Nat /\ p2[i] = p[i] + (IF i = x + 1 THEN 1 ELSE 0)
            /\ p[j] \in Nat /\ p2[j] = p[j] + (IF j = x + 1 THEN 1 ELSE 0)
            /\ p[i] + (IF j <= x THEN 1 ELSE 0) <= p[j] + (IF i <= x THEN 1 ELSE 0) + w
        BY <1>3, <1>4, Zenon
      <3>2. CASE x = n - 1
        <4>1. y = 0 /\ w2 = w
          BY <2>1, <3>2
        <4> QED
          BY <1>1, <3>1, <3>2, <4>1
      <3>3. CASE x # n - 1
        <4>1. y = x + 1 /\ w2 = w
          BY <2>1, <3>3
        <4>2. \A k \in 1..n : (IF k <= y THEN 1 ELSE 0) = (IF k <= x THEN 1 ELSE 0) + (IF k = x + 1 THEN 1 ELSE 0)
          BY <1>1, <4>1
        <4>3. PICK si \in 0..1 : si = (IF i <= x THEN 1 ELSE 0)
          OBVIOUS
        <4>4. PICK sj \in 0..1 : sj = (IF j <= x THEN 1 ELSE 0)
          OBVIOUS
        <4>5. PICK ti \in 0..1 : ti = (IF i = x + 1 THEN 1 ELSE 0)
          OBVIOUS
        <4>6. PICK tj \in 0..1 : tj = (IF j = x + 1 THEN 1 ELSE 0)
          OBVIOUS
        <4>7. (IF i <= y THEN 1 ELSE 0) = si + ti /\ (IF j <= y THEN 1 ELSE 0) = sj + tj
          BY <4>2, <4>3, <4>4, <4>5, <4>6, Zenon
        <4>8. /\ p2[i] = p[i] + ti /\ p2[j] = p[j] + tj
              /\ p[i] + sj <= p[j] + si + w
          BY <3>1, <4>3, <4>4, <4>5, <4>6, Zenon
        <4>9. (p[i] + ti) + (sj + tj) <= (p[j] + tj) + (si + ti) + w
          <5>1. \A a, b \in Nat : \A si1, sj1, ti1, tj1 \in 0..1 :
                   a + sj1 <= b + si1 + w => (a + ti1) + (sj1 + tj1) <= (b + tj1) + (si1 + ti1) + w
            OBVIOUS
          <5>2. si \in 0..1 /\ sj \in 0..1 /\ ti \in 0..1 /\ tj \in 0..1
            BY <4>3, <4>4, <4>5, <4>6, Zenon
          <5> QED
            BY <3>1, <4>8, <5>1, <5>2, Zenon
        <4> QED
          BY <4>1, <4>7, <4>8, <4>9, Zenon
      <3> QED
        BY <3>2, <3>3
    <2> QED
      BY <2>2, Zenon DEF EvenBut, Served, y, p2, w2, x
  <1> QED
    BY <1>6, <1>7

\* A level balancer is even.
LEMMA LevelIsEven ==
  ASSUME NEW n \in Nat, NEW c, NEW w \in Nat, NEW p \in [1..n -> Nat], EvenBut(c, n, p, w)
  PROVE  \A i, j \in 1..n : p[i] <= p[j] + 1 + w
  <1>1. \A i \in 1..n : Served(c, n, i) \in 0..1 /\ p[i] \in Nat
    BY DEF Served
  <1>2. \A i, j \in 1..n : p[i] + Served(c, n, j) <= p[j] + Served(c, n, i) + w
    BY Zenon DEF EvenBut
  <1>3. \A a, b \in Nat : \A s, t \in 0..1 : a + t <= b + s + w => a <= b + 1 + w
    OBVIOUS
  <1> QED
    BY <1>1, <1>2, <1>3, Zenon

\* The table of a deployment that is given one.
LEMMA TablesAreTables ==
  ASSUME EvenInv, Given
  PROVE  /\ Len(table) \in Nat /\ DOMAIN table = 1..Len(table)
         /\ \A r \in DOMAIN table :
               /\ Len(table[r].outs) \in Nat /\ DOMAIN table[r].outs = 1..Len(table[r].outs)
               /\ table[r].mode \in {"random", "roundRobin", "userAuthHash"}
  BY RoutingConstants, Zenon DEF EvenInv

\* A pick keeps the balancer of its rule level.
LEMMA EvenPick ==
  ASSUME EvenInv, Given, NEW q, RouteOuts(q)
  PROVE  /\ cursor' \in [DOMAIN table -> 0..(CursorSpan - 1)] /\ wraps' \in [DOMAIN table -> Nat]
         /\ DOMAIN picks' = DOMAIN table /\ \A r \in DOMAIN table : picks'[r] \in [DOMAIN table[r].outs -> Nat]
         /\ \A r \in DOMAIN table :
               Balances(r) => EvenBut(cursor'[r], Len(table[r].outs), picks'[r], wraps'[r])
  <1> DEFINE r == FirstMatch(q)
             n == Len(table[r].outs)
  <1>1. /\ Len(table) \in Nat /\ DOMAIN table = 1..Len(table)
        /\ \A x \in DOMAIN table : Len(table[x].outs) \in Nat /\ DOMAIN table[x].outs = 1..Len(table[x].outs)
    BY TablesAreTables, Zenon
  <1>2. r \in DOMAIN table
    BY <1>1, FirstMatchIsFirst, Zenon DEF RouteOuts
  <1>3. n \in Nat /\ DOMAIN table[r].outs = 1..n
    BY <1>1, <1>2, Zenon
  <1>4. PICK i \in IF n = 1 THEN {0} ELSE Pick(r, n, q) : picks' = [picks EXCEPT ![r][i + 1] = @ + 1]
    BY Zenon DEF RouteOuts
  <1>5. Advance(r)
    BY Zenon DEF RouteOuts
  <1>6. /\ cursor \in [DOMAIN table -> 0..(CursorSpan - 1)] /\ wraps \in [DOMAIN table -> Nat]
        /\ DOMAIN picks = DOMAIN table /\ picks[r] \in [1..n -> Nat] /\ CursorSpan \in Nat \ {0}
    BY <1>2, <1>3, RoutingConstants, Zenon DEF EvenInv, CursorSpan
  <1> HIDE DEF r, n
  <1>7. picks'[r] = [picks[r] EXCEPT ![i + 1] = @ + 1]
    BY <1>2, <1>4, <1>6
  <1>8. picks'[r] \in [1..n -> Nat]
    <2>1. PICK f \in [1..n -> Nat] : f = picks[r]
      BY <1>6, Zenon
    <2>2. PICK z : z = i + 1
      BY Zenon
    <2>3. CASE z \in 1..n
      <3>1. f[z] + 1 \in Nat
        BY <2>3
      <3> QED
        BY <1>7, <2>1, <2>2, <3>1, Zenon
    <2>4. CASE z \notin 1..n
      <3>1. [f EXCEPT ![z] = f[z] + 1] = f
        BY <2>4
      <3> QED
        BY <1>7, <2>1, <2>2, <3>1, Zenon
    <2> QED
      BY <2>3, <2>4
  <1>9. DOMAIN picks' = DOMAIN table /\ \A x \in DOMAIN table : x # r => picks'[x] = picks[x]
    BY <1>4, <1>6, Zenon
  <1>10. \A x \in DOMAIN table : picks'[x] \in [DOMAIN table[x].outs -> Nat]
    BY <1>3, <1>8, <1>9, Zenon DEF EvenInv
  <1>11. CASE Balances(r)
    <2>1. n > 1 /\ table[r].mode = "roundRobin"
      BY <1>11, Zenon DEF Balances, n
    <2>2. /\ cursor' = [cursor EXCEPT ![r] = (@ + 1) % CursorSpan]
          /\ wraps' = [wraps EXCEPT ![r] = IF cursor'[r] = 0 THEN @ + 1 ELSE @]
      BY <1>5, <2>1, Zenon DEF Advance, CursorSpan, n
    <2>3. n # 1
      BY <2>1
    <2>4. i = cursor[r] % n
      <3>1. i \in Pick(r, n, q)
        BY <1>4, <2>3, Zenon
      <3> QED
        BY <2>1, <3>1 DEF Pick
    <2>5. /\ cursor[r] \in 0..(CursorSpan - 1) /\ wraps[r] \in Nat
          /\ cursor'[r] = (cursor[r] + 1) % CursorSpan
          /\ wraps'[r] = IF cursor'[r] = 0 THEN wraps[r] + 1 ELSE wraps[r]
      BY <1>2, <1>6, <2>2
    <2>6. cursor'[r] \in 0..(CursorSpan - 1) /\ wraps'[r] \in Nat
      BY <1>6, <2>5
    <2>7. /\ cursor' \in [DOMAIN table -> 0..(CursorSpan - 1)] /\ wraps' \in [DOMAIN table -> Nat]
          /\ \A x \in DOMAIN table : x # r => cursor'[x] = cursor[x] /\ wraps'[x] = wraps[x]
      BY <1>2, <1>6, <2>2, <2>6
    <2>8. EvenBut(cursor[r], n, picks[r], wraps[r])
      BY <1>2, <1>11, Zenon DEF EvenInv, Level, n
    <2>9. EvenBut(cursor'[r], n, picks'[r], wraps'[r])
      <3>1. PICK c \in 0..(CursorSpan - 1), w \in Nat, p \in [1..n -> Nat], M \in Nat \ {0} :
               c = cursor[r] /\ w = wraps[r] /\ p = picks[r] /\ M = CursorSpan
        BY <1>6, <2>5, Zenon
      <3>2. EvenBut((c + 1) % M, n, [p EXCEPT ![(c % n) + 1] = @ + 1], IF (c + 1) % M = 0 THEN w + 1 ELSE w)
        BY <1>3, <2>1, <2>8, <3>1, PickKeepsLevel, Zenon
      <3> QED
        BY <1>7, <2>4, <2>5, <3>1, <3>2, Zenon
    <2>10. \A x \in DOMAIN table : Balances(x) => EvenBut(cursor'[x], Len(table[x].outs), picks'[x], wraps'[x])
      BY <1>9, <2>7, <2>9, Zenon DEF EvenInv, Level, n
    <2> QED
      BY <1>9, <1>10, <2>7, <2>10, Zenon
  <1>12. CASE ~Balances(r)
    <2>1. cursor' = cursor /\ wraps' = wraps
      BY <1>5, <1>12, Zenon DEF Advance, Balances
    <2>2. \A x \in DOMAIN table : Balances(x) => EvenBut(cursor'[x], Len(table[x].outs), picks'[x], wraps'[x])
      BY <1>9, <1>12, <2>1, Zenon DEF EvenInv, Level
    <2> QED
      BY <1>6, <1>9, <1>10, <2>1, <2>2, Zenon
  <1> QED
    BY <1>11, <1>12

\* Only an arriving flow touches the routing state.
LEMMA RoutingSteps ==
  ASSUME [DNext]_dvars
  PROVE  UNCHANGED evars \/ (Next /\ UNCHANGED config)
  <1>1. CASE Arrive
    BY <1>1, RoutedToAnOutbound, Zenon DEF Arrive, ENext
  <1>2. ASSUME NEW k \in DOMAIN conns, Client(k) PROVE UNCHANGED evars
    BY <1>2, Zenon DEF Client, Resolving, Answer, Insert, Connect, SocksMethod, SocksPassed, SocksReply, Up, Down, Stop
  <1>3. CASE ZoneChange \/ Tick
    BY <1>3, Zenon DEF ZoneChange, Tick
  <1>4. CASE SrvSocks \/ SrvSs \/ SrvRead \/ SrvSend \/ SrvEnd \/ Deliver
    BY <1>4, Zenon DEF SrvSocks, SrvSs, SrvRead, SrvSend, SrvEnd, Deliver
  <1>5. CASE UNCHANGED dvars
    BY <1>5, Zenon DEF dvars
  <1> QED
    BY <1>1, <1>2, <1>3, <1>4, <1>5, Zenon DEF DNext

\* Every step keeps the balancers level.
LEMMA EvenNext ==
  ASSUME EvenInv, [DNext]_dvars
  PROVE  EvenInv'
  <1>1. UNCHANGED config /\ (UNCHANGED <<cursor, wraps, picks>> \/ \E q : RouteOuts(q))
    <2>1. CASE UNCHANGED evars
      BY <2>1, Zenon DEF evars, vars, config
    <2>2. CASE Next /\ UNCHANGED config
      BY <2>2, Zenon DEF Next, Flow, RouteDefault, RouteNoOuts
    <2> QED
      BY <2>1, <2>2, RoutingSteps, Zenon
  <1>2. UNCHANGED <<use, table>>
    BY <1>1, Zenon DEF config
  <1>3. CASE ~Given
    BY <1>2, <1>3, Zenon DEF EvenInv, Given
  <1>4. CASE Given /\ UNCHANGED <<cursor, wraps, picks>>
    BY <1>2, <1>4, Zenon DEF EvenInv, Given, Level, Balances
  <1>5. ASSUME Given, NEW q, RouteOuts(q) PROVE EvenInv'
    <2>1. /\ cursor' \in [DOMAIN table -> 0..(CursorSpan - 1)] /\ wraps' \in [DOMAIN table -> Nat]
          /\ DOMAIN picks' = DOMAIN table /\ \A r \in DOMAIN table : picks'[r] \in [DOMAIN table[r].outs -> Nat]
          /\ \A r \in DOMAIN table :
                Balances(r) => EvenBut(cursor'[r], Len(table[r].outs), picks'[r], wraps'[r])
      BY <1>5, EvenPick, Zenon
    <2>2. \A r \in DOMAIN table : Level(r)'
      BY <1>2, <2>1, Zenon DEF Level, Balances
    <2> QED
      BY <1>2, <1>5, <2>1, <2>2, Zenon DEF EvenInv, Given, CursorSpan
  <1> QED
    BY <1>1, <1>3, <1>4, <1>5, Zenon

\* Fresh balancers are level.
LEMMA EvenStart == DInit => EvenInv
  <1> SUFFICES ASSUME DInit, Given PROVE EvenInv
    BY Zenon DEF EvenInv
  <1>1. use \in Uses /\ table \in Tables[use] /\ Fresh
    BY Zenon DEF DInit, EInit, Loaded, AppLoaded, Init, Given
  <1>2. \A r \in DOMAIN table : Len(table[r].outs) \in Nat /\ DOMAIN table[r].outs = 1..Len(table[r].outs)
    BY <1>1, RoutingConstants, Zenon
  <1>3. CursorSpan \in Nat \ {0}
    BY RoutingConstants, Zenon DEF CursorSpan
  <1>4. 0 \in 0..(CursorSpan - 1) /\ 0 \in Nat
    BY <1>3
  <1>5. /\ cursor \in [DOMAIN table -> 0..(CursorSpan - 1)] /\ wraps \in [DOMAIN table -> Nat]
        /\ DOMAIN picks = DOMAIN table /\ \A r \in DOMAIN table : picks[r] \in [DOMAIN table[r].outs -> Nat]
    BY <1>1, <1>4 DEF Fresh
  <1>6. ASSUME NEW r \in DOMAIN table, Balances(r)
        PROVE  EvenBut(cursor[r], Len(table[r].outs), picks[r], wraps[r])
    <2>1. PICK n \in Nat : n = Len(table[r].outs) /\ n > 1 /\ DOMAIN table[r].outs = 1..n
      BY <1>2, <1>6, Zenon DEF Balances
    <2>2. cursor[r] = 0 /\ wraps[r] = 0 /\ picks[r] = [i \in 1..n |-> 0]
      BY <1>1, <2>1 DEF Fresh
    <2>3. EvenBut(0, n, [i \in 1..n |-> 0], 0)
      <3>0. \A m \in Nat : m > 1 => 0 % m = 0
        OBVIOUS
      <3>1. 0 % n = 0
        BY <2>1, <3>0, Zenon
      <3>2. \A i \in 1..n : Served(0, n, i) = 0
        BY <3>1 DEF Served
      <3> QED
        BY <3>2 DEF EvenBut
    <2> QED
      BY <2>1, <2>2, <2>3, Zenon
  <1> QED
    BY <1>1, <1>5, <1>6, Zenon DEF EvenInv, Level

\* Round robin is even (LoadBalancer::pick, whose cursor is a fetch_add that
\* wraps): the tags of a rule differ by at most one, plus one for every wrap,
\* in every deployment that is given its table.  The tables the front ends
\* compile have no balanced rule.
THEOREM RoundsAreEven == DSpec => [](use \notin {EgressUse, AppUse} => RoundRobinIsEven)
  <1>1. EvenInv => (use \notin {EgressUse, AppUse} => RoundRobinIsEven)
    <2> SUFFICES ASSUME EvenInv, Given, NEW r \in DOMAIN table, Balances(r)
                 PROVE  \A i, j \in DOMAIN table[r].outs : picks[r][i] <= picks[r][j] + 1 + wraps[r]
      BY Zenon DEF RoundRobinIsEven, Given, Balances
    <2>1. PICK n \in Nat : n = Len(table[r].outs) /\ DOMAIN table[r].outs = 1..n
      BY TablesAreTables, Zenon
    <2>2. picks[r] \in [1..n -> Nat] /\ wraps[r] \in Nat /\ EvenBut(cursor[r], n, picks[r], wraps[r])
      BY <2>1, Zenon DEF EvenInv, Level
    <2> QED
      BY <2>1, <2>2, LevelIsEven, Zenon
  <1> QED
    BY <1>1, EvenStart, EvenNext, PTL DEF DSpec

-----------------------------------------------------------------------------
(* The decision.                                                           *)

DecidedBy(q, d) ==
    IF FirstMatch(q) = 0 THEN d = Freedom
    ELSE LET outs == table[FirstMatch(q)].outs IN
         (outs = <<>> /\ d = Blackhole) \/ \E i \in DOMAIN outs : d = Outbound(outs[i])
Decided == Given => (query # None => DecidedBy(query, decision))

\* LoadBalancer::pick returns an index of its tags.
LEMMA PicksATag ==
  ASSUME EvenInv, Given, NEW q \in Queries[use], NEW r \in DOMAIN table, NEW n \in Nat, n > 0,
         NEW i \in IF n = 1 THEN {0} ELSE Pick(r, n, q)
  PROVE  i + 1 \in 1..n
  <1>1. table[r].mode \in {"random", "roundRobin", "userAuthHash"}
    BY TablesAreTables, Zenon
  <1>2. q.hash \in Nat \union {None} /\ cursor[r] \in 0..(CursorSpan - 1) /\ CursorSpan \in Nat
    BY RoutingConstants, Zenon DEF EvenInv, CursorSpan
  <1>3. cursor[r] \in Nat
    BY <1>2
  <1>4. \A c \in Nat : c % n \in 0..(n - 1)
    OBVIOUS
  <1>5. CASE n = 1
    BY <1>5
  <1>6. CASE n # 1
    <2>1. i \in Pick(r, n, q)
      BY <1>6, Zenon
    <2>2. i \in 0..(n - 1)
      <3>1. CASE table[r].mode = "random"
        BY <2>1, <3>1 DEF Pick
      <3>2. CASE table[r].mode = "roundRobin"
        <4>1. i = cursor[r] % n
          BY <2>1, <3>2 DEF Pick
        <4> QED
          BY <1>3, <1>4, <4>1, Zenon
      <3>3. CASE table[r].mode = "userAuthHash"
        <4>1. i = (IF q.hash = None THEN 0 ELSE q.hash) % n
          BY <2>1, <3>3 DEF Pick
        <4>2. (IF q.hash = None THEN 0 ELSE q.hash) \in Nat
          BY <1>2
        <4> QED
          BY <1>4, <4>1, <4>2, Zenon
      <3> QED
        BY <1>1, <3>1, <3>2, <3>3
    <2> QED
      BY <2>2
  <1> QED
    BY <1>5, <1>6

\* Every step decides a flow by the first rule that matches it.
LEMMA DecideNext ==
  ASSUME EvenInv, Decided, [DNext]_dvars
  PROVE  Decided'
  <1>1. CASE UNCHANGED evars
    <2>1. UNCHANGED <<use, table, query, decision>>
      BY <1>1, Zenon DEF evars, vars, config
    <2>2. \A q : FirstMatch(q)' = FirstMatch(q)
      BY <2>1 DEF FirstMatch, RuleMatches, CondMatches
    <2> QED
      BY <2>1, <2>2, Zenon DEF Decided, Given, DecidedBy
  <1>2. CASE Next /\ UNCHANGED config
    <2>1. UNCHANGED <<use, table>>
      BY <1>2, Zenon DEF config
    <2>2. \A q : FirstMatch(q)' = FirstMatch(q)
      BY <2>1 DEF FirstMatch, RuleMatches, CondMatches
    <2>3. PICK q \in Queries[use] : Flow(q)
      BY <1>2, Zenon DEF Next
    <2>4. query' = q /\ (RouteDefault(q) \/ RouteNoOuts(q) \/ RouteOuts(q))
      BY <2>3, Zenon DEF Flow
    <2>5. ASSUME Given PROVE DecidedBy(q, decision')
      <3>1. CASE RouteDefault(q)
        BY <3>1, Zenon DEF RouteDefault, Decide, DecidedBy
      <3>2. CASE RouteNoOuts(q)
        BY <3>2, Zenon DEF RouteNoOuts, Decide, DecidedBy
      <3>3. CASE RouteOuts(q)
        <4> DEFINE r == FirstMatch(q)
                   n == Len(table[r].outs)
        <4>1. r # 0 /\ table[r].outs # <<>>
          BY <3>3, Zenon DEF RouteOuts
        <4>2. r \in DOMAIN table
          BY <2>5, <4>1, TablesAreTables, FirstMatchIsFirst, Zenon
        <4>3. n \in Nat /\ DOMAIN table[r].outs = 1..n
          BY <2>5, <4>2, TablesAreTables, Zenon
        <4>4. PICK i \in IF n = 1 THEN {0} ELSE Pick(r, n, q) : decision' = Outbound(table[r].outs[i + 1])
          BY <3>3, Zenon DEF RouteOuts, Decide
        <4> HIDE DEF r, n
        <4>5. CASE n > 0
          <5>1. i + 1 \in DOMAIN table[r].outs
            BY <2>5, <4>2, <4>3, <4>4, <4>5, PicksATag, Zenon
          <5> QED
            BY <4>1, <4>4, <5>1, Zenon DEF DecidedBy, r
        <4>6. n = 0 => table[r].outs = <<>>
          BY <4>3 DEF n
        <4> QED
          BY <4>1, <4>3, <4>5, <4>6
      <3> QED
        BY <2>4, <3>1, <3>2, <3>3, Zenon
    <2> QED
      BY <2>1, <2>2, <2>4, <2>5, Zenon DEF Decided, Given, DecidedBy
  <1> QED
    BY <1>1, <1>2, RoutingSteps, Zenon

\* A flow takes the default branch only when no rule matches.
LEMMA DefaultIsLast ==
  ASSUME NEW q, Len(table) \in Nat, DOMAIN table = 1..Len(table), FirstMatch(q) = 0, NEW r \in DOMAIN table
  PROVE  ~RuleMatches(table[r], q)
  <1> DEFINE m == {x \in DOMAIN table : RuleMatches(table[x], q)}
  <1> SUFFICES ASSUME m # {} PROVE FALSE
    BY Zenon
  <1>1. m \in SUBSET Nat /\ 0 \notin m
    OBVIOUS
  <1>2. \E x \in m : \A s \in m : x <= s
    BY <1>1, Least, Zenon
  <1>3. FirstMatch(q) \in m
    BY <1>2, Zenon DEF FirstMatch
  <1> QED
    BY <1>1, <1>3, Zenon

\* The conditions of the table hold of the flow just when they are documented
\* to (DomainSuffixMatch and Cidr::contains against the labels of a name and
\* the number of an address).
MatchersAgree ==
    \A r \in DOMAIN table : \A i \in DOMAIN table[r].conds :
        CondMatches(table[r].conds[i], query) <=> Means(table[r].conds[i], query)

\* First match wins: with matchers that mean what they are documented to, a
\* flow is decided by the first rule meant to match it (RouteTable::route,
\* MatchRule::decide), in every deployment that is given its table.
THEOREM FirstRuleDecides == DSpec => [](use \notin {EgressUse, AppUse} /\ MatchersAgree => FirstMatchWins)
  <1>1. ASSUME EvenInv, Decided, Given, MatchersAgree PROVE FirstMatchWins
    <2> SUFFICES ASSUME query # None PROVE FirstMatchWins
      BY Zenon DEF FirstMatchWins
    <2>1. Len(table) \in Nat /\ DOMAIN table = 1..Len(table)
      BY <1>1, TablesAreTables, Zenon
    <2>2. \A r \in DOMAIN table : RuleMatches(table[r], query) <=> MeantRule(r, query)
      BY <1>1, Zenon DEF MatchersAgree, RuleMatches, MeantRule
    <2>3. DecidedBy(query, decision)
      BY <1>1, Zenon DEF Decided
    <2>4. CASE FirstMatch(query) = 0
      <3>1. \A r \in DOMAIN table : ~MeantRule(r, query)
        BY <2>1, <2>2, <2>4, DefaultIsLast, Zenon
      <3> QED
        BY <2>3, <2>4, <3>1, Zenon DEF FirstMatchWins, DecidedBy
    <2>5. CASE FirstMatch(query) # 0
      <3>1. PICK r \in DOMAIN table : r = FirstMatch(query) /\ MeantRule(r, query)
        BY <2>1, <2>2, <2>5, FirstMatchIsFirst, Zenon
      <3>2. \A s \in DOMAIN table : MeantRule(s, query) => r <= s
        BY <2>1, <2>2, <2>5, <3>1, FirstMatchIsFirst, Zenon
      <3>3. \A s \in 1..(r - 1) : s \in DOMAIN table /\ ~(r <= s)
        BY <2>1, <3>1
      <3>4. \A s \in 1..(r - 1) : ~MeantRule(s, query)
        BY <3>2, <3>3, Zenon
      <3>5. \/ table[r].outs = <<>> /\ decision = Blackhole
            \/ \E i \in DOMAIN table[r].outs : decision = Outbound(table[r].outs[i])
        BY <2>3, <2>5, <3>1, Zenon DEF DecidedBy
      <3> QED
        BY <3>1, <3>4, <3>5, Zenon DEF FirstMatchWins
    <2> QED
      BY <2>4, <2>5
  <1>2. EvenInv /\ Decided => (use \notin {EgressUse, AppUse} /\ MatchersAgree => FirstMatchWins)
    BY <1>1, Zenon DEF Given
  <1>3. DInit => Decided
    BY Zenon DEF DInit, EInit, Loaded, AppLoaded, Init, Fresh, Decided
  <1> QED
    BY <1>2, <1>3, EvenStart, EvenNext, DecideNext, PTL DEF DSpec
=============================================================================
