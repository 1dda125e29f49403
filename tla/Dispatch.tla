------------------------------ MODULE Dispatch ------------------------------
(***************************************************************************)
(* What OutboundDispatch starts for a routed flow: the outbound process    *)
(* (proxy::outbound), the system dialer with its cached resolver           *)
(* (kernel::runtime::dialer, dns) and, for the upstream outbounds, the     *)
(* SOCKS5 or Shadowsocks client exchange.                                  *)
(*                                                                         *)
(* Two deployments follow their flows: DnsUse has several flows that share *)
(* the resolver, UpstreamUse one flow through an upstream server.  The     *)
(* resolver behind the cache, the hosts that answer a connect and the      *)
(* upstream server are external.  A copied stream is the business of Relay: *)
(* here only its first bytes after the handshake are followed.             *)
(***************************************************************************)
EXTENDS Egress, Headers, Integers

CONSTANTS
    DnsUse, UpstreamUse,
    ByteOf,       \* the bytes of the characters of a name
    Zones,        \* the answers of the inner resolver: host -> a set of
                  \* sequences of addresses; <<>> is a failed lookup
    Ttl, MaxNow,  \* time_to_live of the cache, and the bound on ticks
    Server,       \* where the upstream server listens
    Login,        \* kind of upstream outbound -> its user, 0 for none
    AccountSets,  \* the accounts the upstream server may have
    Bounds,       \* the bound addresses it may reply with
    Uplink, Downlink,   \* what the two ends send once connected
    MySalt, HisSalt     \* the salts of the two directions

VARIABLES
    conns,   \* the outbound processes, in order of arrival
    cache,   \* CachedResolver.cache: host -> [ips, at], or None
    zone,    \* what the inner resolver answers now
    now,
    heard,   \* every answer that came in: {<<host, ips, time>>}
    wire     \* the connection to the upstream server

dns == <<cache, zone, now, heard>>
dvars == <<evars, conns, dns, wire>>

Hosts == DOMAIN Zones

\* Destination.
Dest(q) ==
    [addr |-> IF q.host # None THEN Domain([i \in DOMAIN q.host |-> ByteOf[q.host[i]]]) ELSE Ip(q.ip),
     port |-> q.port]

\* A name has its answers, <<>> if nothing else, and None is no address.
Known(d) == IF d.addr.kind = "ip" THEN d.addr.bytes # None ELSE d.addr.kind = "domain" /\ d.addr.bytes \in Hosts

ASSUME DispatchConstants ==
    /\ Ttl \in Nat \ {0} /\ MaxNow \in Nat
    /\ \A h \in Hosts : \A z \in Zones[h] :
          Len(z) \in Nat /\ DOMAIN z = 1..Len(z) /\ \A i \in DOMAIN z : z[i] # None
    /\ Known(Server) /\ \A q \in Queries[DnsUse] \union Queries[UpstreamUse] : Known(Dest(q))

Silent ==
    [out |-> <<>>, read |-> 0,                \* written, and read by the server
     reply |-> <<>>, arrived |-> 0, pos |-> 0,  \* replied, in, and consumed
     accounts |-> {}, eof |-> FALSE, srv |-> "hello", asked |-> None, login |-> 0,
     got |-> <<>>, gave |-> <<>>, sent |-> 0, ctr |-> <<0, 0>>, down |-> <<>>]

DInit ==
    /\ EInit
    /\ conns = <<>>
    /\ wire \in {[Silent EXCEPT !.accounts = a] : a \in IF use = UpstreamUse THEN AccountSets ELSE {{}}}
    /\ cache = [h \in Hosts |-> None] /\ zone \in [Hosts -> UNION {Zones[h] : h \in Hosts}]
    /\ \A h \in Hosts : zone[h] \in Zones[h]
    /\ use # DnsUse => zone = [h \in Hosts |-> CHOOSE z \in Zones[h] : TRUE]
    /\ now = 0 /\ heard = {}

\* Outbound::process: what to dial, or nothing.
Process(q, kind) ==
    LET to == IF kind \in DOMAIN Login THEN Server ELSE Dest(q)
        dropped == kind = "block" \/ (kind = "direct" /\ q.net = "unknown")
    IN  [q |-> q, kind |-> kind, to |-> to, st |-> IF dropped THEN "dropped" ELSE "resolve",
         ips |-> <<>>, at |-> 0, tried |-> 0, peer |-> None]

\* ProxyService::call: route, then dispatch.
Arrive ==
    /\ ENext
    /\ conns' = IF use \in {DnsUse, UpstreamUse} /\ sink' # None
                THEN Append(conns, Process(query', outbounds[sink'])) ELSE conns
    /\ UNCHANGED <<dns, wire>>

Go(k, st) == conns' = [conns EXCEPT ![k].st = st]
Dial(k, ips) == conns' = [conns EXCEPT ![k].st = "dial", ![k].ips = ips, ![k].at = now]

-----------------------------------------------------------------------------
(* SystemDialer::dial_tcp over CachedResolver::resolve.                    *)

HostOf(k) == conns[k].to.addr.bytes
Live(h) == cache[h] # None /\ now < cache[h].at + Ttl

\* Mutant: an entry lives on for as long as it is used.
ResolveIdle(k) ==
    /\ conns[k].st = "resolve"
    /\ IF conns[k].to.addr.kind = "ip" THEN Dial(k, <<conns[k].to.addr.bytes>>) /\ UNCHANGED cache
       ELSE IF Live(HostOf(k))
            THEN /\ Dial(k, cache[HostOf(k)].ips)
                 /\ cache' = [cache EXCEPT ![HostOf(k)].at = now]
            ELSE Go(k, "lookup") /\ UNCHANGED cache
    /\ UNCHANGED <<evars, zone, now, heard, wire>>

\* resolve_addr: an address as it is, a name from the cache if it is there.
Resolving(k) ==
    /\ conns[k].st = "resolve"
    /\ IF conns[k].to.addr.kind = "ip" THEN Dial(k, <<conns[k].to.addr.bytes>>)
       ELSE IF Live(HostOf(k)) THEN Dial(k, cache[HostOf(k)].ips)
       ELSE Go(k, "lookup")
    /\ UNCHANGED <<evars, dns, wire>>

\* lookup_ip: the inner resolver answers; the answer is under way for a while.
Answer(k) ==
    /\ conns[k].st = "lookup"
    /\ conns' = [conns EXCEPT ![k].st = "answer", ![k].ips = zone[HostOf(k)]]
    /\ UNCHANGED <<evars, dns, wire>>

\* Only an answer with records is cached.
Insert(k) ==
    /\ conns[k].st = "answer"
    /\ IF conns[k].ips = <<>> THEN Go(k, "failed") /\ UNCHANGED <<cache, heard>>
       ELSE /\ Dial(k, conns[k].ips)
            /\ cache' = [cache EXCEPT ![HostOf(k)] = [ips |-> conns[k].ips, at |-> now]]
            /\ heard' = heard \union {<<HostOf(k), conns[k].ips, now>>}
    /\ UNCHANGED <<evars, zone, now, wire>>

Send(w, bytes) == [w EXCEPT !.out = @ \o bytes]

\* The first bytes on a connection: the SOCKS greeting; the salt and the
\* address, sealed as the first chunk.
Opening(k) ==
    LET c == conns[k] IN
    CASE c.kind = "ss" ->
             [Send(wire, MySalt \o SsWriteChunk(Login[c.kind], MySalt, 0, Write(SHADOWSOCKS, Dest(c.q))))
                EXCEPT !.ctr[1] = 2]
      [] c.kind \in DOMAIN Login /\ c.kind # "ss" ->
             Send(wire, <<5, 1, IF Login[c.kind] = 0 THEN 0 ELSE 2>>)
      [] OTHER -> wire

\* The addresses in turn; the first that accepts.
Connect(k) ==
    LET c == conns[k] IN
    /\ c.st = "dial"
    /\ \/ c.tried = Len(c.ips) /\ Go(k, "failed") /\ UNCHANGED wire
       \/ /\ c.tried < Len(c.ips)
          /\ conns' = [conns EXCEPT ![k].tried = @ + 1] /\ UNCHANGED wire
       \/ /\ c.tried < Len(c.ips)
          /\ conns' = [conns EXCEPT ![k].peer = c.ips[c.tried + 1],
                                    ![k].st = IF c.kind \in DOMAIN Login /\ c.kind # "ss" THEN "greet" ELSE "relay"]
          /\ wire' = Opening(k)
    /\ UNCHANGED <<evars, dns>>

\* The world: records change and time passes.
ZoneChange ==
    /\ use = DnsUse
    /\ \E h \in Hosts : \E z \in Zones[h] \ {zone[h]} : zone' = [zone EXCEPT ![h] = z]
    /\ UNCHANGED <<evars, conns, cache, now, heard, wire>>
Tick ==
    /\ use = DnsUse /\ now < MaxNow /\ now' = now + 1
    /\ UNCHANGED <<evars, conns, cache, zone, heard, wire>>

-----------------------------------------------------------------------------
(* The upstream client.  read_exact: the bytes not asked for stay unread.  *)

Replied == SubSeq(wire.reply, wire.pos + 1, wire.arrived)
Consume(w, r) == [w EXCEPT !.pos = @ + Len(Replied) - Len(r.rest)]
Stuck(r) == r.st = "bad" \/ (r.st = "truncated" /\ wire.eof /\ wire.arrived = Len(wire.reply))

\* Mutant: the server is asked for itself.
AskServer(k) == <<5, 1, 0>> \o Write(SOCKS, conns[k].to)

Ask(k) == <<5, 1, 0>> \o Write(SOCKS, Dest(conns[k].q))

\* socks5_handshake: the method, the password, the reply.
SocksMethod(k) ==
    LET r == Take(Replied, 2)
        u == Login[conns[k].kind]
    IN  /\ conns[k].st = "greet"
        /\ \/ Stuck(r) /\ Go(k, "failed") /\ UNCHANGED wire
           \/ /\ r.st = "ok"
              /\ CASE r.val # <<5, IF u = 0 THEN 0 ELSE 2>> -> Go(k, "failed") /\ wire' = Consume(wire, r)
                   [] r.val = <<5, 0>> /\ u = 0 -> Go(k, "ask") /\ wire' = Send(Consume(wire, r), Ask(k))
                   [] OTHER -> Go(k, "auth") /\ wire' = Send(Consume(wire, r), <<1, 1, u, 1, u>>)
        /\ UNCHANGED <<evars, dns>>

SocksPassed(k) ==
    LET r == Take(Replied, 2) IN
    /\ conns[k].st = "auth"
    /\ \/ Stuck(r) /\ Go(k, "failed") /\ UNCHANGED wire
       \/ /\ r.st = "ok"
          /\ IF r.val = <<1, 0>> THEN Go(k, "ask") /\ wire' = Send(Consume(wire, r), Ask(k))
             ELSE Go(k, "failed") /\ wire' = Consume(wire, r)
    /\ UNCHANGED <<evars, dns>>

\* Mutant: the port behind a bound domain is not read.
BoundShort(buf) ==
    Then(Take(buf, 4), LAMBDA head, r1 :
    IF head[1] # 5 \/ head[2] # 0 THEN Bad ELSE
    CASE head[4] = 1 -> Take(r1, V4Len + 2)
      [] head[4] = 4 -> Take(r1, V6Len + 2)
      [] head[4] = 3 -> Then(TakeU8(r1), LAMBDA n, r2 : Take(r2, n))
      [] OTHER -> Bad)

\* The head of the reply and discard_socks_bound_addr.
BoundAddr(buf) ==
    Then(Take(buf, 4), LAMBDA head, r1 :
    IF head[1] # 5 \/ head[2] # 0 THEN Bad ELSE
    CASE head[4] = 1 -> Take(r1, V4Len + 2)
      [] head[4] = 4 -> Take(r1, V6Len + 2)
      [] head[4] = 3 -> Then(TakeU8(r1), LAMBDA n, r2 : Take(r2, n + 2))
      [] OTHER -> Bad)

SocksReply(k) ==
    LET r == BoundAddr(Replied) IN
    /\ conns[k].st = "ask"
    /\ \/ Stuck(r) /\ Go(k, "failed") /\ UNCHANGED wire
       \/ r.st = "ok" /\ Go(k, "relay") /\ wire' = Consume(wire, r)
    /\ UNCHANGED <<evars, dns>>

Relaying(k) == conns[k].kind \in DOMAIN Login /\ conns[k].st = "relay"

\* One chunk of the link goes up.
Up(k) ==
    LET c == conns[k]
        piece == <<Uplink[wire.sent + 1]>>
    IN  /\ Relaying(k) /\ wire.sent < Len(Uplink)
        /\ wire' = IF c.kind = "ss"
                   THEN [Send(wire, SsWriteChunk(Login[c.kind], MySalt, wire.ctr[1], piece))
                           EXCEPT !.ctr[1] = @ + 2, !.sent = @ + 1]
                   ELSE [Send(wire, piece) EXCEPT !.sent = @ + 1]
        /\ UNCHANGED <<evars, conns, dns>>

\* What the server sends comes down: as it is, or chunk by chunk behind the
\* salt.  An end of the stream where a length was to come ends the relay.
DownPart(k) ==
    LET u == Login[conns[k].kind] IN
    IF conns[k].kind # "ss" THEN IF Replied = <<>> THEN Truncated ELSE Ok(Replied, <<>>)
    ELSE IF wire.pos = 0 THEN Then(Take(Replied, Len(HisSalt)), LAMBDA salt, rest : Ok(<<>>, rest))
    ELSE SsReadChunk(Replied, u, SubSeq(wire.reply, 1, Len(HisSalt)), wire.ctr[2])
Down(k) ==
    LET r == DownPart(k) IN
    /\ Relaying(k)
    /\ \/ Stuck(r) /\ Go(k, "drained") /\ UNCHANGED wire
       \/ /\ r.st = "ok" /\ UNCHANGED conns
          /\ wire' = [Consume(wire, r) EXCEPT !.down = @ \o r.val,
                                              !.ctr[2] = IF r.val = <<>> THEN @ ELSE @ + 2]
    /\ UNCHANGED <<evars, dns>>

\* The uplink ends, an upstream write fails, the link's reader is gone or the
\* relay is idle: the Shadowsocks relay returns whatever the other direction
\* still has to do.
Stop(k) ==
    /\ Relaying(k) /\ conns[k].kind = "ss" /\ Go(k, "stopped")
    /\ UNCHANGED <<evars, dns, wire>>

-----------------------------------------------------------------------------
(* The upstream server (external): the other half of the exchange.         *)

Inbox == SubSeq(wire.out, wire.read + 1, Len(wire.out))
Reads(w, r) == [w EXCEPT !.read = @ + Len(Inbox) - Len(r.rest)]
Reply(w, bytes) == [w EXCEPT !.reply = @ \o bytes]
Upstream == conns[1].kind
Serving == use = UpstreamUse /\ conns # <<>> /\ conns[1].peer # None /\ Upstream \in DOMAIN Login

SrvSocks ==
    /\ Serving /\ Upstream # "ss" /\ ~wire.eof
    /\ \/ LET r == SocksGreeting(Inbox, wire.accounts) IN
          /\ wire.srv = "hello" /\ r.st = "ok"
          /\ wire' = [Reply(Reads(wire, r), <<5, IF r.val THEN Method(wire.accounts) ELSE 255>>)
                        EXCEPT !.srv = IF ~r.val THEN "closed" ELSE IF wire.accounts = {} THEN "ask" ELSE "auth"]
       \/ LET r == SocksUserPass(Inbox, wire.accounts) IN
          /\ wire.srv = "auth" /\ r.st = "ok"
          /\ wire' = [Reply(Reads(wire, r), <<1, IF r.val THEN 0 ELSE 1>>)
                        EXCEPT !.srv = IF r.val THEN "ask" ELSE "closed", !.login = Inbox[3]]
       \/ LET r == SocksRequest(Inbox) IN
          /\ wire.srv = "ask" /\ r.st = "ok"
          /\ \E b \in Bounds, code \in {0, 1} :
                wire' = [Reply(Reads(wire, r), <<5, code, 0>> \o Write(SOCKS, b))
                           EXCEPT !.srv = IF code = 0 THEN "open" ELSE "closed", !.asked = r.val.to]
    /\ UNCHANGED <<evars, conns, dns>>

SrvSs ==
    /\ Serving /\ Upstream = "ss" /\ ~wire.eof /\ wire.srv = "hello"
    /\ LET r == SsReadChunk(SubSeq(Inbox, Len(MySalt) + 1, Len(Inbox)), Login["ss"], SubSeq(Inbox, 1, Len(MySalt)), 0)
       IN  /\ r.st = "ok"
           /\ wire' = [Reads(wire, r) EXCEPT !.srv = "open", !.asked = Read(SHADOWSOCKS, r.val).val, !.login = Login["ss"]]
    /\ UNCHANGED <<evars, conns, dns>>

SrvRead ==
    /\ Serving /\ wire.srv = "open" /\ Inbox # <<>>
    /\ LET n == Len(wire.got)
           r == IF Upstream = "ss" THEN SsReadChunk(Inbox, Login["ss"], MySalt, 2 * n + 2) ELSE Ok(Inbox, <<>>)
       IN  r.st = "ok" /\ wire' = [Reads(wire, r) EXCEPT !.got = @ \o r.val]
    /\ UNCHANGED <<evars, conns, dns>>

SrvSend ==
    /\ Serving /\ wire.srv = "open" /\ ~wire.eof /\ Len(wire.gave) < Len(Downlink)
    /\ LET n == Len(wire.gave)
           b == <<Downlink[n + 1]>>
       IN  wire' = [Reply(wire, IF Upstream # "ss" THEN b
                                ELSE (IF n = 0 THEN HisSalt ELSE <<>>) \o SsWriteChunk(Login["ss"], HisSalt, 2 * n, b))
                      EXCEPT !.gave = @ \o b]
    /\ UNCHANGED <<evars, conns, dns>>

SrvEnd ==
    /\ Serving /\ ~wire.eof /\ wire' = [wire EXCEPT !.eof = TRUE]
    /\ UNCHANGED <<evars, conns, dns>>

\* The reply comes in pieces.
Deliver ==
    /\ Serving
    /\ \E n \in (wire.arrived + 1)..Len(wire.reply) : wire' = [wire EXCEPT !.arrived = n]
    /\ UNCHANGED <<evars, conns, dns>>

-----------------------------------------------------------------------------
Client(k) ==
    \/ Resolving(k) \/ Answer(k) \/ Insert(k) \/ Connect(k)
    \/ SocksMethod(k) \/ SocksPassed(k) \/ SocksReply(k) \/ Up(k) \/ Down(k) \/ Stop(k)

DNext ==
    \/ Arrive \/ \E k \in DOMAIN conns : Client(k)
    \/ ZoneChange \/ Tick
    \/ SrvSocks \/ SrvSs \/ SrvRead \/ SrvSend \/ SrvEnd \/ Deliver

DSpec == DInit /\ [][DNext]_dvars

-----------------------------------------------------------------------------
(* Properties.                                                             *)

\* A flow is connected to an address of an answer that came in for its host
\* less than the time to live before it was used, whatever the other flows
\* read from and write to the cache meanwhile; it gives up only after every
\* address refused, or when there was no answer.
DialsTheAnswer ==
    \A k \in DOMAIN conns :
        LET c == conns[k] IN
        c.st \notin {"dropped", "resolve", "lookup", "answer"} /\ c.ips # <<>> =>
            /\ c.to.addr.kind = "ip" => c.ips = <<c.to.addr.bytes>>
            /\ c.to.addr.kind = "domain" =>
                   \E t \in 0..c.at : <<c.to.addr.bytes, c.ips, t>> \in heard /\ c.at < t + Ttl
            /\ IF c.peer # None THEN c.peer = c.ips[c.tried + 1]
               ELSE c.st = "failed" => c.tried = Len(c.ips)

StartOf(s, t) == Len(s) <= Len(t) /\ SubSeq(t, 1, Len(s)) = s

\* The upstream server is asked for the flow's destination, by the configured
\* user, and reads the uplink from its first byte.
UpstreamAsAsked ==
    wire.asked # None =>
        /\ wire.asked = Dest(conns[1].q) /\ wire.login = Login[Upstream]
        /\ StartOf(wire.got, Uplink)

\* What comes down is what the server sent behind its reply, from the first
\* byte and in order, however the reply and the data were cut; all of it has
\* come down when the relay ends because the server did.
DownlinkIntact ==
    /\ StartOf(wire.down, wire.gave)
    /\ \A k \in DOMAIN conns : conns[k].st = "drained" => wire.down = wire.gave
=============================================================================
