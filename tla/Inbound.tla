------------------------------ MODULE Inbound -------------------------------
(***************************************************************************)
(* One accepted connection: the transport handshake, the decode of its     *)
(* protocol, and the uplink bytes or datagrams it hands on (the transport  *)
(* and proxy services of kernel::runtime::tree, Proxy::decode, and the     *)
(* datagram relays of proxy::udp and proxy::socks).                        *)
(*                                                                         *)
(* The client's bytes arrive in any segments; the user table may be        *)
(* swapped at any step; the client may close, and a deadline may pass.     *)
(***************************************************************************)
EXTENDS HttpHead, VmessCodec

CONSTANTS Intents,     \* what a client may ask for
          Tables,      \* user tables the panel may install
          Fixed,       \* dokodemo's destination
          MaxHeader,   \* read_header's limit on the bytes of a header
          MaxHead,     \* the limit of the upgrade request
          Sni,         \* a hello's first byte
          Answers,     \* datagrams targets send back
          MaxAnswers,  \* bound on how many they send
          MaxGrams     \* bound on the datagrams of an association

VARIABLES intent,   \* the client's request, fixed
          wire,     \* the bytes it is made of, fixed
          sent,     \* how many bytes of it are on the wire
          fin,      \* the client has closed its side
          pos,      \* how many bytes the server has read
          users,    \* the handler's user table
          always,   \* users in every table since the accept
          ever,     \* users in some table since the accept
          phase,    \* where the connection's task is
          acc,      \* bytes read and not yet consumed
          snap,     \* the table the decoder works with
          req,      \* the decoded request
          relay,    \* the spawned relay
          bridge,   \* directions of a VMess mux bridge still running
          up,       \* uplink bytes handed to the link, or to the mux demuxer
          ctr,      \* nonce counter of the sealed uplink
          peer,     \* a SOCKS association knows its client
          grams,    \* datagrams sent to targets
          heard,    \* datagrams received from targets
          down      \* what was written back for each of them

client == <<intent, wire, sent, fin>>
table == <<users, always, ever>>
data == <<relay, bridge, up, ctr>>
udp == <<peer, grams, heard, down>>
vars == <<client, pos, table, phase, acc, snap, req, data, udp>>

NoRequest == Request(0, "none", Nowhere)
Final == {"dialed", "dropped", "invalid", "eof", "timeout", "error"}

-----------------------------------------------------------------------------
(* The client: what it puts on the wire for what it wants.                 *)
\* (Shadowsocks clients may set high bits of the address type.)
Plain(i) == [Write(SHADOWSOCKS, i.to) EXCEPT ![1] = @ + 16 * i.addons] \o i.payload
SaltOf(i) == [k \in 1..SaltLen |-> 1]

\* The pieces the client cuts its Shadowsocks plaintext into.
Chunks(i) == <<SubSeq(Plain(i), 1, i.cut), SubSeq(Plain(i), i.cut + 1, Len(Plain(i)))>>
SsWire(i) == SaltOf(i) \o FlattenSeq([k \in 1..2 |-> SsWriteChunk(i.user, SaltOf(i), 2 * (k - 1), Chunks(i)[k])])

Command(i) ==
    CASE i.cmd = "tcp" -> 1
      [] i.cmd = "udp" -> IF i.proto \in {"vless", "vmess"} THEN 2 ELSE 3
      [] i.cmd = "mux" -> 3
      [] OTHER -> IF i.proto = "socks" THEN 2 ELSE 9
Body(i) ==
    IF i.cmd # "udp" \/ i.proto = "socks" THEN i.payload
    ELSE FlattenSeq([k \in DOMAIN i.packets |->
             IF i.proto = "trojan" THEN FrameTrojan(i.packets[k]) ELSE FrameVless(i.packets[k])])
HeadOf(lines) == FlattenSeq([k \in DOMAIN lines |-> <<lines[k]>> \o CRLF]) \o CRLF
\* (odd names a version or method byte that is not the one expected, or an
\* auth id that was seen before.)
Version(i, part, v) == IF i.odd = part THEN v + 1 ELSE v
Greeting(i) ==
    <<Version(i, "greeting", 5), 1, Version(i, "method", Method(i.accounts))>>
    \o (IF i.accounts = {} THEN <<>> ELSE <<Version(i, "userpass", 1), 1, i.user, 1, i.user>>)

\* A VMess client: nonce 1, body iv 2 and key 3; addons are its options, and
\* its payload comes in two chunks and the terminal one.
VmessPlain(i) ==
    LET h == <<Version(i, "version", 1), 2, 3, 8, i.addons, 16 + i.sec, 0, Command(i)>>
             \o (IF i.cmd = "mux" THEN <<>> ELSE Write(VLESS, i.to)) \o <<99>>
    IN  Append(h, Version(i, "fnv", Fnv(h)))
Pieces(i) == <<SubSeq(i.payload, 1, i.cut), SubSeq(i.payload, i.cut + 1, Len(i.payload)), <<>>>>
VmessWire(i) ==
    LET h == VmessPlain(i)
        b == BodyOf(2, 3, i.addons, i.sec)
    IN  Key(i.user) \o SealPart(i.user, 1, Version(i, "seal", 0), PutPort(Len(h))) \o <<1>> \o SealPart(i.user, 1, 1, h)
        \o FlattenSeq([k \in 1..3 |-> WriteChunk(b, k - 1, Pieces(i)[k])])

Hello(i) ==
    CASE i.proto = "trojan" -> Key(i.user) \o CRLF \o <<Command(i)>> \o Write(TROJAN, i.to) \o CRLF
      [] i.proto = "vless" -> <<0>> \o Key(i.user) \o <<i.addons>> \o [k \in 1..i.addons |-> 7]
                              \o <<Command(i)>> \o (IF i.cmd = "mux" THEN <<>> ELSE Write(VLESS, i.to))
      [] i.proto = "socks" -> Greeting(i) \o <<Version(i, "request", 5), Command(i), 0>> \o Write(SOCKS, i.to)
      [] i.proto = "http" -> HeadOf(i.lines)
      [] OTHER -> <<>>
Wire(i) ==
    (IF i.upgrade = <<>> THEN <<>> ELSE HeadOf(i.upgrade))
    \o (CASE i.proto = "shadowsocks" -> SsWire(i)
          [] i.proto = "vmess" -> VmessWire(i)
          [] OTHER -> Hello(i) \o Body(i))

Unread == SubSeq(wire, pos + 1, sent)

ClientWrite ==
    /\ ~fin
    /\ \E n \in (sent + 1)..Len(wire) : sent' = n
    /\ UNCHANGED <<intent, wire, fin, pos, table, phase, acc, snap, req, data, udp>>

ClientFin ==
    /\ ~fin /\ fin' = TRUE
    /\ UNCHANGED <<intent, wire, sent, pos, table, phase, acc, snap, req, data, udp>>

\* set_users of the handler: the whole table is swapped.
SetUsers ==
    /\ phase \notin Final
    /\ \E t \in Tables : t # users /\ users' = t /\ always' = always \cap t /\ ever' = ever \cup t
    /\ UNCHANGED <<client, pos, phase, acc, snap, req, data, udp>>

Init ==
    /\ intent \in Intents /\ wire = Wire(intent) /\ sent = 0 /\ fin = FALSE /\ pos = 0
    /\ users \in Tables /\ always = users /\ ever = users
    /\ phase = "new" /\ acc = <<>> /\ snap = {} /\ req = NoRequest
    /\ relay = "none" /\ bridge = {} /\ up = <<>> /\ ctr = 0
    /\ peer = FALSE /\ grams = <<>> /\ heard = <<>> /\ down = <<>>

-----------------------------------------------------------------------------
(* Steps shared by the decoders.                                           *)

\* decode returns an error: of the request, or of the connection.
Fail(kind) == phase' = kind /\ UNCHANGED <<acc, snap, req, data, udp>>

\* A reply cannot be written: the client is gone.
WriteFails == fin /\ Fail("error")

\* pipe, then relay_stream or relay_framed is spawned with what was read of
\* the payload; the decision goes to the router.
Spawn(kind, r, left) ==
    /\ phase' = "decided" /\ req' = r /\ relay' = kind /\ up' = left
    /\ UNCHANGED <<bridge, udp>>

\* sniff, as what it tells its caller: a prefix that is a complete hello names
\* its server, any other one does not.
Sniff(left) == IF Len(left) >= 2 /\ left[1] = Sni THEN {Domain(<<left[2]>>)} ELSE {}

\* Mutant: a name gives way as well.
SniffOverrideNames(d, left) ==
    IF Sniff(left) # {} THEN [d EXCEPT !.addr = CHOOSE a \in Sniff(left) : TRUE] ELSE d

\* sniff_override: an address gives way to the name in the hello.
SniffOverride(d, left) ==
    IF d.addr.kind = "ip" /\ Sniff(left) # {} THEN [d EXCEPT !.addr = CHOOSE a \in Sniff(left) : TRUE] ELSE d

\* Proxy::decode starts: Trojan and VLESS load their user table here.
BeginDecode ==
    /\ acc' = <<>>
    /\ snap' = IF intent.proto \in {"trojan", "vless"} THEN users ELSE {}
    /\ IF intent.proto = "dokodemo"
       THEN Spawn("stream", Request(0, "tcp", Fixed), <<>>) /\ UNCHANGED ctr
       ELSE /\ phase' = CASE intent.proto = "socks" -> "greeting"
                          [] intent.proto = "shadowsocks" -> "salt"
                          [] intent.proto = "vmess" -> "auth"
                          [] OTHER -> "header"
            /\ UNCHANGED <<req, data, udp>>

\* TransportService::call: accept, then the proxy service.
Start ==
    /\ phase = "new"
    /\ IF intent.upgrade # <<>>
       THEN phase' = "upgrade" /\ UNCHANGED <<acc, snap, req, data, udp>>
       ELSE BeginDecode
    /\ UNCHANGED <<client, pos, table>>

\* httpupgrade::read_head: one byte at a time up to the blank line.
ReadHead ==
    /\ phase = "upgrade" /\ Unread # <<>>
    /\ pos' = pos + 1
    /\ LET head == Append(acc, Unread[1]) IN
       CASE IsSuffix(Blank, head) -> IF UpgradeAsked(Lines(head), intent.want) THEN BeginDecode \/ WriteFails ELSE Fail("invalid")
         [] ~IsSuffix(Blank, head) /\ Len(head) > MaxHead -> Fail("invalid")
         [] OTHER -> acc' = head /\ UNCHANGED <<phase, snap, req, data, udp>>
    /\ UNCHANGED <<client, table>>

-----------------------------------------------------------------------------
(* read_header: Trojan, VLESS and HTTP.                                    *)
HttpParse(buf) ==
    Then(ParseHead(buf), LAMBDA head, rest :
    LET lines == Lines(head)
        auth == CheckAuth(lines, intent.accounts)
        who == IF intent.accounts = {} THEN 0 ELSE CHOOSE u \in auth : TRUE
    IN  IF intent.accounts # {} /\ auth = {} THEN Ok(Request(0, "407", Nowhere), rest)
        ELSE Then(HttpTarget(lines), LAMBDA d, none :
             Ok([Request(who, IF Line[lines[1]].method = "CONNECT" THEN "tcp" ELSE "plain", d)
                 EXCEPT !.lines = lines], rest)))

Parse(buf) ==
    CASE intent.proto = "trojan" -> TrojanParse(buf, snap)
      [] intent.proto = "vless" -> VlessParse(buf, snap)
      [] OTHER -> HttpParse(buf)

\* Mutant: a header that is cut short is refused.
HeaderReadOnce ==
    /\ phase = "header" /\ Unread # <<>>
    /\ pos' = sent
    /\ LET r == Parse(Unread) IN
       IF r.st = "ok" THEN /\ phase' = "parsed" /\ req' = r.val /\ acc' = r.rest
                           /\ UNCHANGED <<snap, data, udp>>
       ELSE Fail("invalid")
    /\ UNCHANGED <<client, table>>

\* One turn of the loop: read a segment, parse everything read so far, and
\* stop when it is a header, is none, or is too long.
HeaderRead ==
    /\ phase = "header" /\ Unread # <<>>
    /\ pos' = sent
    /\ LET buf == acc \o Unread
           r == Parse(buf)
       IN  CASE r.st = "ok" -> /\ phase' = "parsed" /\ req' = r.val /\ acc' = r.rest
                               /\ UNCHANGED <<snap, data, udp>>
             [] r.st = "truncated" /\ Len(buf) < MaxHeader ->
                    acc' = buf /\ UNCHANGED <<phase, snap, req, data, udp>>
             [] OTHER -> Fail("invalid")
    /\ UNCHANGED <<client, table>>

Parsed(cmds) == phase = "parsed" /\ req.cmd \in cmds /\ UNCHANGED <<client, pos, table, snap>>

\* A TCP request: the bytes after the header are the start of the payload.
DecideTcp ==
    /\ Parsed({"tcp"}) /\ intent.proto # "vmess"
    /\ Spawn("stream", [req EXCEPT !.to = SniffOverride(req.to, acc)], acc)
    /\ acc' = <<>> /\ UNCHANGED ctr

\* A plain HTTP request: the rewritten head goes in front of the body.
DecidePlain ==
    /\ Parsed({"plain"})
    /\ Spawn("stream", req, Rewrite(req.lines) \o acc)
    /\ acc' = <<>> /\ UNCHANGED ctr

\* 407, and the no-op decision.
Decide407 == Parsed({"407"}) /\ phase' = "decided" /\ UNCHANGED <<acc, req, data, udp>>

\* UDP and mux requests are served inside decode.
DecideServed ==
    /\ Parsed({"udp", "mux"}) /\ intent.proto # "vmess"
    /\ phase' = IF req.cmd = "mux" THEN "mux" ELSE IF intent.proto = "socks" THEN "associate" ELSE "udp"
    /\ UNCHANGED <<acc, req, data, udp>>

\* BIND is answered with an error.
DecideBind == Parsed({"bind"}) /\ Fail("invalid")

\* The reply that comes before the decision cannot be written.
ReplyFails == Parsed({"tcp", "407", "udp", "mux"}) /\ intent.proto # "trojan" /\ WriteFails

-----------------------------------------------------------------------------
(* read_exact decoders: the bytes that are not asked for stay unread.      *)

Consumed(r) == pos' = sent - Len(r.rest)
Refuse(r) == r.st = "bad" /\ Fail("invalid") /\ UNCHANGED pos

\* Socks::handshake.
SocksGreet ==
    LET r == SocksGreeting(Unread, intent.accounts) IN
    /\ phase = "greeting"
    /\ \/ Refuse(r)
       \/ r.st = "ok" /\ ~r.val /\ Consumed(r) /\ Fail("invalid")
       \/ /\ r.st = "ok" /\ r.val /\ Consumed(r)
          /\ \/ WriteFails
             \/ /\ phase' = IF Method(intent.accounts) = 2 THEN "userpass" ELSE "request"
                /\ UNCHANGED <<acc, snap, req, data, udp>>
    /\ UNCHANGED <<client, table>>

SocksAuth ==
    LET r == SocksUserPass(Unread, intent.accounts) IN
    /\ phase = "userpass"
    /\ \/ Refuse(r)
       \/ r.st = "ok" /\ ~r.val /\ Consumed(r) /\ Fail("invalid")
       \/ /\ r.st = "ok" /\ r.val /\ Consumed(r)
          /\ WriteFails \/ (phase' = "request" /\ UNCHANGED <<acc, snap, req, data, udp>>)
    /\ UNCHANGED <<client, table>>

SocksAsk ==
    LET r == SocksRequest(Unread) IN
    /\ phase = "request"
    /\ \/ Refuse(r)
       \/ r.st = "ok" /\ Consumed(r) /\ phase' = "parsed" /\ req' = r.val /\ UNCHANGED <<acc, snap, data, udp>>
    /\ UNCHANGED <<client, table>>

\* The user a sealed handshake was matched to.
Who == CHOOSE u \in snap : TRUE

\* The salt and the first sealed length are in: the user is the one whose key
\* opens the length, in the table as it is now.
SsUser ==
    LET r == Take(Unread, SaltLen + 3)
        salt == SubSeq(Unread, 1, SaltLen)
        lenct == SubSeq(Unread, SaltLen + 1, SaltLen + 3)
        match == {u \in users : Open(u, salt, 0, lenct).st = "ok"}
    IN  /\ phase = "salt" /\ r.st = "ok"
        /\ \/ match = {} /\ Fail("invalid") /\ UNCHANGED pos
           \/ /\ match # {} /\ phase' = "first"
              /\ pos' = pos + SaltLen /\ acc' = salt /\ snap' = match
              /\ UNCHANGED <<req, data, udp>>
        /\ UNCHANGED <<client, table>>

\* The first chunk starts with the destination.
SsFirst ==
    LET r == Then(SsReadChunk(Unread, Who, acc, 0), LAMBDA plain, rest :
                  LET d == Read(SHADOWSOCKS, plain)
                  IN  IF d.st = "ok" THEN Ok([to |-> d.val, left |-> d.rest], rest) ELSE Bad)
    IN  /\ phase = "first"
        /\ \/ Refuse(r)
           \/ r.st = "ok" /\ Consumed(r) /\ WriteFails
           \/ /\ r.st = "ok" /\ Consumed(r)
              /\ Spawn("framed", Request(Who, "tcp", r.val.to), r.val.left)
              /\ ctr' = 2 /\ UNCHANGED <<acc, snap>>
        /\ UNCHANGED <<client, table>>

\* Vmess::read_header: the auth id is in, and matched in the table as it is now;
\* one the replay filter (VmessAuth) does not take is refused.
VmessUser ==
    LET r == Take(Unread, KeyLen) IN
    /\ phase = "auth" /\ r.st = "ok" /\ Consumed(r)
    /\ LET match == UserWith(users, r.val) IN
       \/ match = {} /\ Fail("invalid")
       \/ match # {} /\ intent.odd = "replay" /\ Fail("invalid")
       \/ match # {} /\ intent.odd # "replay" /\ phase' = "sealed" /\ snap' = match /\ UNCHANGED <<acc, req, data, udp>>
    /\ UNCHANGED <<client, table>>

\* ... and the rest of the header.
VmessHead ==
    LET r == VmessHeader(Unread, Who) IN
    /\ phase = "sealed"
    /\ \/ Refuse(r)
       \/ r.st = "ok" /\ Consumed(r) /\ phase' = "parsed" /\ req' = r.val /\ UNCHANGED <<acc, snap, data, udp>>
    /\ UNCHANGED <<client, table>>

\* The response header is written before body_codecs looks at the security and
\* before a UDP request is refused; serve_mux puts a bridge between the
\* connection and the demuxer, and serves inside decode.
DecideVmess ==
    /\ Parsed({"tcp", "udp", "mux"}) /\ intent.proto = "vmess"
    /\ IF req.body.sec \notin Securities \/ req.cmd = "udp" THEN Fail("invalid")
       ELSE /\ IF req.cmd = "mux" THEN phase' = "mux" /\ bridge' = {"up", "down"} /\ UNCHANGED <<req, relay, up, udp>>
               ELSE Spawn("framed", req, <<>>)
            /\ UNCHANGED <<acc, ctr>>

\* The relay's read loop on a plain stream.
RelayStream ==
    /\ relay = "stream"
    /\ \/ Unread # <<>> /\ up' = up \o Unread /\ pos' = sent /\ UNCHANGED relay
       \/ Unread = <<>> /\ fin /\ relay' = "ended" /\ UNCHANGED <<up, pos>>
    /\ UNCHANGED <<client, table, phase, acc, snap, req, bridge, ctr, udp>>

\* The relay's read loop on sealed chunks; the empty chunk of VMess ends it,
\* and so does the end of the stream, inside a chunk too.
RelayFramed ==
    LET vmess == intent.proto = "vmess"
        r == IF vmess THEN ReadChunk(Unread, req.body, ctr) ELSE SsReadChunk(Unread, Who, acc, ctr)
    IN
    /\ relay = "framed"
    /\ \/ r.st = "ok" /\ up' = up \o r.val /\ ctr' = ctr + (IF vmess THEN 1 ELSE 2) /\ Consumed(r) /\ UNCHANGED relay
       \/ /\ r.st \in {"bad", "end"} \/ (r.st = "truncated" /\ fin)
          /\ relay' = "ended" /\ UNCHANGED <<up, ctr, pos>>
    /\ UNCHANGED <<client, table, phase, acc, snap, req, bridge, udp>>

\* up_dir of serve_mux: chunks are opened into the duplex until there is no
\* next one.  Its half of the duplex is dropped, which the demuxer cannot see.
BridgeUp ==
    LET r == ReadChunk(Unread, req.body, ctr) IN
    /\ phase = "mux" /\ "up" \in bridge
    /\ \/ r.st = "ok" /\ up' = up \o r.val /\ ctr' = ctr + 1 /\ Consumed(r) /\ UNCHANGED bridge
       \/ /\ r.st \in {"bad", "end"} \/ (r.st = "truncated" /\ fin)
          /\ bridge' = bridge \ {"up"} /\ UNCHANGED <<up, ctr, pos>>
    /\ UNCHANGED <<client, table, phase, acc, snap, req, relay, udp>>

\* down_dir: a frame for the client cannot be written.
BridgeDownFails ==
    /\ phase = "mux" /\ "down" \in bridge /\ fin
    /\ bridge' = bridge \ {"down"}
    /\ UNCHANGED <<client, pos, table, phase, acc, snap, req, relay, up, ctr, udp>>

-----------------------------------------------------------------------------
(* Datagrams carried by the stream: relay_trojan_udp and relay_vless_udp.  *)
Packet(buf) == IF intent.proto = "trojan" THEN ParseTrojanPacket(buf) ELSE ParseVlessPacket(buf, req.to)

Frame(g) == IF intent.proto = "trojan" THEN FrameTrojan(g) ELSE FrameVless(g)

\* Framed::frame, then the datagram is sent; the end of the stream is an error.
UdpUp ==
    /\ phase = "udp"
    /\ LET r == Packet(acc) IN
       \/ r.st = "ok" /\ grams' = Append(grams, r.val) /\ acc' = r.rest /\ UNCHANGED <<phase, pos>>
       \/ r.st = "truncated" /\ Unread # <<>> /\ acc' = acc \o Unread /\ pos' = sent /\ UNCHANGED <<phase, grams>>
       \/ /\ r.st = "bad" \/ (r.st = "truncated" /\ fin /\ Unread = <<>>)
          /\ phase' = (IF r.st = "bad" THEN "invalid" ELSE "eof") /\ UNCHANGED <<acc, grams, pos>>
    /\ UNCHANGED <<client, table, snap, req, data, peer, heard, down>>

UdpDown ==
    /\ phase = "udp" /\ Len(heard) < MaxAnswers
    /\ \E g \in Answers : heard' = Append(heard, g) /\ down' = Append(down, Frame(g))
    /\ UNCHANGED <<client, pos, table, phase, acc, snap, req, data, peer, grams>>

\* A name does not resolve, or a socket fails.
UdpFails == phase \in {"udp", "associate"} /\ Fail("error") /\ UNCHANGED <<client, pos, table>>

\* socks_udp_associate: datagrams arrive beside the stream, in any order; one
\* that is malformed, does not resolve or cannot be sent is dropped.
AssociateUp ==
    /\ phase = "associate" /\ Len(grams) < MaxGrams
    /\ \E k \in DOMAIN intent.packets :
          LET r == DecodeSocksUdp(EncodeSocksUdp(intent.packets[k]))
          IN  peer' = TRUE /\ (grams' = grams \/ (r.st = "ok" /\ grams' = Append(grams, r.val)))
    /\ UNCHANGED <<client, pos, table, phase, acc, snap, req, data, heard, down>>

AssociateDown ==
    /\ phase = "associate" /\ peer /\ Len(heard) < MaxAnswers
    /\ \E g \in Answers : heard' = Append(heard, g) /\ down' = Append(down, EncodeSocksUdp(g))
    /\ UNCHANGED <<client, pos, table, phase, acc, snap, req, data, peer, grams>>

\* Mutant: the end of the control connection is not noticed.
ControlIgnored ==
    /\ phase = "associate" /\ Unread # <<>> /\ pos' = sent
    /\ UNCHANGED <<client, table, phase, acc, snap, req, data, udp>>

\* What the client says on the control connection is ignored; its end ends
\* the association.
AssociateControl ==
    /\ phase = "associate"
    /\ \/ Unread # <<>> /\ pos' = sent /\ UNCHANGED phase
       \/ Unread = <<>> /\ fin /\ phase' = "decided" /\ UNCHANGED pos
    /\ UNCHANGED <<client, table, acc, snap, req, data, udp>>

\* The idle timer ends a flow of datagrams.
ServedIdles ==
    /\ phase \in {"udp", "associate"} /\ phase' = "decided"
    /\ UNCHANGED <<client, pos, table, acc, snap, req, data, udp>>

\* mux::serve returns and the bridge, if there is one, is aborted.
MuxServed(result) ==
    /\ phase = "mux" /\ phase' = result /\ bridge' = {}
    /\ UNCHANGED <<client, pos, table, acc, snap, req, relay, up, ctr, udp>>

\* The demuxer reads the end of its carrier: of the connection, or of the
\* duplex once both directions of the bridge are over.
DemuxReturns == (IF intent.proto = "vmess" THEN bridge = {} ELSE fin) /\ MuxServed("decided")

\* The demuxer meets a frame it cannot read.
DemuxFails == MuxServed("error")

-----------------------------------------------------------------------------
Timed == {"header", "greeting", "userpass", "request", "salt", "auth", "sealed"}

\* handshake_timeout.
Deadline == phase \in Timed /\ Fail("timeout") /\ UNCHANGED <<client, pos, table>>

\* What a read_exact phase still waits for.
Waiting ==
    CASE phase = "greeting" -> SocksGreeting(Unread, intent.accounts)
      [] phase = "userpass" -> SocksUserPass(Unread, intent.accounts)
      [] phase = "request" -> SocksRequest(Unread)
      [] phase = "salt" -> Take(Unread, SaltLen + 3)
      [] phase = "first" -> SsReadChunk(Unread, Who, acc, 0)
      [] phase = "auth" -> Take(Unread, KeyLen)
      [] phase = "sealed" -> VmessHeader(Unread, Who)
      [] OTHER -> Take(Unread, 1)

\* The stream ends before the handshake is complete.
Eof ==
    /\ phase \in Timed \cup {"upgrade", "first"}
    /\ fin /\ Waiting.st = "truncated" /\ Fail("eof")
    /\ UNCHANGED <<client, pos, table>>

\* ProxyService::call: the router picks an outbound; freedom drops the no-op
\* decision of a flow that was served, the blackhole every flow.
Dispatch ==
    /\ phase = "decided"
    /\ \E ob \in {"freedom", "blackhole", "upstream"} :
          phase' = IF ob = "blackhole" \/ (ob = "freedom" /\ relay = "none") THEN "dropped" ELSE "dialed"
    /\ UNCHANGED <<client, pos, table, acc, snap, req, data, udp>>

Server ==
    \/ Start \/ ReadHead \/ HeaderRead
    \/ DecideTcp \/ DecidePlain \/ Decide407 \/ DecideServed \/ DecideBind \/ ReplyFails
    \/ SocksGreet \/ SocksAuth \/ SocksAsk \/ SsUser \/ SsFirst
    \/ VmessUser \/ VmessHead \/ DecideVmess
    \/ UdpUp \/ AssociateControl \/ DemuxReturns \/ Eof \/ Dispatch
Next ==
    \/ ClientWrite \/ ClientFin \/ SetUsers
    \/ Server \/ RelayStream \/ RelayFramed \/ BridgeUp \/ BridgeDownFails
    \/ UdpDown \/ UdpFails \/ AssociateUp \/ AssociateDown \/ ServedIdles \/ DemuxFails
    \/ Deadline

Spec == Init /\ [][Next]_vars

\* The tasks are scheduled and the deadline passes.  (That a demuxer whose
\* carrier is at its end returns is CloseEndsServe of Mux.)
FairSpec == Spec /\ WF_vars(Server) /\ WF_vars(BridgeUp) /\ WF_vars(Deadline)

-----------------------------------------------------------------------------
TypeOK ==
    /\ intent \in Intents /\ sent \in 0..Len(wire) /\ fin \in BOOLEAN
    /\ pos \in 0..sent
    /\ {users, always, ever, snap} \subseteq SUBSET UNION Tables
    /\ phase \in {"new", "upgrade", "parsed", "first", "udp", "associate", "mux", "decided"} \cup Timed \cup Final
    /\ acc \in Seq(Nat) /\ up \in Seq(Nat)
    /\ relay \in {"none", "stream", "framed", "ended"} /\ bridge \subseteq {"up", "down"} /\ ctr \in 0..4
    /\ peer \in BOOLEAN /\ Len(grams) <= MaxGrams /\ Len(heard) <= MaxAnswers /\ Len(down) = Len(heard)

\* The destination the client asked for: a name that is the text of an address
\* is that address, a mapped address the one it maps, and an address may give way to the name in the hello that
\* follows.
Asked ==
    LET bytes == intent.to.addr.bytes
        a == [intent.to EXCEPT !.addr = IF @.kind = "domain" THEN ReadName(bytes).val ELSE FromIpBytes(bytes)]
    IN  {a} \cup {[a EXCEPT !.addr = n] : n \in IF a.addr.kind = "ip" THEN Sniff(intent.payload) ELSE {}}

\* However its bytes are cut into segments, a request is decoded to what the
\* client encoded: the user, which SOCKS does not attribute, and the
\* destination (Proxy::decode over read_header's re-parsing and over the
\* read_exact handshakes).  A malformed request, or an upgrade for another path
\* or host than the transport's, is never relayed.
RequestAsSent ==
    relay # "none" =>
        ~intent.bad /\ req.user = (IF intent.proto = "socks" THEN 0 ELSE intent.user) /\ req.to \in Asked

\* What the sealed chunks read so far hold.
Unsealed ==
    IF intent.proto = "vmess" THEN FlattenSeq(SubSeq(Pieces(intent), 1, ctr))
    ELSE SubSeq(intent.payload, 1, (IF ctr = 4 THEN Len(Plain(intent)) ELSE intent.cut)
                                   - Len(Write(SHADOWSOCKS, intent.to)))

\* What was handed to the link and what is still to come are the payload, behind
\* the rewritten head for a plain HTTP request; a sealed stream is handed on
\* chunk by chunk, to the link or through the bridge to the mux demuxer, and the
\* two ends stay in step: reading ends early only when the client closed early.
StreamIntact ==
    relay # "none" \/ bridge # {} =>
        IF intent.proto \in {"shadowsocks", "vmess"}
        THEN up = Unsealed /\ ((relay = "ended" \/ bridge = {"down"}) /\ sent = Len(wire) => up = intent.payload)
        ELSE up \o SubSeq(wire, pos + 1, Len(wire)) =
             (IF req.cmd = "plain" THEN HeadOf(intent.origin) ELSE <<>>) \o intent.payload

\* Datagrams keep their boundaries both ways.  The ones sent are the first ones
\* the client framed, each to its own target (Trojan) or to the header's
\* (VLESS), and the buffered and unread bytes are exactly the others; an
\* association sends only what its client sent.  Every answer of a target
\* reaches the client in a frame the protocol's own reader takes apart again,
\* with the source where the protocol carries it.
DatagramsIntact ==
    LET n == Len(grams)
        Sent(k) == IF intent.proto = "vless" THEN [intent.packets[k] EXCEPT !.to = intent.to] ELSE intent.packets[k]
        Heard(k) == CASE intent.proto = "trojan" -> ParseTrojanPacket(down[k])
                      [] intent.proto = "vless" -> ParseVlessPacket(down[k], heard[k].to)
                      [] OTHER -> DecodeSocksUdp(down[k])
    IN  /\ phase = "udp" =>
              /\ n <= Len(intent.packets) /\ \A k \in 1..n : grams[k] = Sent(k)
              /\ acc \o SubSeq(wire, pos + 1, Len(wire)) = Body([intent EXCEPT !.packets = SubSeq(@, n + 1, Len(@))])
        /\ phase = "associate" => \A k \in 1..n : grams[k] \in ToSet(intent.packets)
        /\ \A k \in DOMAIN heard : LET r == Heard(k) IN r.st = "ok" /\ r.val = heard[k] /\ r.rest = <<>>

\* No byte of the payload is lost, repeated or taken for the header, whether it
\* is a stream, sealed chunks (relay_framed over the Shadowsocks and VMess
\* codecs) or datagrams framed on a stream (proxy::udp, proxy::socks).
PayloadIntact == StreamIntact /\ DatagramsIntact

\* Only a user who was listed since the connection was accepted is served
\* (Trojan and VLESS work with the table of the start of decode, Shadowsocks
\* and VMess with the one after the first bytes), and only an account of the inbound.
AcceptedWasListed ==
    (relay # "none" \/ phase \in {"udp", "associate", "mux"}) =>
        \/ intent.proto \in {"trojan", "vless", "vmess", "shadowsocks"} /\ intent.user \in ever
        \/ intent.proto \in {"socks", "http"} /\ (intent.accounts = {} \/ intent.user \in intent.accounts)
        \/ intent.proto = "dokodemo"

\* A request is found invalid only if it is: it asks for something that is not
\* offered, its user was not listed all along, or its header is longer than
\* read_header's limit.  No cut into segments makes a good request fail.
GoodIsServed ==
    phase = "invalid" =>
        \/ intent.bad \/ Len(Hello(intent)) > MaxHeader
        \/ intent.proto \in {"trojan", "vless", "vmess", "shadowsocks"} /\ intent.user \notin always
        \/ intent.proto = "socks" /\ intent.accounts # {} /\ intent.user \notin intent.accounts

\* When the client has closed its side the connection's task ends: handshakes
\* with an error, associations with their control connection, a VLESS mux
\* carrier with its demuxer.  A VMess mux carrier may stay: the uplink of its
\* bridge has ended, but the demuxer reads on until a frame it writes makes the
\* downlink fail as well.
ClosedIsFinished == []<>(fin => phase \in Final \/ (phase = "mux" /\ bridge = {"down"}))
=============================================================================
