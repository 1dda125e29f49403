----------------------------- MODULE PanelNode ------------------------------
(***************************************************************************)
(* What a node makes of its panel's responses: the parsers of the SSPanel  *)
(* client (saas::sspanel) and the inbound the builder makes of the result  *)
(* (saas::builder).  Its operators are the values of PanelSync's NodeOf,   *)
(* UsersOf, Builds, Port and Tag.                                          *)
(*                                                                         *)
(* A site is the node's section of the configuration: type, vless, flow,   *)
(* custom (the node's custom config is not disabled), speed and limit (the *)
(* overrides), mode and certs (CertMode; both files are there and good).   *)
(* A node response is [version, server, custom, speed]: the version as the *)
(* sequence of its numbers; the old node string as [fields (how many),     *)
(* port, inside, alter, flags, host, items], where an item is the sequence *)
(* of the parts between its = signs, or None when it is empty; the new     *)
(* custom config, or None when it is null or mistyped.  A number that is   *)
(* no number in the text is one out of range.                              *)
(***************************************************************************)
EXTENDS PanelSync, Integers, FiniteSetsExt, Functions

CONSTANTS
    W16, W32,  \* the widths of the integers, scaled down
    Ciphers    \* the AEAD methods: name -> kind (proxy::shadowsocks::method_kind)

ASSUME NodeConstants == W16 \in Nat \ {0} /\ W32 \in Nat /\ W16 < W32 /\ "" \notin DOMAIN Ciphers

-----------------------------------------------------------------------------
(* The node response.                                                      *)

\* parse::<iN>, then a cast to uN.
ParseInt(s, w) == IF s \in (-(2^(w - 1)))..(2^(w - 1) - 1) THEN s % 2^w ELSE None

\* Missing numbers are zero.
CompareVersion(v, w) ==
    LET At(x, i) == IF i \in DOMAIN x THEN x[i] ELSE 0
        differ == {i \in 1..(Len(v) + Len(w)) : At(v, i) # At(w, i)}
    IN  IF differ = {} THEN 0 ELSE IF At(v, Min(differ)) < At(w, Min(differ)) THEN -1 ELSE 1

SpeedLimit(override, panel) == IF override > 0 THEN override ELSE panel

\* The values of the last item with this key, <<>> if there is none.
Item(items, key) ==
    LET at == {i \in DOMAIN items : items[i] # <<>> /\ items[i][1] = key} IN
    IF at = {} THEN <<>> ELSE Tail(items[Max(at)])
First(vals) == IF vals = <<>> THEN "" ELSE vals[1]

\* NodeInfo, with the fields every parser leaves at their defaults.
NodeInfo(st, b, port) ==
    [type |-> st.type, port |-> port, speed |-> SpeedLimit(st.speed, b.speed), alter |-> 0,
     transport |-> "", host |-> "", path |-> <<>>, tls |-> FALSE, vless |-> FALSE, flow |-> "",
     cipher |-> "", service |-> "", reality |-> FALSE]

\* The last of the two flags that is a transport; the empty one is none.
Transport(flags, known) ==
    LET at == {i \in DOMAIN flags : flags[i] \in known} IN IF at = {} THEN "" ELSE flags[Max(at)]

ParseV2ray(st, b) ==
    LET s == b.server IN
    IF s = None \/ s.fields < 6 \/ None \in {ParseInt(s.port, W32), ParseInt(s.alter, W16)} THEN None
    ELSE [NodeInfo(st, b, ParseInt(s.port, W32)) EXCEPT
            !.alter = ParseInt(s.alter, W16),
            !.tls = "tls" \in Range(s.flags),
            !.transport = Transport(s.flags, Range(s.flags) \ {"tls", ""}),
            !.path = Item(s.items, "path"), !.host = First(Item(s.items, "host")),
            !.service = First(Item(s.items, "servicename")),
            !.vless = st.vless, !.flow = st.flow]

\* The old Shadowsocks API has no port in the node string.
ParseSs(st, b, firstPort) == [NodeInfo(st, b, firstPort) EXCEPT !.transport = "tcp"]

\* The streaming port is the node's minus one, wrapping.
ParseSsPlugin(st, b) ==
    LET s == b.server IN
    IF s = None \/ s.fields < 6 \/ ParseInt(s.port, W32) \in {None, 1} THEN None
    ELSE [NodeInfo(st, b, (ParseInt(s.port, W32) - 1) % 2^W32) EXCEPT
            !.tls = "tls" \in Range(s.flags),
            !.transport = LET t == Transport(s.flags, {"ws", "obfs"}) IN IF t = "obfs" THEN "tcp" ELSE t,
            !.path = Item(s.items, "path"), !.host = First(Item(s.items, "host"))]

\* Mutant: the port the panel shows to clients.
ParseTrojanOutside(st, b) ==
    LET s == b.server IN
    IF s = None \/ ParseInt(s.port, W32) = None THEN None
    ELSE [NodeInfo(st, b, ParseInt(s.port, W32)) EXCEPT
            !.transport = IF \E i \in DOMAIN s.items : s.items[i] # <<>> /\ s.items[i][1] = "grpc" THEN "grpc" ELSE "tcp",
            !.service = First(Item(s.items, "servicename")), !.host = s.host, !.tls = TRUE]

\* The inside port, if there is one, else the outside one.
ParseTrojan(st, b) ==
    LET s == b.server
        port == IF s = None THEN None ELSE ParseInt(IF s.inside # None THEN s.inside ELSE s.port, W32)
    IN  IF port = None THEN None
        ELSE [NodeInfo(st, b, port) EXCEPT
                !.transport = IF \E i \in DOMAIN s.items : s.items[i] # <<>> /\ s.items[i][1] = "grpc" THEN "grpc" ELSE "tcp",
                !.service = First(Item(s.items, "servicename")), !.host = s.host, !.tls = TRUE]

\* Panels since 2021.11.  Of the node types, V2ray and Trojan take the
\* transport and the security from the custom config.
ParseCustom(st, b) ==
    LET c == b.custom IN
    IF c = None \/ ParseInt(c.port, W32) = None THEN None
    ELSE [NodeInfo(st, b, ParseInt(c.port, W32)) EXCEPT
            !.transport = CASE st.type = "Shadowsocks" -> "tcp"
                            [] st.type = "V2ray" -> c.network
                            [] st.type = "Trojan" -> IF c.network = "" THEN "tcp" ELSE c.network
                            [] OTHER -> "",
            !.tls = st.type = "Trojan" \/ (st.type = "V2ray" /\ c.security \in {"tls", "xtls"}),
            !.vless = st.type = "V2ray" /\ c.vless,
            !.host = c.host, !.path = c.path, !.flow = c.flow, !.cipher = c.method,
            !.service = c.servicename, !.reality = c.reality]

\* get_node_info: which parser.
Legacy(st, b) == ~st.custom \/ CompareVersion(b.version, <<2021, 11>>) = -1
PortIsUsers(st, b) == Legacy(st, b) /\ st.type = "Shadowsocks"
ParseNode(st, b, list) ==
    IF ~Legacy(st, b) THEN ParseCustom(st, b)
    ELSE CASE st.type = "V2ray" -> ParseV2ray(st, b)
           [] st.type = "Trojan" -> ParseTrojan(st, b)
           [] st.type = "Shadowsocks" -> ParseSs(st, b, IF list = <<>> THEN 0 ELSE list[1].port)
           [] st.type = "Shadowsocks-Plugin" -> ParseSsPlugin(st, b)
           [] OTHER -> None

-----------------------------------------------------------------------------
(* The user response: [uid, uuid, passwd, port, method, speed, limit,      *)
(* alive].                                                                 *)

\* The devices left to the user; None drops the user.
DeviceLimit(st, u) ==
    LET limit == IF st.limit > 0 THEN st.limit ELSE u.limit IN
    IF limit > 0 /\ u.alive > 0 THEN (IF limit > u.alive THEN limit - u.alive ELSE None) ELSE limit

ParseUsers(st, list) ==
    LET kept == SelectSeq(list, LAMBDA u : DeviceLimit(st, u) # None)
        Info(u) == [uid |-> u.uid, uuid |-> u.uuid, passwd |-> u.passwd, port |-> u.port, method |-> u.method,
                    speed |-> SpeedLimit(st.speed, u.speed), limit |-> DeviceLimit(st, u)]
    IN  [i \in DOMAIN kept |-> Info(kept[i])]

-----------------------------------------------------------------------------
(* The builder.                                                            *)

NodePort(n) == n.port
NodeTag(n) == <<n.type, n.port>>

\* Uuid::parse_str of a text [len, hex, id], where hex says that it is five
\* groups of hex digits, each perhaps behind a dash: a short text is hashed.
ParseUuid(t) ==
    IF t.len \in 32..36 THEN (IF t.hex THEN <<"id", t.id>> ELSE None)
    ELSE IF t.len \in 1..30 THEN <<"v5", t.id>> ELSE None

\* The user table, as a sequence of credentials and the user's tag: node tag
\* and uid.  A user without a UUID is skipped.
UserTable(kind, n, users) ==
    LET cred(u) == CASE kind \in {"vless", "vmess"} -> ParseUuid(u.uuid)
                     [] kind = "trojan" -> <<"text", u.uuid>>
                     [] OTHER -> <<"passwd", u.passwd>>
        kept == SelectSeq(users, LAMBDA u : cred(u) # None)
    IN  [i \in DOMAIN kept |-> [cred |-> cred(kept[i]), tag |-> <<NodeTag(n), kept[i].uid>>]]

\* The node's method or, if it has none, the first user's.
SsMethod(n, users) == IF n.cipher # "" THEN n.cipher ELSE IF users = <<>> THEN None ELSE users[1].method

IsVless(n) == n.vless \/ n.type = "Vless"
BuildHandler(n, users) ==
    LET Handler(kind, cipher) == [kind |-> kind, cipher |-> cipher, table |-> UserTable(kind, n, users)] IN
    CASE n.type \in {"V2ray", "Vmess", "Vless"} ->
             IF ~IsVless(n) THEN Handler("vmess", "") ELSE IF n.flow # "" THEN None ELSE Handler("vless", "")
      [] n.type = "Trojan" -> Handler("trojan", "")
      [] n.type = "Shadowsocks" ->
             LET m == SsMethod(n, users) IN IF m \in DOMAIN Ciphers THEN Handler("shadowsocks", Ciphers[m]) ELSE None
      [] OTHER -> None

BuildStream(st, n) ==
    LET tls == n.tls /\ st.mode # "none"
        Stream(kind, path, host, service) ==
            [tls |-> tls, kind |-> kind, path |-> path, host |-> host, service |-> service]
    IN  IF n.reality \/ (tls /\ ~st.certs) THEN None
        ELSE CASE n.transport \in {"tcp", "raw", ""} -> Stream("raw", <<>>, "", "")
               [] n.transport \in {"ws", "websocket"} -> Stream("ws", n.path, n.host, "")
               [] n.transport = "httpupgrade" -> Stream("httpupgrade", n.path, n.host, "")
               [] n.transport \in {"grpc", "gun"} -> Stream("grpc", <<>>, "", n.service)
               [] OTHER -> None

BuildInbound(st, n, users) ==
    LET h == BuildHandler(n, users)
        s == BuildStream(st, n)
    IN  IF n.port \notin 1..(2^W16 - 1) \/ h = None \/ s = None THEN None
        ELSE [port |-> n.port, stream |-> s, kind |-> h.kind, cipher |-> h.cipher, table |-> h.table]

Buildable(st, n, users) == BuildInbound(st, n, users) # None

\* apply_users: the handler stays, with a new table.
SwapUsers(inbound, n, users) == [inbound EXCEPT !.table = UserTable(inbound.kind, n, users)]

-----------------------------------------------------------------------------
(* Properties.                                                             *)

\* What the operator entered in the panel, [port, kind, net, tls, path, host,
\* service, cipher], carried by the response as "meant".  Nodes of the types
\* Vmess and Vless are served over plain TCP whatever the custom config says
\* (parse_sspanel_node_info).
Plain(st) == st.type \in {"Vmess", "Vless"}
Meant(st, b, list) ==
    [port |-> IF PortIsUsers(st, b) THEN list[1].port ELSE b.meant.port,
     kind |-> b.meant.kind,
     stream |-> [tls |-> b.meant.tls /\ ~Plain(st) /\ st.mode # "none",
                 kind |-> IF Plain(st) THEN "raw" ELSE b.meant.net,
                 path |-> IF b.meant.net \in {"ws", "httpupgrade"} /\ ~Plain(st) THEN b.meant.path ELSE <<>>,
                 host |-> IF b.meant.net \in {"ws", "httpupgrade"} /\ ~Plain(st) THEN b.meant.host ELSE "",
                 service |-> IF b.meant.net = "grpc" /\ ~Plain(st) THEN b.meant.service ELSE ""]]

\* Who may use the node: the users listed who can be told apart and have a
\* device left.
MayUse(st, kind, list) ==
    {u \in Range(list) :
        /\ kind \in {"vless", "vmess"} => u.uuid.len \in 1..30 \/ (u.uuid.len \in 32..36 /\ u.uuid.hex)
        /\ LET limit == IF st.limit > 0 THEN st.limit ELSE u.limit IN limit <= 0 \/ u.alive < limit \/ u.alive <= 0}

\* A node in step with its panel serves what the operator entered there: the
\* port, the protocol, the transport and its names, TLS unless CertMode turns
\* it off, through node string and custom config alike; and its user table,
\* through rebuilds and live swaps, admits the users listed and counts their
\* traffic under their own ids.  The cipher of an old Shadowsocks node, which
\* is its first user's, is the one at the last rebuild (apply_users keeps it).
ServedAsTold ==
    InSync => \A t \in {u \in Tags : running[u] # None} :
        LET h == running[t]
            i == SwapUsers(BuildInbound(site, h.conf, h.first), h.conf, h.users)
        IN
        /\ [port |-> i.port, kind |-> i.kind, stream |-> i.stream] = Meant(site, panelNode, panelUsers)
        /\ {<<e.tag[2], e.cred[2]>> : e \in Range(i.table)} =
             {<<u.uid, IF i.kind = "shadowsocks" THEN u.passwd ELSE IF i.kind = "trojan" THEN u.uuid ELSE u.uuid.id>> :
                u \in MayUse(site, i.kind, panelUsers)}
        /\ i.kind = "shadowsocks" => i.cipher = Ciphers[panelNode.meant.cipher] \/ PortIsUsers(site, panelNode)
=============================================================================
