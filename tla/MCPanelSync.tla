---------------------------- MODULE MCPanelSync -----------------------------
(* Small instances of PanelNode: nodes of every type behind panels of both *)
(* kinds, with what an operator enters rendered into the node string or    *)
(* the custom config.                                                      *)
EXTENDS PanelNode, TLC

CONSTANTS Only  \* the deployments of the run: "all", or "one" with two good nodes

-----------------------------------------------------------------------------
(* Deployments.                                                            *)

Site(type, custom, etag) ==
    [type |-> type, custom |-> custom, etag |-> etag, vless |-> FALSE, flow |-> "", speed |-> 0, limit |-> 0,
     mode |-> "file", certs |-> TRUE]
V2ray(custom, etag) == Site("V2ray", custom, etag)
Trojan == Site("Trojan", FALSE, TRUE)
NewTrojan == [Site("Trojan", TRUE, FALSE) EXCEPT !.mode = "none"]
NoCerts == [Site("Trojan", TRUE, FALSE) EXCEPT !.certs = FALSE]
OldVless == [V2ray(FALSE, FALSE) EXCEPT !.vless = TRUE, !.limit = 2, !.speed = 1]
Flow == [V2ray(FALSE, FALSE) EXCEPT !.vless = TRUE, !.flow = "vision"]
Ss(custom, etag) == Site("Shadowsocks", custom, etag)
MCSites == CASE Only = "one" -> {V2ray(TRUE, TRUE)}
             [] OTHER -> {V2ray(c, e) : c, e \in BOOLEAN} \cup {Trojan, NewTrojan, NoCerts, OldVless, Flow}
                         \cup {Ss(c, e) : c, e \in BOOLEAN}
                         \cup {Site(t, c, FALSE) : t \in {"Vmess", "Vless", "Shadowsocks-Plugin"}, c \in BOOLEAN}
MCEtags == [s \in Sites |-> s.etag]

-----------------------------------------------------------------------------
(* What is entered, and how the panel renders it.                          *)

Enter(kind, port, net, tls) ==
    [kind |-> kind, port |-> port, net |-> net, tls |-> tls, path |-> <<"/a", "b">>, host |-> "h",
     service |-> "s", cipher |-> IF kind = "shadowsocks" THEN "aes" ELSE ""]

\* An item whose key is repeated, one without a value and an empty one.
Items(i) == <<<<"path", "/x">>, <<"path">> \o i.path, <<>>, <<"host", i.host>>, <<"mux">>, <<"servicename", i.service>>>>
Node(i, version, server, custom) ==
    [meant |-> i, version |-> version, speed |-> 1, server |-> server, custom |-> custom]
Server(i, outside, inside, flags) ==
    [fields |-> 6, port |-> outside, inside |-> inside, alter |-> 0, flags |-> flags, host |-> i.host,
     items |-> Items(i) \o (IF i.net = "grpc" THEN <<<<"grpc">>>> ELSE <<>>)]
Text(i) == CASE i.net = "raw" -> "" [] OTHER -> i.net
Custom(i) ==
    [port |-> i.port, network |-> Text(i), security |-> IF i.tls THEN "tls" ELSE "", vless |-> i.kind = "vless",
     host |-> i.host, path |-> i.path, flow |-> "", method |-> i.cipher, servicename |-> i.service, reality |-> FALSE]

New == <<2023, 2>>
Old == <<2021, 9, 1>>
Junk == 2^W32
OldNode(i) == Node(i, Old, Server(i, i.port, None, <<Text(i), IF i.tls THEN "tls" ELSE "">>), None)
OldTrojan(i, outside) == Node(i, Old, Server(i, outside, IF outside = i.port THEN None ELSE i.port, <<>>), None)
NewNode(i) == Node(i, New, None, Custom(i))
V2rays == {Enter("vmess", 1, "raw", FALSE), Enter("vmess", 2, "ws", TRUE), Enter("vmess", 1, "grpc", TRUE)}

\* Port 0, a port past u16, REALITY, an unknown transport, a null config.
BadNew(i) == {[NewNode(i) EXCEPT !.custom.port = 0], [NewNode(i) EXCEPT !.custom.port = 2^W16],
              [NewNode(i) EXCEPT !.custom.reality = TRUE], [NewNode(i) EXCEPT !.custom.network = "kcp"],
              [NewNode(i) EXCEPT !.custom = None]}
\* An empty string, one cut short, ports that are none or wrap.
BadOld(i) == {[OldNode(i) EXCEPT !.server = None], [OldNode(i) EXCEPT !.server.fields = 5],
              [OldNode(i) EXCEPT !.server.port = Junk], [OldNode(i) EXCEPT !.server.port = -1]}

MCBodies == [s \in Sites |->
    CASE Only = "one" -> {NewNode(Enter("vmess", 1, "raw", FALSE)), NewNode(Enter("vmess", 2, "ws", TRUE))}
      [] s.type = "V2ray" /\ s.custom /\ s.etag ->
             {NewNode(i) : i \in V2rays} \cup BadNew(Enter("vmess", 1, "raw", FALSE))
      [] s.type = "V2ray" /\ s.custom -> {NewNode(Enter("vless", 1, "httpupgrade", TRUE)), OldNode(Enter("vmess", 1, "ws", TRUE))}
      [] s.type = "V2ray" /\ s.vless ->
             {OldNode(Enter("vless", 1, "ws", TRUE)), NewNode(Enter("vless", 1, "raw", FALSE))}
      [] s.type = "V2ray" -> {OldNode(i) : i \in V2rays} \cup BadOld(Enter("vmess", 1, "raw", FALSE))
      [] s.type = "Trojan" /\ ~s.custom -> {OldTrojan(Enter("trojan", 1, "raw", TRUE), 1), OldTrojan(Enter("trojan", 2, "grpc", TRUE), 3),
                                           OldTrojan(Enter("trojan", 2, "raw", TRUE), Junk)}
      [] s.type = "Trojan" -> {NewNode(Enter("trojan", 1, "raw", TRUE)), NewNode(Enter("trojan", 1, "ws", TRUE))}
      [] s.type = "Shadowsocks" /\ s.custom -> {NewNode(Enter("shadowsocks", p, "raw", FALSE)) : p \in 1..2}
      [] s.type = "Shadowsocks" -> {Node(Enter("shadowsocks", 0, "raw", FALSE), Old, None, None)}
      [] s.type = "Vmess" -> {NewNode(Enter("vmess", 1, "ws", TRUE)), OldNode(Enter("vmess", 1, "ws", TRUE))}
      [] s.type = "Vless" -> {NewNode(Enter("vless", 1, "ws", TRUE))}
      [] OTHER -> {OldNode(Enter("shadowsocks", 1, "ws", TRUE)), OldNode(Enter("shadowsocks", 2, "ws", TRUE))}]

Person(uid, port, method, alive) ==
    [uid |-> uid, uuid |-> [len |-> 36, hex |-> TRUE, id |-> uid], passwd |-> uid, port |-> port, method |-> method,
     speed |-> 0, limit |-> 1, alive |-> alive]
A == Person(1, 1, "aes", 0)
B == Person(2, 2, "chacha", 0)
Full == Person(3, 1, "aes", 2)
Named == [Person(4, 1, "aes", 0) EXCEPT !.uuid = [len |-> 3, hex |-> FALSE, id |-> 4]]
Odd == [Person(5, 1, "2022", 0) EXCEPT !.uuid = [len |-> 36, hex |-> FALSE, id |-> 5]]
MCLists == [s \in Sites |->
    CASE Only = "one" -> {<<A>>}
      [] s.type = "Shadowsocks" /\ ~s.custom -> {<<A, B>>, <<B, A>>, <<B>>, <<Odd>>, <<>>}
      [] s.custom /\ s.etag -> {<<A>>, <<B, A>>}
      [] OTHER -> {<<A, Full>>, <<B, Named, Odd>>, <<[Full EXCEPT !.alive = 0], A>>}]

MCCiphers == [m \in {"aes", "chacha"} |-> <<m>>]
MCConfs == UNION {{ParseNode(s, b, l) : b \in Bodies[s], l \in Lists[s]} : s \in Sites} \ {None}
MCTags == ({s.type : s \in Sites} \X {1}) \cup ({"V2ray", "Trojan", "Shadowsocks"} \X (0 .. 3))
          \cup ({"V2ray"} \X {2^W16, 2^W32 - 1})
MCUserLists == UNION {{ParseUsers(s, l) : l \in Lists[s]} : s \in Sites}
=============================================================================
