----------------------------- MODULE MCInbound ------------------------------
(* One client of every protocol, with requests that succeed and that are    *)
(* refused, over the raw transport and over httpupgrade.                    *)
EXTENDS Inbound

\* Bytes 20..23 are letters, 30..31 digits, 40..49 HTTP lines, 60 a hello, 50
\* and above payload.
MCDigits == {30, 31}
MCDomainBytes == {20, 21, 30, 31}
MCMapPrefix == <<15>>
\* Text of addresses: an IPv4 one, a mapped one, one that begins with a letter.
MCIpText == (<<31>> :> <<31>>) @@ (<<30, 58>> :> <<15, 30>>) @@ (<<20, 58>> :> <<1, 2>>)
V4 == Ip(<<30>>)
V6 == Ip(<<1, 2>>)
MappedV4 == Ip(<<15, 30>>)
Name == Domain(<<20, 21>>)
To(a, p) == [addr |-> a, port |-> p]
Web == To(Name, 9)

MCLine ==
    [b \in 40..49 |->
        CASE b = 40 -> [name |-> "request", method |-> "CONNECT", form |-> "authority", addr |-> Name, port |-> 0,
                        origin |-> 40, host |-> 45]
          [] b = 41 -> [name |-> "request", method |-> "GET", form |-> "http", addr |-> Name, port |-> 9,
                        origin |-> 42, host |-> 45]
          [] b = 42 -> [name |-> "request", method |-> "GET", form |-> "origin", addr |-> Name, port |-> 0,
                        origin |-> 42, host |-> 45, path |-> "/a"]
          [] b = 43 -> [name |-> "proxy-authorization", cred |-> 1]
          [] b = 44 -> [name |-> "proxy-authorization", cred |-> 2]
          [] b = 45 -> [name |-> "host", addr |-> Name, port |-> 9]
          [] b = 46 -> [name |-> "connection", asks |-> TRUE]
          [] b = 47 -> [name |-> "upgrade", asks |-> TRUE]
          [] b = 48 -> [name |-> "other"]
          [] OTHER -> [name |-> "connection", asks |-> FALSE]]

Ask(proto, cmd, user, to) ==
    [proto |-> proto, cmd |-> cmd, user |-> user, to |-> to, payload |-> <<60, 20, 50>>, packets |-> <<>>,
     lines |-> <<>>, origin |-> <<>>, upgrade |-> <<>>, want |-> [path |-> "", host |-> None], accounts |-> {}, addons |-> 0, cut |-> 0, sec |-> 3,
     odd |-> "", bad |-> FALSE]
Wanted(path, host) == [path |-> path, host |-> host]

G1 == [to |-> To(V4, 7), data |-> <<51, 52>>]
G2 == [to |-> To(Name, 8), data |-> <<>>]
MCAnswers == {[to |-> To(V6, 17), data |-> <<53>>]}

Streams ==
    {Ask("trojan", "tcp", 1, To(Name, 17)), Ask("trojan", "tcp", 2, To(V4, 3)),
     [Ask("trojan", "tcp", 1, To(V6, 9)) EXCEPT !.upgrade = <<42, 46, 47>>],
     [Ask("trojan", "tcp", 1, To(V6, 9)) EXCEPT !.upgrade = <<42, 48, 48, 46, 47>>, !.bad = TRUE],
     [Ask("trojan", "tcp", 1, To(V6, 9)) EXCEPT !.upgrade = <<42, 49, 47>>, !.bad = TRUE],
     [Ask("vless", "tcp", 1, To(Domain(<<31>>), 9)) EXCEPT !.addons = 2],
     [Ask("vless", "tcp", 1, To(MappedV4, 9)) EXCEPT !.addons = 15],
     [Ask("vless", "bind", 1, Web) EXCEPT !.bad = TRUE],
     Ask("vless", "mux", 2, Web), Ask("dokodemo", "tcp", 0, Web),
     [Ask("dokodemo", "tcp", 0, Web) EXCEPT !.upgrade = <<42, 46, 47>>]}
    \cup {[Ask("trojan", "tcp", 1, To(V6, 9)) EXCEPT !.upgrade = <<42, 45, 46, 47>>, !.want = w,
                                                     !.bad = w \notin {Wanted("/a", Name), Wanted("", Name)}] :
             w \in {Wanted("/a", Name), Wanted("", Name), Wanted("/b", None), Wanted("/a", Domain(<<31>>))}}
Served ==
    {[Ask("trojan", "udp", 1, Web) EXCEPT !.packets = <<G1, G2>>],
     [Ask("vless", "udp", 1, Web) EXCEPT !.packets = <<G2, G1>>],
     [Ask("socks", "udp", 0, Web) EXCEPT !.packets = <<G1>>]}
Socks ==
    {Ask("socks", "tcp", 0, To(Domain(<<91, 30, 58, 93>>), 9)),
     [Ask("socks", "tcp", 0, To(Domain(<<20, 58>>), 9)) EXCEPT !.bad = TRUE],
     [Ask("socks", "bind", 0, Web) EXCEPT !.bad = TRUE],
     [Ask("socks", "tcp", 1, Web) EXCEPT !.accounts = {1}], [Ask("socks", "tcp", 2, Web) EXCEPT !.accounts = {1}]}
    \cup {[Ask("socks", "tcp", 1, Web) EXCEPT !.accounts = {1}, !.odd = part, !.bad = TRUE] :
             part \in {"greeting", "method", "userpass", "request"}}
Https ==
    {[Ask("http", "tcp", 0, To(Name, 33)) EXCEPT !.lines = <<40, 48>>],
     [Ask("http", "plain", 1, Web) EXCEPT !.lines = <<41, 43, 49, 48>>, !.accounts = {1}, !.origin = <<42, 48, 45, 49>>],
     [Ask("http", "plain", 0, Web) EXCEPT !.lines = <<42, 45, 46>>, !.origin = <<42, 45, 49>>],
     [Ask("http", "plain", 2, Web) EXCEPT !.lines = <<41, 44>>, !.accounts = {1}],
     [Ask("http", "plain", 0, Web) EXCEPT !.lines = <<42, 48>>, !.bad = TRUE]}
Sealed ==
    {[Ask("shadowsocks", "tcp", u, To(V4, 9)) EXCEPT !.cut = 5] : u \in {1, 2}}
    \cup {[Ask("shadowsocks", "tcp", 1, To(Name, 9)) EXCEPT !.cut = 9, !.addons = 1],
          [Ask("shadowsocks", "tcp", 1, To(Name, 9)) EXCEPT !.cut = 3, !.bad = TRUE]}
Vmesses ==
    {[Ask("vmess", "tcp", 1, To(Name, 17)) EXCEPT !.cut = 1, !.addons = 12],
     [Ask("vmess", "tcp", 2, To(V4, 9)) EXCEPT !.cut = 2, !.addons = 8, !.sec = 5],
     [Ask("vmess", "tcp", 1, To(V6, 9)) EXCEPT !.cut = 2, !.addons = 4, !.sec = 4],
     [Ask("vmess", "mux", 1, Web) EXCEPT !.cut = 1],
     [Ask("vmess", "udp", 1, Web) EXCEPT !.cut = 1, !.bad = TRUE],
     [Ask("vmess", "bind", 1, Web) EXCEPT !.cut = 1, !.bad = TRUE],
     [Ask("vmess", "tcp", 1, Web) EXCEPT !.cut = 1, !.sec = 1, !.bad = TRUE]}
    \cup {[Ask("vmess", "tcp", 1, Web) EXCEPT !.cut = 1, !.odd = part, !.bad = TRUE] :
             part \in {"version", "fnv", "seal", "replay"}}
MCIntents == Vmesses \cup Streams \cup Served \cup Socks \cup Https \cup Sealed
MCTables == {{1}, {1, 2}}
MCFixed == Web

=============================================================================
