----------------------------- MODULE MCRouting ------------------------------
(* Six deployments: every matcher on every small input, sequences of flows *)
(* through tables of several rules, every egress configuration of up to    *)
(* three blocks over a few raw matchers, the server's configurations,      *)
(* flows that share the resolver, and a flow through each upstream server. *)
EXTENDS Dispatch

Query(host, ip, sniffed, port, hash) ==
    [host |-> host, ip |-> ip, sniffed |-> sniffed, port |-> port, hash |-> hash, net |-> "tcp"]
AnyFlow == [kind |-> "any"]
PortIn(lo, hi) == [kind |-> "port", lo |-> lo, hi |-> hi]
Suffix(d) == [kind |-> "suffix", domain |-> d]
CidrBlock(net, p) == [kind |-> "cidr", net |-> net, prefix |-> p]
Site(t) == [kind |-> "site", tag |-> t]
GeoIp(t) == [kind |-> "geoip", tag |-> t]
Rule(conds, outs, mode) == [conds |-> conds, outs |-> outs, mode |-> mode]

\* Every domain of one to three characters, every two-octet address and a
\* one-octet one (the other family), every prefix length.
Chars == {"a", "A", "."}
Names == UNION {[1..n -> Chars] : n \in 1..3}
Octets == 0..3
Addrs == {<<a, b>> : a, b \in Octets} \union {<<1>>}

AllMatchers ==
    {<<Rule(<<Suffix(d)>>, <<"x">>, "random")>> : d \in Names}
    \union {<<Rule(<<CidrBlock(<<a, b>>, p)>>, <<"x">>, "random")>> : a, b \in Octets, p \in 0..4}
    \union {<<Rule(<<PortIn(lo, hi)>>, <<"x">>, "random")>> : lo \in 0..1, hi \in 1..2}

AllInputs ==
    {Query(d, None, None, 1, None) : d \in Names}
    \union {Query(None, a, None, 2, None) : a \in Addrs}
    \union {Query(None, <<1, 2>>, d, 0, None) : d \in {<<"a">>, <<".", "A">>, <<"a", ".", "a">>}}

\* Overlapping rules, an empty outs list, each balance mode, a catch-all.
Tbl1 == <<Rule(<<Suffix(<<"a">>), Site("s")>>, <<"x", "y", "z">>, "roundRobin"),
          Rule(<<CidrBlock(<<1, 0>>, 2), GeoIp("g")>>, <<"y", "z">>, "userAuthHash"),
          Rule(<<PortIn(1, 1)>>, <<>>, "random")>>
Tbl2 == <<Rule(<<PortIn(1, 2)>>, <<"x", "y">>, "roundRobin"),
          Rule(<<AnyFlow>>, <<"y", "missing", "z">>, "userAuthHash")>>
Tbl3 == <<Rule(<<Suffix(<<"a">>)>>, <<"z">>, "random"),
          Rule(<<Suffix(<<"a">>), PortIn(1, 1)>>, <<"x", "y">>, "random")>>
SomeFlows ==
    {Query(<<"a">>, None, None, 1, 1), Query(<<"B">>, None, None, 0, 2),
     Query(None, <<1, 3>>, None, 1, 1), Query(None, <<2, 0>>, <<"b">>, 2, 2),
     Query(None, <<2, 0>>, None, 2, 5), Query(None, <<3, 0>>, None, 1, None)}

Raw(mark, body) == [mark |-> mark, body |-> body]
Label == Raw("#", <<"a">>)
Star == Raw("*", <<>>)
ApexA == Raw("domain:", <<"A">>)
SubA == Raw("full:", <<" ", "b", ".", "a">>)
Keyword == Raw("keyword:", <<"a">>)
Country == Raw("geoip:", <<"g">>)
Empty == Raw("suffix:", <<" ">>)

Singles == {<<r>> : r \in {Label, Star, ApexA, SubA, Keyword, Country, Empty}}
Pairs == {<<Label, SubA>>, <<Keyword, ApexA>>, <<Country, Star>>}
Blocks(outs) == {[rules |-> r, outs |-> o] : r \in Singles \union Pairs, o \in outs}
One == {<<"block">>}
Odd == {<<"ss">>, <<"nocipher">>, <<>>, <<"socks", "ss">>}

MCConfigs ==
    {[enable |-> TRUE, routes |-> <<b1, b2, b3>>] :
        b1 \in Blocks(One), b2 \in Blocks({<<"ss">>}), b3 \in Blocks({<<"socks">>})}
    \union {[enable |-> e, routes |-> <<b>>] : e \in BOOLEAN, b \in Blocks(One \union Odd)}
EgressFlows ==
    {Query(<<"a">>, None, None, 1, None), Query(<<"B", ".", "a">>, None, None, 1, None),
     Query(<<"b", "a">>, None, None, 1, None), Query(None, <<1>>, None, 1, None),
     Query(None, <<1>>, <<"a">>, 1, None)}

\* The server's configurations.
Entry(out, domain, ip, port) == [outbound |-> out, domain |-> domain, ip |-> ip, port |-> port]
Block(ip, prefix) == [ip |-> ip, prefix |-> prefix]
AppRoutes ==
    {Entry("a", <<Keyword>>, <<>>, <<>>), Entry("a", <<Star, ApexA>>, <<>>, <<>>),
     Entry("b", <<SubA, Empty>>, <<>>, <<<<2>>>>), Entry("b", <<>>, <<Block(<<1, 0>>, 3)>>, <<>>),
     Entry("none", <<>>, <<Block(<<1>>, None)>>, <<<<2, 3>>>>)}
BadRoutes ==
    {Entry("a", <<>>, <<Block(<<1, 0>>, 5)>>, <<>>), Entry("a", <<>>, <<Block(<<>>, None)>>, <<>>),
     Entry("a", <<>>, <<>>, <<<<3, 2>>>>), Entry("a", <<ApexA>>, <<>>, <<<<>>>>)}
Out(tag, proto) == [tag |-> tag, proto |-> proto]
AppOuts == {<<>>, <<Out("a", "blackhole"), Out("b", "freedom")>>, <<Out("a", "blackhole")>>,
            <<Out("b", "blackhole"), Out(None, "freedom"), Out("a", "freedom")>>}
Entrance == [proto |-> "trojan", users |-> {None}, method |-> None, tls |-> None, listen |-> "any"]
Entrances == {Entrance, [Entrance EXCEPT !.proto = "vless"], [Entrance EXCEPT !.proto = "shadowsocks"],
              [Entrance EXCEPT !.tls = "missing"], [Entrance EXCEPT !.listen = None]}
MCAppConfigs ==
    {[inbounds |-> <<Entrance>>, outs |-> o, routes |-> <<r1, r2>>] : o \in AppOuts, r1, r2 \in AppRoutes}
    \union {[inbounds |-> <<Entrance, e>>, outs |-> <<>>, routes |-> <<r>>] :
                e \in Entrances, r \in AppRoutes \union BadRoutes}
AppFlows ==
    {Query(<<"a">>, None, None, 1, None), Query(<<"B", ".", "a">>, None, None, 2, None),
     Query(<<"b", "a">>, None, None, 1, None), Query(None, <<1, 1>>, None, 1, None),
     Query(None, <<1, 2>>, None, 3, None), Query(None, <<1>>, None, 1, None)}

\* Flows that share the resolver: names with one and with several answers.
DnsTables == {<<>>}
DnsFlows == {Query(<<"a">>, None, None, 1, None), Query(<<"b">>, None, None, 1, None)}
MCByteOf == [c \in {"a", "b"} |-> IF c = "a" THEN 20 ELSE 21]
MCZones == [h \in {<<20>>, <<21>>} |->
               IF h = <<20>> THEN {<<<<1, 1>>, <<1, 2>>>>, <<<<1, 2>>>>, <<>>} ELSE {<<<<2, 1>>>>}]

\* One flow through each kind of upstream server, directly, and blocked; the
\* last flow is the no-op of a UDP or mux session.
UpstreamTables == {<<Rule(<<AnyFlow>>, <<t>>, "random")>> : t \in {"ss", "socks", "login", "block", "direct"}}
UpstreamFlows == {Query(<<"b">>, None, None, 9, None), Query(None, <<1>>, None, 3, None),
                  [Query(None, <<0, 0>>, None, 0, None) EXCEPT !.net = "unknown"]}
To(addr, port) == [addr |-> addr, port |-> port]
MCMapPrefix == <<14>>
MCIpText == <<>>
MCServer == To(Ip(<<3, 3>>), 7)
MCLogin == [ss |-> 1, socks |-> 0, login |-> 2]
MCUplink == <<50, 51>>
MCDownlink == <<60, 61>>
MCMySalt == <<4, 4>>
MCHisSalt == <<8, 8>>
MCBounds == {To(Ip(<<0, 0>>), 0), To(Ip(<<1>>), 5), To(Domain(<<20, 21>>), 9)}

MCUses == {"matchers", "flows", "egress", "app", "dns", "upstream"}
MCTables == [matchers |-> AllMatchers, flows |-> {Tbl1, Tbl2, Tbl3}, egress |-> {}, app |-> {},
             dns |-> DnsTables, upstream |-> UpstreamTables]
MCQueries == [matchers |-> AllInputs, flows |-> SomeFlows, egress |-> EgressFlows, app |-> AppFlows,
              dns |-> DnsFlows, upstream |-> UpstreamFlows]
NoGeo == [site |-> {}, ip |-> {}]
MCGeo == [matchers |-> NoGeo, egress |-> NoGeo, app |-> NoGeo, dns |-> NoGeo, upstream |-> NoGeo,
          flows |-> [site |-> {<<"s", <<"b">>>>}, ip |-> {<<"g", <<2, 0>>>>}]]
MCMaxFlows == [matchers |-> 1, flows |-> 9, egress |-> 1, app |-> 1, dns |-> 3, upstream |-> 1]
MCRouteTags == <<"route-000", "route-001", "route-002">>
MCOutbounds == [t \in {"x", "y", "z", "direct", "block", "ss", "socks", "login"} |->
                   IF t \in {"block", "ss", "socks", "login"} THEN t ELSE "direct"]
=============================================================================
