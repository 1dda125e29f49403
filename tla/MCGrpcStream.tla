---------------------------- MODULE MCGrpcStream ----------------------------
(* Two short chunks down around an empty one in both modes; three hunks up *)
(* of which one is empty; hunks with fields of every wire type in front of *)
(* the payload; each kind of bytes that are no hunk, behind a good one; and *)
(* WebSockets with early data, control messages and hosts that differ.      *)
EXTENDS WsStream

Post(path, good) == [method |-> "POST", path |-> path, type |-> "application/grpc", good |-> good]
Down == <<<<10, 2>>, <<>>, <<7>>>>
Up(f, p) == [fields |-> f, payload |-> p]
Flow(mode, d, u, trash) ==
    [service |-> <<"s">>, calls |-> <<Post(<<"/", "s", "/", "Tun">>, TRUE)>>, mine |-> 1,
     mode |-> mode, downlink |-> d, uplink |-> u, trash |-> trash]
Ups(u, trash) == Flow("stream", <<>>, u, trash)

\* A varint field, two length-delimited ones, a 32-bit and a 64-bit one.
Fields == {<<16, More, 0>>, <<18, 0>>, <<26, 2, 10, 1>>, <<21, 1, 2, 3, 10>>, <<9, 10, 1, 7, 0, 0, 0, 0, 0>>}

\* A compressed frame, an oversized one, an unknown wire type, a payload
\* longer than its hunk, a 32-bit field cut short and an endless varint.
Trash == {<<1, 2, 10, 0>>, <<0, MaxFrame + 1>>, <<0, 1, 11>>, <<0, 3, 10, 2, 9>>, <<0, 2, 21, 1>>,
          <<0, 5, 16, More, More, More, 0>>}

\* Connections with calls that are not for the service next to ones that are;
\* names with characters that are escaped, and custom paths.
Connections ==
    {[service |-> <<"s", " ">>, mine |-> 3,
      calls |-> <<Post(<<"/", "s", "%", " ", "/", "Tun">>, TRUE), Post(<<"/", "s", " ", "/", "Tun">>, FALSE),
                  Post(<<"/", "s", "%", " ", "/", "Tun">>, TRUE),
                  [Post(<<"/", "s", "%", " ", "/", "Tun">>, TRUE) EXCEPT !.type = None]>>],
     [service |-> <<"/", "a", " ", "/", "b", "/", "c", "|", "d">>, mine |-> 2,
      calls |-> <<Post(<<"/", "a", "%", " ", "/", "b", "/", "Tun">>, FALSE), Post(<<"/", "a", "%", " ", "/", "b", "/", "c">>, TRUE),
                  [Post(<<"/", "a", "%", " ", "/", "b", "/", "c">>, FALSE) EXCEPT !.method = "GET"],
                  [Post(<<"/", "a", "%", " ", "/", "b", "/", "c">>, FALSE) EXCEPT !.type = "text"]>>],
     [service |-> <<"/", "c">>, mine |-> 1, calls |-> <<Post(<<"/", "c">>, FALSE), Post(<<"/", "/", "c">>, TRUE)>>],
     [service |-> <<"a", "/", "b">>, mine |-> 2,
      calls |-> <<Post(<<"/", "a", "/", "b", "/", "Tun">>, FALSE), Post(<<"/", "a", "%", "/", "b", "/", "Tun">>, TRUE)>>]}

MCLoads == {Flow(m, Down, <<>>, <<>>) : m \in {"stream", "sink"}}
           \cup {Ups(<<Up(<<>>, <<0, 3>>), Up(<<>>, <<>>), Up(<<>>, <<5>>)>>, <<>>)}
           \cup {Ups(<<Up(f, <<0, 3>>)>>, <<>>) : f \in Fields}
           \cup {Ups(<<Up(<<>>, <<4>>)>>, t) : t \in Trash}
           \cup {[Flow("stream", <<<<7>>>>, <<>>, <<>>) EXCEPT !.service = p.service, !.calls = p.calls, !.mine = p.mine] :
                    p \in Connections}

Message(kind, data) == [kind |-> kind, data |-> data]
Site(path, host) == [path |-> path, host |-> host]
Host(name) == [name |-> name, port |-> 8]
MCSymbol == [c \in {"a", "-", "_"} |-> CASE c = "a" -> 11 [] c = "-" -> 12 [] OTHER -> 13]
WsLoad(mode, downlink, uplink) ==
    [calls |-> <<>>, mode |-> mode, downlink |-> downlink, uplink |-> uplink, want |-> Site("", None), ask |-> Site("/a", None),
     early |-> None]
Chat == <<Message("binary", <<1, 2>>), Message("ping", <<>>), Message("binary", <<>>), Message("text", <<3>>)>>
MCWsLoads ==
    {WsLoad(m, Down, <<>>) : m \in {"ws", "wssink"}}
    \cup {[WsLoad("ws", <<<<9>>>>, Append(Chat, Message(k, <<>>))) EXCEPT !.early = e] :
             k \in {"close", "invalid", "pong"}, e \in {None, <<"a", "+", "/", "=">>, <<"a", "%">>}}
    \cup {[WsLoad("ws", <<>>, Chat) EXCEPT !.want = w, !.ask = a] :
             w \in {Site("/a", "h"), Site("", "h"), Site("/b", None)},
             a \in {Site("/a", Host("h")), Site("/a", Host("g")), Site("/b", None)}}
=============================================================================
