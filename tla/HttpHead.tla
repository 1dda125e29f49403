------------------------------ MODULE HttpHead ------------------------------
(***************************************************************************)
(* HTTP request heads: the proxy's (proxy::http) and the upgrade request   *)
(* of the httpupgrade transport.                                           *)
(*                                                                         *)
(* A line of a head is one byte, and Line says what it means: its name,    *)
(* and the address, port (0 when absent) or credential in it.              *)
(***************************************************************************)
EXTENDS Headers, SequencesExt

CONSTANTS Line, CloseLine, HttpPort, HttpsPort, None

ASSUME HttpConstants == CloseLine \in DOMAIN Line /\ DOMAIN Line \cap {10, 13} = {}

Blank == CRLF \o CRLF

\* find_crlfcrlf: the positions where a blank line starts.
BlankAt(buf) == {i \in 1..(Len(buf) - 3) : SubSeq(buf, i, i + 3) = Blank}

\* parse_head: everything up to the first blank line.
ParseHead(buf) ==
    IF BlankAt(buf) = {} THEN Truncated
    ELSE Take(buf, (CHOOSE i \in BlankAt(buf) : \A j \in BlankAt(buf) : i <= j) + 3)

\* The lines of a head; the request line is the first.
Lines(head) == SelectSeq(head, LAMBDA b : b \notin {13, 10})
Named(lines, name) == SelectSeq(Tail(lines), LAMBDA b : Line[b].name = name)

\* check_auth: the account of the first Proxy-Authorization line.
CheckAuth(lines, accounts) ==
    LET auth == Named(lines, "proxy-authorization")
    IN  IF auth = <<>> THEN {} ELSE {Line[auth[1]].cred} \cap accounts

\* parse_authority.
Authority(m, default) == [addr |-> m.addr, port |-> IF m.port = 0 THEN default ELSE m.port]

\* Where a head goes: the authority of CONNECT and of an absolute target, the
\* Host line of any other; Bad without one.
HttpTarget(lines) ==
    LET m == Line[lines[1]]
        hosts == Named(lines, "host")
    IN  CASE m.method = "CONNECT" -> Ok(Authority(m, HttpsPort), <<>>)
          [] m.method # "CONNECT" /\ m.form = "http" -> Ok(Authority(m, HttpPort), <<>>)
          [] m.method # "CONNECT" /\ m.form = "https" -> Ok(Authority(m, HttpsPort), <<>>)
          [] OTHER -> IF hosts = <<>> THEN Bad ELSE Ok(Authority(Line[hosts[1]], HttpPort), <<>>)

Dropped == {"proxy-connection", "proxy-authorization", "connection"}

\* The head sent to the origin: the origin form of the request line, the
\* header lines that are not for the proxy, Host when an absolute target came
\* without one, and Connection: close.
Rewrite(lines) ==
    LET m == Line[lines[1]]
        kept == SelectSeq(Tail(lines), LAMBDA b : Line[b].name \notin Dropped)
        host == IF m.form # "origin" /\ Named(lines, "host") = <<>> THEN <<m.host>> ELSE <<>>
        out == <<m.origin>> \o kept \o host \o <<CloseLine>>
    IN  FlattenSeq([i \in DOMAIN out |-> <<out[i]>> \o CRLF]) \o CRLF

\* httpupgrade::accept: the path and the host are the ones wanted, if any, and
\* the last Connection and Upgrade line ask for it.  The port of the last Host
\* line is not compared.
UpgradeAsked(lines, want) ==
    /\ want.path \in {"", Line[lines[1]].path}
    /\ want.host # None =>
           LET hosts == Named(lines, "host") IN hosts # <<>> /\ Line[Last(hosts)].addr = want.host
    /\ \A name \in {"connection", "upgrade"} :
           LET said == Named(lines, name) IN said # <<>> /\ Line[Last(said)].asks
=============================================================================
