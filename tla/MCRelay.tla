------------------------------ MODULE MCRelay -------------------------------
(* Small instances of Relay.                                               *)
EXTENDS Relay

Pair(i, o) == [s \in Sides |-> IF s = "in" THEN i ELSE o]
Flow(modes, chunks, leftover) == [mode |-> modes, chunks |-> chunks, leftover |-> leftover]

\* Trojan, VLESS, SOCKS, HTTP or dokodemo inbound to freedom, an upload.
Upload == Flow(Pair("stream", "stream"), Pair(2, 0), TRUE)
\* VMess or Shadowsocks inbound to freedom, an exchange.
Exchange == Flow(Pair("framed", "stream"), Pair(1, 1), TRUE)
\* A stream inbound to a Shadowsocks outbound, a download.
Download == Flow(Pair("stream", "framed"), Pair(0, 2), FALSE)

ThreeFlows == {Upload, Exchange, Download}
=============================================================================
