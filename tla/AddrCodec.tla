----------------------------- MODULE AddrCodec ------------------------------
(***************************************************************************)
(* The byte codec shared by the inbound protocols (kernel::net): cursor    *)
(* reads and the address codec of VLESS, Trojan, SOCKS and Shadowsocks.    *)
(*                                                                         *)
(* A byte is a natural number, a buffer a sequence.  An IPv4 address has   *)
(* V4Len bytes (4 in the code), an IPv6 address V6Len (16), a port two     *)
(* digits of base Base (256).  A domain name is a sequence of bytes, and   *)
(* some sequences are the text of an address.                              *)
(***************************************************************************)
EXTENDS Naturals, Sequences, Functions

CONSTANTS
    V4Len, V6Len, Base,
    Digits, DomainBytes,  \* the digits, and all bytes of a valid domain
    IpText,               \* text -> the address it is the text of (IpAddr::from_str)
    MapPrefix             \* what an IPv6 address begins with that maps an IPv4 address

ASSUME CodecConstants ==
    /\ {V4Len, V6Len, Base} \subseteq Nat \ {0}
    /\ MapPrefix \in Seq(Nat) \ {<<>>} /\ Len(MapPrefix) + V4Len = V6Len
    /\ Digits \subseteq DomainBytes /\ DomainBytes \subseteq Nat
    /\ \A t \in DOMAIN IpText : t \in Seq(Nat) /\ IpText[t] \in Seq(Nat) /\ Len(IpText[t]) \in {V4Len, V6Len}

\* What a read returns: a value and the bytes after it, Truncated (more bytes
\* may complete it), or another error.
Ok(v, rest) == [st |-> "ok", val |-> v, rest |-> rest]
Truncated == [st |-> "truncated"]
Bad == [st |-> "bad"]

\* The ? operator: go on with the value and the rest, or return the error.
\* (Binding r to x in a set makes TLC evaluate it once.)
Then(r, Op(_, _)) ==
    CHOOSE y \in {IF x.st = "ok" THEN Op(x.val, x.rest) ELSE x : x \in {r}} : TRUE

Take(buf, n) == IF Len(buf) < n THEN Truncated ELSE Ok(SubSeq(buf, 1, n), SubSeq(buf, n + 1, Len(buf)))
TakeU8(buf) == Then(Take(buf, 1), LAMBDA b, rest : Ok(b[1], rest))
ReadPort(buf) == Then(Take(buf, 2), LAMBDA b, rest : Ok(b[1] * Base + b[2], rest))
PutPort(p) == <<p \div Base, p % Base>>

\* Address.
Ip(b) == [kind |-> "ip", bytes |-> b]
Domain(b) == [kind |-> "domain", bytes |-> b]

\* Address::from_ip_bytes: a mapped address is the IPv4 address it maps.
Mapped(b) == Len(b) = V6Len /\ SubSeq(b, 1, Len(MapPrefix)) = MapPrefix
FromIpBytes(b) == Ip(IF Mapped(b) THEN SubSeq(b, Len(MapPrefix) + 1, V6Len) ELSE b)

\* Address::parse: the text of an address, bare or in brackets, or else a name.
Bra == 91
Ket == 93
Bracketed(b) == Len(b) >= 2 /\ b[1] = Bra /\ b[Len(b)] = Ket
ParseAddress(b) ==
    LET inner == SubSeq(b, 2, Len(b) - 1) IN
    CASE b \in DOMAIN IpText -> Ip(IpText[b])
      [] b \notin DOMAIN IpText /\ Bracketed(b) /\ inner \in DOMAIN IpText -> Ip(IpText[inner])
      [] OTHER -> Domain(b)

\* Family::kind and Family::byte_for.
Kinds(family) ==
    IF family = "vless" THEN [v4 |-> 1, domain |-> 2, v6 |-> 3] ELSE [v4 |-> 1, domain |-> 3, v6 |-> 4]
KindOf(a) == IF a.kind = "domain" THEN "domain" ELSE IF Len(a.bytes) = V4Len THEN "v4" ELSE "v6"

VLESS == [family |-> "vless", portFirst |-> TRUE, mask |-> FALSE]
TROJAN == [family |-> "standard", portFirst |-> FALSE, mask |-> FALSE]
SOCKS == TROJAN
SHADOWSOCKS == [TROJAN EXCEPT !.mask = TRUE]

\* A name that begins like an address is tried as the text of one; any other
\* one must be made of the bytes a domain may have.
ReadName(b) ==
    IF b = <<>> THEN Bad
    ELSE IF b[1] \in Digits \union {Bra} /\ ParseAddress(b).kind = "ip" THEN Ok(ParseAddress(b), <<>>)
    ELSE IF Range(b) \subseteq DomainBytes THEN Ok(Domain(b), <<>>)
    ELSE Bad

\* AddrCodec::read_address.
ReadAddress(c, buf) ==
    Then(TakeU8(buf), LAMBDA t0, rest :
        LET t == IF c.mask THEN t0 % 16 ELSE t0
            k == Kinds(c.family)
            Bytes(n) == Then(Take(rest, n), LAMBDA b, rest2 : Ok(FromIpBytes(b), rest2))
        IN  CASE t = k.v4 -> Bytes(V4Len)
              [] t = k.v6 -> Bytes(V6Len)
              [] t = k.domain ->
                     Then(TakeU8(rest), LAMBDA n, rest2 :
                     IF n = 0 THEN Bad ELSE
                     Then(Take(rest2, n), LAMBDA b, rest3 :
                     Then(ReadName(b), LAMBDA a, none : Ok(a, rest3))))
              [] OTHER -> Bad)

\* AddrCodec::read: an address and a port, in the codec's order.
Read(c, buf) ==
    IF c.portFirst
    THEN Then(ReadPort(buf), LAMBDA p, rest :
         Then(ReadAddress(c, rest), LAMBDA a, rest2 : Ok([addr |-> a, port |-> p], rest2)))
    ELSE Then(ReadAddress(c, buf), LAMBDA a, rest :
         Then(ReadPort(rest), LAMBDA p, rest2 : Ok([addr |-> a, port |-> p], rest2)))

\* AddrCodec::write_address and AddrCodec::write.
WriteAddress(c, a) ==
    <<Kinds(c.family)[KindOf(a)]>> \o (IF a.kind = "domain" THEN <<Len(a.bytes)>> ELSE <<>>) \o a.bytes
Write(c, d) ==
    IF c.portFirst THEN PutPort(d.port) \o WriteAddress(c, d.addr)
                   ELSE WriteAddress(c, d.addr) \o PutPort(d.port)
=============================================================================
