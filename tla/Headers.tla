------------------------------ MODULE Headers -------------------------------
(***************************************************************************)
(* The request parsers of the inbound protocols (proxy::trojan, vless,     *)
(* socks, shadowsocks, udp), as functions of the bytes read so far.        *)
(*                                                                         *)
(* A user is a number; the hash or UUID that names them on the wire is     *)
(* KeyLen bytes (56 for Trojan, 16 for VLESS).  An AEAD tag is one byte    *)
(* that binds the key, the salt and the nonce counter.                     *)
(***************************************************************************)
EXTENDS AddrCodec

CONSTANTS KeyLen, SaltLen

ASSUME HeaderConstants == {KeyLen, SaltLen} \subseteq Nat \ {0}

CRLF == <<13, 10>>
Key(u) == [i \in 1..KeyLen |-> u]
UserWith(users, key) == {u \in users : Key(u) = key}

\* A request: the user, the command and the destination (Nowhere for a command
\* without one); the lines of its head, for HTTP; the body codec, for VMess.
Request(u, cmd, d) == [user |-> u, cmd |-> cmd, to |-> d, lines |-> <<>>, body |-> <<>>]
Nowhere == [addr |-> Ip(<<>>), port |-> 0]

-----------------------------------------------------------------------------
(* Trojan: hash, CRLF, command, address, CRLF; every command but UDP is TCP. *)

TrojanParse(buf, users) ==
    Then(Take(buf, KeyLen), LAMBDA key, r1 :
    IF UserWith(users, key) = {} THEN Bad ELSE
    Then(Take(r1, 2), LAMBDA crlf, r2 :
    Then(TakeU8(r2), LAMBDA cmd, r3 :
    Then(Read(TROJAN, r3), LAMBDA d, r4 :
    Then(Take(r4, 2), LAMBDA crlf2, r5 :
    Ok(Request(key[1], IF cmd = 3 THEN "udp" ELSE "tcp", d), r5))))))

\* Mutant: the user table is not asked.
VlessAnyone(buf, users) ==
    Then(Take(buf, 1 + KeyLen), LAMBDA key, r1 :
    Then(TakeU8(r1), LAMBDA n, r2 :
    Then(Take(r2, n), LAMBDA addons, r3 :
    Then(TakeU8(r3), LAMBDA cmd, r4 :
    IF cmd = 3 THEN Ok(Request(key[2], "mux", Nowhere), r4) ELSE
    Then(Read(VLESS, r4), LAMBDA d, r5 : Ok(Request(key[2], IF cmd = 1 THEN "tcp" ELSE "udp", d), r5))))))

\* VLESS: version, id, addons, command and, unless the command is mux, an
\* address.
VlessParse(buf, users) ==
    Then(TakeU8(buf), LAMBDA ver, r1 :
    IF ver # 0 THEN Bad ELSE
    Then(Take(r1, KeyLen), LAMBDA key, r2 :
    IF UserWith(users, key) = {} THEN Bad ELSE
    Then(TakeU8(r2), LAMBDA n, r3 :
    Then(Take(r3, n), LAMBDA addons, r4 :
    Then(TakeU8(r4), LAMBDA cmd, r5 :
    CASE cmd = 3 -> Ok(Request(key[1], "mux", Nowhere), r5)
      [] cmd \in {1, 2} ->
             Then(Read(VLESS, r5), LAMBDA d, r6 :
                  Ok(Request(key[1], IF cmd = 1 THEN "tcp" ELSE "udp", d), r6))
      [] OTHER -> Bad)))))

-----------------------------------------------------------------------------
(* Datagrams framed on a stream.                                            *)

\* Trojan: address, port, length, CRLF, payload.
ParseTrojanPacket(buf) ==
    Then(Read(TROJAN, buf), LAMBDA d, r1 :
    Then(ReadPort(r1), LAMBDA n, r2 :
    Then(Take(r2, 2), LAMBDA crlf, r3 :
    Then(Take(r3, n), LAMBDA data, r4 : Ok([to |-> d, data |-> data], r4)))))
FrameTrojan(g) == Write(TROJAN, g.to) \o PutPort(Len(g.data)) \o CRLF \o g.data

\* VLESS: length, payload; the destination is the header's.
ParseVlessPacket(buf, d) ==
    Then(ReadPort(buf), LAMBDA n, r1 :
    Then(Take(r1, n), LAMBDA data, r2 : Ok([to |-> d, data |-> data], r2)))
FrameVless(g) == PutPort(Len(g.data)) \o g.data

-----------------------------------------------------------------------------
(* SOCKS5: greeting, user and password, request.                            *)
Method(accounts) == IF accounts = {} THEN 0 ELSE 2

SocksGreeting(buf, accounts) ==
    Then(TakeU8(buf), LAMBDA ver, r1 :
    IF ver # 5 THEN Bad ELSE
    Then(TakeU8(r1), LAMBDA n, r2 :
    Then(Take(r2, n), LAMBDA methods, r3 : Ok(Method(accounts) \in Range(methods), r3))))

SocksUserPass(buf, accounts) ==
    Then(TakeU8(buf), LAMBDA ver, r1 :
    IF ver # 1 THEN Bad ELSE
    Then(TakeU8(r1), LAMBDA ulen, r2 :
    Then(Take(r2, ulen), LAMBDA uname, r3 :
    Then(TakeU8(r3), LAMBDA plen, r4 :
    Then(Take(r4, plen), LAMBDA passwd, r5 :
    Ok(\E u \in accounts : uname = <<u>> /\ passwd = <<u>>, r5))))))

\* read_addr: the bytes of an address and a port are read, then decoded.
ReadAddr(buf) ==
    LET Raw(atyp, r) ==
            CASE atyp = 1 -> Take(r, V4Len + 2)
              [] atyp = 4 -> Take(r, V6Len + 2)
              [] atyp = 3 -> Then(TakeU8(r), LAMBDA n, r2 : Take(r, n + 3))
              [] OTHER -> Bad
    IN  Then(TakeU8(buf), LAMBDA atyp, r1 :
        Then(Raw(atyp, r1), LAMBDA raw, rest :
        LET d == Read(SOCKS, <<atyp>> \o raw) IN IF d.st = "ok" THEN Ok(d.val, rest) ELSE Bad))

SocksRequest(buf) ==
    Then(TakeU8(buf), LAMBDA ver, r1 :
    IF ver # 5 THEN Bad ELSE
    Then(TakeU8(r1), LAMBDA cmd, r2 :
    Then(TakeU8(r2), LAMBDA rsv, r3 :
    Then(ReadAddr(r3), LAMBDA d, r4 :
    Ok(Request(0, CASE cmd = 1 -> "tcp" [] cmd = 3 -> "udp" [] OTHER -> "bind", d), r4)))))

\* A datagram of a SOCKS association: fragments are not taken.
DecodeSocksUdp(buf) ==
    Then(Take(buf, 3), LAMBDA head, r1 :
    IF head[3] # 0 THEN Bad ELSE
    Then(Read(SOCKS, r1), LAMBDA d, r2 : Ok([to |-> d, data |-> r2], <<>>)))
EncodeSocksUdp(g) == <<0, 0, 0>> \o Write(SOCKS, g.to) \o g.data

-----------------------------------------------------------------------------
(* Shadowsocks: a salt, then chunks of a sealed length and sealed bytes.    *)
TagOf(u, salt, ctr) == 1000 + 100 * u + 10 * salt[1] + ctr
Seal(u, salt, ctr, plain) == Append(plain, TagOf(u, salt, ctr))
Open(u, salt, ctr, ct) ==
    LET n == Len(ct) IN IF ct[n] = TagOf(u, salt, ctr) THEN Ok(SubSeq(ct, 1, n - 1), <<>>) ELSE Bad

\* ss_write_chunks, for one piece.
SsWriteChunk(u, salt, ctr, piece) ==
    Seal(u, salt, ctr, PutPort(Len(piece))) \o Seal(u, salt, ctr + 1, piece)

\* ss_read_chunk: two openings, each with its own counter value.
SsReadChunk(buf, u, salt, ctr) ==
    Then(Take(buf, 3), LAMBDA lenct, r1 :
    Then(Open(u, salt, ctr, lenct), LAMBDA len, none :
    Then(Take(r1, len[1] * Base + len[2] + 1), LAMBDA ct, r2 :
    Then(Open(u, salt, ctr + 1, ct), LAMBDA plain, none2 : Ok(plain, r2)))))
=============================================================================
