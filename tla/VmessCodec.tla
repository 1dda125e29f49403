----------------------------- MODULE VmessCodec -----------------------------
(***************************************************************************)
(* VMess on the wire (proxy::vmess::header and proxy::vmess::body): the    *)
(* sealed request header and the chunks of the body, with their masked     *)
(* lengths and random padding.                                             *)
(*                                                                         *)
(* An auth id is the user's key (which user it belongs to is VmessAuth's   *)
(* concern), the connection nonce, the body key and the body iv are one    *)
(* byte each, a seal is one byte that binds them.  The FNV checksum and    *)
(* the SHAKE stream are small functions of their inputs: what matters is   *)
(* which input each end gives them.                                        *)
(***************************************************************************)
EXTENDS Headers, SequencesExt, Bitwise

CONSTANT PadMax   \* padding is drawn modulo PadMax (64)

ASSUME VmessConstants == PadMax \in Nat \ {0}

\* The bytes before the address: version, iv, key, response header, option,
\* padding length and security, reserved, command.
FixedLen == 8

Fnv(s) == FoldLeft(LAMBDA h, b : (h * 3 + b) % 97, 7, s)

\* The body codec a header asks for.
BodyOf(iv, key, option, sec) ==
    [iv |-> iv, key |-> key, sec |-> sec, mask |-> (option \div 4) % 2 = 1, pad |-> (option \div 8) % 2 = 1]

\* parse_header: the checksum covers all but itself; the address padding in
\* front of it is left unread.
ParseHeader(h) ==
    IF Len(h) < FixedLen \/ Fnv(Front(h)) # Last(h) \/ h[1] # 1 THEN Bad
    ELSE LET body == BodyOf(h[2], h[3], h[5], h[6] % 16)
             Req(cmd, d) == Ok([Request(0, cmd, d) EXCEPT !.body = body], <<>>)
         IN  CASE h[8] = 3 -> Req("mux", Nowhere)
               [] h[8] \in {1, 2} ->
                      LET r == Read(VLESS, SubSeq(h, FixedLen + 1, Len(h)))
                      IN  IF r.st = "ok" THEN Req(IF h[8] = 1 THEN "tcp" ELSE "udp", r.val) ELSE Bad
               [] OTHER -> Bad

\* The two seals of the header: part 0 is its length, part 1 the header.
HeaderTag(u, nonce, part) == 3000 + 100 * u + 10 * nonce + part
SealPart(u, nonce, part, plain) == Append(plain, HeaderTag(u, nonce, part))
OpenPart(u, nonce, part, ct) == IF Last(ct) = HeaderTag(u, nonce, part) THEN Ok(Front(ct), <<>>) ELSE Bad

\* read_header after the auth id: sealed length, nonce, sealed header.
VmessHeader(buf, u) ==
    Then(Take(buf, 3), LAMBDA lenct, r1 :
    Then(TakeU8(r1), LAMBDA nonce, r2 :
    Then(OpenPart(u, nonce, 0, lenct), LAMBDA len, none :
    Then(Take(r2, len[1] * Base + len[2] + 1), LAMBDA ct, r3 :
    Then(OpenPart(u, nonce, 1, ct), LAMBDA h, none2 :
    Then(ParseHeader(h), LAMBDA req, none3 : Ok([req EXCEPT !.user = u], r3)))))))

-----------------------------------------------------------------------------
(* The body: chunk n is the n-th (from 0) of its direction.                *)

\* body_aead.
Securities == {3, 4, 5}
Plaintext(b) == b.sec = 5
Overhead(b) == IF Plaintext(b) THEN 0 ELSE 1

ShakeAt(b, k) == (11 * b.iv + 7 * k + 5) % (Base * Base)

\* Per frame the stream is drawn for the padding, then for the length; without
\* masking there is no stream and no padding.
Padding(b, n) == IF b.pad /\ b.mask THEN ShakeAt(b, 2 * n) % PadMax ELSE 0
MaskSize(b, n, size) == IF b.mask THEN ShakeAt(b, IF b.pad THEN 2 * n + 1 ELSE n) ^^ size ELSE size

\* seal_piece and open_piece: the nonce is the chunk counter and the iv.
ChunkTag(b, n) == 5000 + 1000 * b.sec + 100 * b.key + 10 * b.iv + n
SealPiece(b, n, piece) == IF Plaintext(b) THEN piece ELSE Append(piece, ChunkTag(b, n))
OpenPiece(b, n, ct) ==
    IF Plaintext(b) THEN Ok(ct, <<>>)
    ELSE IF Last(ct) = ChunkTag(b, n) THEN Ok(Front(ct), <<>>) ELSE Bad

\* write_chunk for one piece, and write_terminal for the empty one.
WriteChunk(b, n, piece) ==
    LET ct == SealPiece(b, n, piece) IN
    PutPort(MaskSize(b, n, Len(ct) + Padding(b, n))) \o ct \o [k \in 1..Padding(b, n) |-> 99]

\* The end of the body: an empty chunk.
Ended == [st |-> "end"]

\* Mutant: the length is unmasked before the padding is drawn.
ReadChunkSwapped(buf, b, n) ==
    Then(ReadPort(buf), LAMBDA masked, r1 :
    LET size == IF b.mask THEN ShakeAt(b, IF b.pad THEN 2 * n ELSE n) ^^ masked ELSE masked
        pad == IF b.pad /\ b.mask THEN ShakeAt(b, 2 * n + 1) % PadMax ELSE 0
        floor == Overhead(b) + pad
    IN  IF size = floor THEN Ended ELSE IF size < floor THEN Bad
        ELSE Then(Take(r1, size), LAMBDA chunk, r2 :
             Then(OpenPiece(b, n, SubSeq(chunk, 1, size - pad)), LAMBDA plain, none : Ok(plain, r2))))

\* read_chunk.
ReadChunk(buf, b, n) ==
    Then(ReadPort(buf), LAMBDA masked, r1 :
    LET size == MaskSize(b, n, masked)
        floor == Overhead(b) + Padding(b, n)
    IN  IF size = floor THEN Ended ELSE IF size < floor THEN Bad
        ELSE Then(Take(r1, size), LAMBDA chunk, r2 :
             Then(OpenPiece(b, n, SubSeq(chunk, 1, size - Padding(b, n))), LAMBDA plain, none :
             Ok(plain, r2))))
=============================================================================
