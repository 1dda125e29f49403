-------------------------------- MODULE Hunk --------------------------------
(***************************************************************************)
(* The codec of the gRPC transport (transport::grpc): protobuf varints,    *)
(* the Hunk message and its gRPC frame.                                    *)
(*                                                                         *)
(* A varint group has GroupBits bits (7 in the code) and a value Width     *)
(* bits (64); the byte that starts a field is field * 8 + wire type; the   *)
(* four length bytes of the gRPC frame are one number.                     *)
(***************************************************************************)
EXTENDS Naturals, Sequences

CONSTANTS GroupBits, Width, MaxFrame, None, Invalid

ASSUME HunkConstants == GroupBits \in Nat \ {0} /\ Width \in Nat \ {0} /\ MaxFrame \in Nat

More == 2^GroupBits           \* the continuation bit
SeqFrom(s, i) == SubSeq(s, i, Len(s))

\* put_varint: least significant group first.
RECURSIVE PutVarint(_)
PutVarint(v) == IF v >= More THEN <<(v % More) + More>> \o PutVarint(v \div More) ELSE <<v>>

\* varint_len.
RECURSIVE VarintLen(_)
VarintLen(v) == IF v >= More THEN 1 + VarintLen(v \div More) ELSE 1

\* The groups 1..k of src, each shifted into place; bits beyond Width are
\* lost (wrapping_shl on u64).
RECURSIVE Groups(_, _)
Groups(src, k) ==
    IF k = 0 THEN 0
    ELSE Groups(src, k - 1) + (((src[k] % More) * 2^(GroupBits * (k - 1))) % 2^Width)

\* read_varint: None when no byte ends the number or it has too many groups.
ReadVarint(src) ==
    LET ends == {i \in DOMAIN src : src[i] < More} IN
    IF ends = {} THEN None
    ELSE LET k == CHOOSE i \in ends : \A j \in ends : i <= j IN
         IF GroupBits * (k - 1) >= Width THEN None
         ELSE [val |-> Groups(src, k), rest |-> SeqFrom(src, k + 1)]

\* grpc_header: flag, length of the protobuf message, tag of field 1 and the
\* payload length.
GrpcHeader(n) == <<0, 1 + VarintLen(n) + n, 10>> \o PutVarint(n)

\* encode_hunk.
EncodeHunk(payload) == GrpcHeader(Len(payload)) \o payload

\* parse_hunk: the bytes of field 1; other fields are skipped by wire type;
\* empty when it is absent.
RECURSIVE ParseHunk(_)
ParseHunk(m) ==
    IF m = <<>> THEN <<>>
    ELSE LET wire == m[1] % 8
             field == m[1] \div 8
             rest == Tail(m)
             v == ReadVarint(rest)
             Skip(n) == IF Len(rest) < n THEN Invalid ELSE ParseHunk(SeqFrom(rest, n + 1))
         IN  CASE wire = 0 -> IF v = None THEN Invalid ELSE ParseHunk(v.rest)
               [] wire = 2 -> IF v = None THEN Invalid
                              ELSE IF v.val > Len(v.rest) THEN Invalid
                              ELSE IF field = 1 THEN SubSeq(v.rest, 1, v.val)
                              ELSE ParseHunk(SeqFrom(v.rest, v.val + 1))
               [] wire = 5 -> Skip(4)
               [] wire = 1 -> Skip(8)
               [] OTHER -> Invalid

\* try_decode: None when the frame is not complete, Invalid, or the payload
\* and the bytes after the frame.
TryDecode(buf) ==
    IF Len(buf) < 2 THEN None
    ELSE IF buf[1] # 0 \/ buf[2] > MaxFrame THEN Invalid
    ELSE IF Len(buf) < buf[2] + 2 THEN None
    ELSE LET p == ParseHunk(SubSeq(buf, 3, buf[2] + 2)) IN
         IF p = Invalid THEN Invalid ELSE [payload |-> p, rest |-> SeqFrom(buf, buf[2] + 3)]
=============================================================================
