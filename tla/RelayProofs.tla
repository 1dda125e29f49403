---------------------------- MODULE RelayProofs -----------------------------
(***************************************************************************)
(* For every flow, any link capacity and any socket buffer, the two relays *)
(* and the link between them implement the Pipe.  The invariant says where *)
(* each chunk on its way from one peer to the other is: the two sockets,   *)
(* the two copy loops and the link hold consecutive numbers, and what has  *)
(* left one of them and not reached the next was dropped by a relay that   *)
(* is no longer there to deliver anything behind the gap.                  *)
(***************************************************************************)
EXTENDS Relay, TLAPS

\* q holds the numbers that follow n, in order.
Numbered(q, n) == \A i \in 1..Len(q) : q[i] = n + i

\* The empty queue and the queue of one chunk.
LEMMA NumberedEmpty ==
  ASSUME NEW n \in Nat
  PROVE  Numbered(<<>>, n) /\ Len(<<>>) = 0 /\ <<>> \in Seq(Nat)
  BY DEF Numbered

LEMMA NumberedOne ==
  ASSUME NEW n \in Nat
  PROVE  Numbered(<<n + 1>>, n) /\ Len(<<n + 1>>) = 1 /\ <<n + 1>> \in Seq(Nat)
  BY DEF Numbered

\* Taking the first chunk.
LEMMA NumberedTake ==
  ASSUME NEW n \in Nat, NEW q \in Seq(Nat), Numbered(q, n), q # <<>>
  PROVE  /\ Head(q) = n + 1 /\ Len(q) \in Nat \ {0}
         /\ Tail(q) \in Seq(Nat) /\ Len(Tail(q)) = Len(q) - 1
         /\ Numbered(Tail(q), n + 1)
  <1>1. Len(q) \in Nat \ {0} /\ Head(q) = q[1]
    OBVIOUS
  <1>2. /\ Tail(q) \in Seq(Nat) /\ Len(Tail(q)) = Len(q) - 1
        /\ \A i \in 1..Len(Tail(q)) : Tail(q)[i] = q[i + 1]
    BY <1>1
  <1>3. \A i \in 1..Len(Tail(q)) : i + 1 \in 1..Len(q) /\ i \in Nat
    BY <1>1, <1>2
  <1>4. \A i \in 1..Len(Tail(q)) : Tail(q)[i] = (n + 1) + i
    BY <1>2, <1>3 DEF Numbered
  <1> QED
    BY <1>1, <1>2, <1>4 DEF Numbered

LEMMA TakeOne ==
  ASSUME NEW q \in Seq(Nat), q # <<>>
  PROVE  /\ Len(q) \in Nat \ {0} /\ Head(q) \in Nat
         /\ Tail(q) \in Seq(Nat) /\ Len(Tail(q)) = Len(q) - 1
         /\ <<Head(q)>> \in Seq(Nat) /\ Len(<<Head(q)>>) = 1
  OBVIOUS

\* Joining a queue and the one that follows it.
LEMMA NumberedJoin ==
  ASSUME NEW n \in Nat, NEW p \in Seq(Nat), NEW q \in Seq(Nat),
         Numbered(p, n), Numbered(q, n + Len(p))
  PROVE  /\ p \o q \in Seq(Nat) /\ Len(p \o q) = Len(p) + Len(q)
         /\ Numbered(p \o q, n)
  <1>1. p \o q \in Seq(Nat) /\ Len(p \o q) = Len(p) + Len(q) /\ Len(p) \in Nat /\ Len(q) \in Nat
    OBVIOUS
  <1>2. ASSUME NEW i \in 1..Len(p \o q) PROVE (p \o q)[i] = n + i
    <2>1. CASE i <= Len(p)
      BY <2>1, <1>1 DEF Numbered
    <2>2. CASE i > Len(p)
      <3>1. (p \o q)[i] = q[i - Len(p)] /\ i - Len(p) \in 1..Len(q)
        BY <2>2, <1>1
      <3> QED
        BY <3>1, <1>1 DEF Numbered
    <2> QED
      BY <2>1, <2>2, <1>1
  <1> QED
    BY <1>1, <1>2 DEF Numbered

\* Adding the next chunk.
LEMMA NumberedAdd ==
  ASSUME NEW n \in Nat, NEW q \in Seq(Nat), Numbered(q, n)
  PROVE  /\ Append(q, n + Len(q) + 1) \in Seq(Nat) /\ Len(Append(q, n + Len(q) + 1)) = Len(q) + 1
         /\ Numbered(Append(q, n + Len(q) + 1), n)
  <1> DEFINE x == n + Len(q) + 1
  <1>1. Len(q) \in Nat /\ x \in Nat
    OBVIOUS
  <1>2. /\ Append(q, x) \in Seq(Nat) /\ Len(Append(q, x)) = Len(q) + 1
        /\ \A i \in 1..Len(q) : Append(q, x)[i] = q[i]
        /\ Append(q, x)[Len(q) + 1] = x
    BY <1>1
  <1> HIDE DEF x
  <1>3. ASSUME NEW i \in 1..(Len(q) + 1) PROVE Append(q, x)[i] = n + i
    <2>1. CASE i \in 1..Len(q)
      BY <2>1, <1>2 DEF Numbered
    <2>2. CASE i = Len(q) + 1
      BY <2>2, <1>1, <1>2 DEF x
    <2> QED
      BY <2>1, <2>2, <1>1
  <1> QED
    BY <1>2, <1>3 DEF Numbered, x

\* A numbered queue that follows nothing is all there is of it.
LEMMA NumberedSame ==
  ASSUME NEW p \in Seq(Nat), NEW q \in Seq(Nat), NEW n \in Nat,
         Numbered(p, n), Numbered(q, n), Len(p) = Len(q)
  PROVE  p = q
  BY DEF Numbered

-----------------------------------------------------------------------------
(* The invariant.                                                          *)

Gone(s) == relay[s] \in {"ok", "err"}

\* The types, and what a loop or a relay holds at each of its points.
Shapes ==
    /\ flow \in Flows
    /\ sent \in [Sides -> Nat] /\ fin \in [Sides -> BOOLEAN]
    /\ wire \in [Sides -> Seq(Nat)] /\ out \in [Sides -> Seq(Nat)] /\ got \in [Sides -> Seq(Nat)]
    /\ rbuf \in [Sides -> Seq(Nat)] /\ wbuf \in [Sides -> Seq(Nat)] /\ chan \in [Sides -> Seq(Nat)]
    /\ relay \in [Sides -> {"dial", "run", "ok", "err"}]
    /\ rd \in [Sides -> {"lead", "read", "send", "done"}]
    /\ wr \in [Sides -> {"recv", "write", "done"}]

Points(s) ==
    /\ rd[s] \in {"read", "done"} => rbuf[s] = <<>>
    /\ rd[s] \in {"lead", "send"} /\ ~Gone(s) => Len(rbuf[s]) = 1
    /\ wr[s] \in {"recv", "done"} => wbuf[s] = <<>>
    /\ wr[s] = "write" /\ ~Gone(s) => Len(wbuf[s]) = 1
    /\ relay[s] = "dial" => wire[s] = <<>> /\ rd[s] = "read" /\ wr[s] = "recv"
    /\ Gone(s) => wire[s] = <<>> /\ rbuf[s] = <<>> /\ wbuf[s] = <<>> /\ chan[Other(s)] = <<>>

\* Chunks on their way to the peer of s: read by it or in its socket; past the
\* link as well; and all, with what the other relay holds.
Front(s) == Len(got[s]) + Len(out[s])
Passed(s) == Front(s) + Len(wbuf[s]) + Len(chan[Other(s)])
Total(s) == Passed(s) + Len(rbuf[Other(s)]) + Len(wire[Other(s)])

\* The direction towards the peer of s, from the peer of o = Other(s).
InOrder(s, o) ==
    /\ Numbered(got[s], 0) /\ Numbered(out[s], Len(got[s]))
    /\ Numbered(wbuf[s], Front(s)) /\ Numbered(chan[o], Front(s) + Len(wbuf[s]))
    /\ HasReceiver(o) => Numbered(rbuf[o], Passed(s)) /\ Numbered(wire[o], Passed(s) + Len(rbuf[o]))
    /\ Passed(s) <= sent[o]

\* Nothing is missing while both ends of the link are there, nor after the
\* rd loop has ended by itself: then its peer had closed.
Whole(s, o) ==
    /\ HasReceiver(o) /\ (HasSender(o) \/ rd[o] = "done") => Total(s) = sent[o]
    /\ HasReceiver(o) /\ rd[o] = "done" => fin[o] /\ wire[o] = <<>>
    /\ wr[s] = "done" => ~HasSender(o)
    /\ wr[s] = "done" /\ rd[o] = "done" => fin[o]

Direction(s, o) == InOrder(s, o) /\ Whole(s, o)

RelayInv == Shapes /\ \A s \in Sides : Points(s) /\ Direction(s, Other(s))

LEMMA TwoSides ==
  ASSUME NEW s \in Sides
  PROVE  /\ Other(s) \in Sides /\ Other(s) # s /\ Other(Other(s)) = s
         /\ Sides \ {s} = {Other(s)} /\ \A r \in Sides : r = s \/ r = Other(s)
  BY DEF Sides, Other

\* It is enough to look at the actor's side and the other one.
LEMMA BothSides ==
  ASSUME NEW s \in Sides, Shapes', Points(s)', Points(Other(s))',
         Direction(s, Other(s))', Direction(Other(s), s)'
  PROVE  RelayInv'
  <1>1. ASSUME NEW r \in Sides PROVE Points(r)' /\ Direction(r, Other(r))'
    BY TwoSides
  <1> QED
    BY <1>1 DEF RelayInv

\* What the invariant says of both sides.
LEMMA InvAt ==
  ASSUME RelayInv, NEW s \in Sides
  PROVE  /\ Points(s) /\ Points(Other(s))
         /\ Direction(s, Other(s)) /\ Direction(Other(s), s)
  BY TwoSides DEF RelayInv

\* The lengths that the sums are made of.
LEMMA Lengths ==
  ASSUME Shapes, NEW s \in Sides
  PROVE  /\ Len(got[s]) \in Nat /\ Len(out[s]) \in Nat /\ Len(wbuf[s]) \in Nat
         /\ Len(chan[s]) \in Nat /\ Len(rbuf[s]) \in Nat /\ Len(wire[s]) \in Nat
         /\ sent[s] \in Nat
         /\ got[s] \in Seq(Nat) /\ out[s] \in Seq(Nat) /\ wbuf[s] \in Seq(Nat)
         /\ chan[s] \in Seq(Nat) /\ rbuf[s] \in Seq(Nat) /\ wire[s] \in Seq(Nat)
         /\ Front(s) \in Nat /\ Passed(s) \in Nat /\ Total(s) \in Nat
  <1>1. /\ Len(got[s]) \in Nat /\ Len(out[s]) \in Nat /\ Len(wbuf[s]) \in Nat
        /\ Len(chan[s]) \in Nat /\ Len(rbuf[s]) \in Nat /\ Len(wire[s]) \in Nat
        /\ sent[s] \in Nat
        /\ got[s] \in Seq(Nat) /\ out[s] \in Seq(Nat) /\ wbuf[s] \in Seq(Nat)
        /\ chan[s] \in Seq(Nat) /\ rbuf[s] \in Seq(Nat) /\ wire[s] \in Seq(Nat)
    BY DEF Shapes
  <1>2. Len(chan[Other(s)]) \in Nat /\ Len(rbuf[Other(s)]) \in Nat /\ Len(wire[Other(s)]) \in Nat
    BY TwoSides DEF Shapes
  <1>3. Front(s) \in Nat
    <2>1. \A a, b \in Nat : a + b \in Nat
      OBVIOUS
    <2> QED
      BY <1>1, <2>1, Zenon DEF Front
  <1>4. Passed(s) \in Nat
    BY <1>1, <1>2, <1>3 DEF Passed
  <1>5. Total(s) \in Nat
    BY <1>2, <1>4 DEF Total
  <1> QED
    BY <1>1, <1>3, <1>4, <1>5

\* A step that leaves a direction alone.
LEMMA DirectionStays ==
  ASSUME NEW s \in Sides, Direction(s, Other(s)),
         /\ got'[s] = got[s] /\ out'[s] = out[s] /\ wbuf'[s] = wbuf[s] /\ wr'[s] = wr[s]
         /\ chan'[Other(s)] = chan[Other(s)] /\ rbuf'[Other(s)] = rbuf[Other(s)]
         /\ wire'[Other(s)] = wire[Other(s)] /\ rd'[Other(s)] = rd[Other(s)]
         /\ sent'[Other(s)] = sent[Other(s)] /\ fin'[Other(s)] = fin[Other(s)],
         relay' = relay
  PROVE  Direction(s, Other(s))'
  BY TwoSides, Zenon DEF Direction, InOrder, Whole, Front, Passed, Total, HasReceiver, HasSender

-----------------------------------------------------------------------------
(* Each step keeps the invariant.                                          *)

\* The end of a relay: what it held is dropped, and nothing can follow it.
\* Its loops are where they were, or have just returned Ok.
LEMMA InvEnd ==
  ASSUME RelayInv, NEW s \in Sides, relay[s] \in {"dial", "run"},
         NEW how \in {"ok", "err"}, End(s, how), UNCHANGED <<flow, sent, fin, out, got>>,
         rd' = rd \/ ( /\ rd' = [rd EXCEPT ![s] = "done"]
                       /\ HasReceiver(s) => fin[s] /\ wire[s] = <<>> /\ rbuf[s] = <<>> ),
         wr' = wr \/ (wr' = [wr EXCEPT ![s] = "done"] /\ wr[s] # "done" /\ ~HasSender(Other(s)))
  PROVE  RelayInv'
  <1> DEFINE o == Other(s)
  <1>S. Shapes
    BY DEF RelayInv
  <1>O. o \in Sides /\ o # s /\ Other(o) = s
    BY TwoSides
  <1> HIDE DEF o
  <1>P. Points(s) /\ Points(o) /\ Direction(s, o) /\ Direction(o, s)
    BY InvAt DEF o
  <1>1. /\ relay'[s] = how /\ relay'[o] = relay[o]
        /\ wire'[s] = <<>> /\ wire'[o] = wire[o] /\ rbuf'[s] = <<>> /\ rbuf'[o] = rbuf[o]
        /\ wbuf'[s] = <<>> /\ wbuf'[o] = wbuf[o] /\ chan'[o] = <<>> /\ chan'[s] = chan[s]
    BY <1>S, <1>O DEF End, Shapes, o
  <1>2. /\ rd'[o] = rd[o]
        /\ \/ rd'[s] = rd[s]
           \/ rd'[s] = "done" /\ (HasReceiver(s) => fin[s] /\ wire[s] = <<>> /\ rbuf[s] = <<>>)
    BY <1>S, <1>O, Zenon DEF Shapes
  <1>3. /\ wr'[o] = wr[o]
        /\ wr'[s] = wr[s] \/ (wr'[s] = "done" /\ wr[s] # "done" /\ ~HasSender(o))
    BY <1>S, <1>O DEF Shapes, o
  <1>4. Shapes'
    BY <1>S, <1>O, NumberedEmpty, Zenon DEF Shapes, End, o
  <1>5. Points(s)' /\ Points(o)'
    BY <1>P, <1>O, <1>1, <1>2, <1>3 DEF Points, Gone, o
  <1>L. /\ Len(got[s]) \in Nat /\ Len(out[s]) \in Nat /\ Len(wbuf[s]) \in Nat /\ Len(chan[o]) \in Nat
        /\ sent[o] \in Nat /\ Len(got[o]) \in Nat /\ Len(out[o]) \in Nat /\ Len(wbuf[o]) \in Nat
        /\ Len(chan[s]) \in Nat /\ sent[s] \in Nat /\ Len(rbuf[s]) \in Nat /\ Len(wire[s]) \in Nat
    BY <1>S, <1>O, Lengths, Zenon
  <1>E. Len(<<>>) = 0 /\ \A n \in Nat : Numbered(<<>>, n)
    BY NumberedEmpty, Zenon
  <1>F. Front(s) \in Nat /\ Passed(s) \in Nat /\ Front(o) \in Nat /\ Passed(o) \in Nat
    BY <1>S, <1>O, Lengths
  <1>6. Direction(s, o)'
    <2>1. ~HasReceiver(o)'
      BY <1>1, <1>O, Zenon DEF HasReceiver
    <2>2. Front(s)' = Front(s) /\ Passed(s)' = Front(s) /\ Front(s) \in Nat /\ Front(s) <= Passed(s)
      <3>1. Front(s)' = Front(s)
        BY DEF Front
      <3>2. Passed(s)' = Front(s) + 0 + 0
        BY <3>1, <1>1, <1>E, Zenon DEF Passed, o
      <3>3. Passed(s) = Front(s) + Len(wbuf[s]) + Len(chan[o])
        BY DEF Passed, o
      <3>4. Len(wbuf[s]) \in Nat /\ Len(chan[o]) \in Nat
        BY <1>L
      <3>5. Passed(s)' = Front(s)
        BY <3>2, <1>F
      <3> QED
        BY <3>1, <3>3, <3>4, <3>5, <1>F
    <2>3. InOrder(s, o)'
      <3>1. Passed(s) <= sent[o]
        BY <1>P, Zenon DEF Direction, InOrder
      <3>2. Passed(s)' <= sent'[o]
        BY <3>1, <2>2, <1>F, <1>L
      <3>3. Numbered(wbuf'[s], Front(s)') /\ Numbered(chan'[o], Front(s)' + Len(wbuf'[s]))
        BY <1>1, <1>E, <2>2
      <3> QED
        BY <1>P, <2>1, <3>2, <3>3, Zenon DEF Direction, InOrder
    <2>4. wr'[s] = "done" => ~HasSender(o)'
      BY <1>P, <1>1, <1>2, <1>3, Zenon DEF Direction, Whole, HasSender
    <2>5. wr'[s] = "done" /\ rd'[o] = "done" => fin'[o]
      <3>1. CASE wr'[s] = wr[s]
        BY <3>1, <1>P, <1>2, Zenon DEF Direction, Whole
      <3>2. CASE wr[s] # "done"
        <4>1. HasReceiver(o)
          BY <3>2, <1>O, Zenon DEF HasReceiver
        <4> QED
          BY <4>1, <1>P, <1>2, Zenon DEF Direction, Whole
      <3> QED
        BY <3>1, <3>2, <1>3, Zenon
    <2> QED
      BY <2>1, <2>3, <2>4, <2>5 DEF Direction, Whole
  <1>7. Direction(o, s)'
    <2>1. ~HasSender(s)' /\ (HasReceiver(s)' <=> HasReceiver(s))
      BY <1>1, <1>3, <1>O, Zenon DEF HasReceiver, HasSender, o
    <2>2. Front(o)' = Front(o) /\ Passed(o)' = Passed(o) /\ Passed(o) \in Nat /\ Total(o)' = Passed(o)
      <3>1. Front(o)' = Front(o) /\ Passed(o)' = Passed(o)
        BY <1>1, <1>O, Zenon DEF Front, Passed
      <3>2. Total(o)' = Passed(o) + 0 + 0
        BY <3>1, <1>1, <1>O, <1>E, Zenon DEF Total
      <3> QED
        BY <3>1, <3>2, <1>F
    <2>3. InOrder(o, s)'
      BY <1>P, <1>1, <1>L, <2>1, <2>2, NumberedEmpty DEF Direction, InOrder
    <2>4. ASSUME HasReceiver(s), rd'[s] = "done"
          PROVE  Total(o) = sent[s] /\ fin[s] /\ wire[s] = <<>> /\ rbuf[s] = <<>>
      <3>1. fin[s] /\ wire[s] = <<>> /\ rbuf[s] = <<>>
        BY <2>4, <1>2, <1>P, Zenon DEF Direction, Whole, Points
      <3>2. HasSender(s) \/ rd[s] = "done"
        BY Zenon DEF HasSender
      <3> QED
        BY <2>4, <3>1, <3>2, <1>P, Zenon DEF Direction, Whole
    <2>5. HasReceiver(s) /\ rd'[s] = "done" => Total(o)' = sent'[s]
      BY <2>2, <2>4, <1>L, <1>O, NumberedEmpty DEF Total
    <2>6. wr'[o] = "done" /\ rd'[s] = "done" => fin'[s]
      <3>1. wr[o] = "done" => rd[s] = "done"
        BY <1>P, Zenon DEF Direction, Whole, HasSender
      <3> QED
        BY <3>1, <1>3, <1>P, Zenon DEF Direction, Whole
    <2> QED
      BY <2>1, <2>3, <2>4, <2>5, <2>6, <1>1, Zenon DEF Direction, Whole
  <1> QED
    BY <1>4, <1>5, <1>6, <1>7, BothSides DEF o

\* Sums of lengths, kept apart from the sequences they are lengths of.
LEMMA Sums ==
  /\ \A a, b \in Nat : a + b \in Nat
  /\ \A a \in Nat : a + 0 = a /\ 0 + a = a
  /\ \A a, b, c \in Nat : a + b + (c + 1) = (a + b + c) + 1
  /\ \A a \in Nat, b \in Nat \ {0} : (a + 1) + (b - 1) = a + b
  OBVIOUS

\* What the invariant gives a step of side s, with o for the other one.
LEMMA Given ==
  ASSUME RelayInv, NEW s \in Sides, NEW o \in Sides, o = Other(s)
  PROVE  /\ Shapes /\ o # s /\ Other(o) = s
         /\ Points(s) /\ Points(o) /\ Direction(s, o) /\ Direction(o, s)
         /\ Len(got[s]) \in Nat /\ Len(out[s]) \in Nat /\ Len(wbuf[s]) \in Nat
         /\ Len(rbuf[s]) \in Nat /\ Len(wire[s]) \in Nat /\ Len(chan[s]) \in Nat
         /\ Len(wbuf[o]) \in Nat /\ Len(chan[o]) \in Nat /\ sent[o] \in Nat /\ sent[s] \in Nat
         /\ got[s] \in Seq(Nat) /\ out[s] \in Seq(Nat) /\ wbuf[s] \in Seq(Nat) /\ chan[o] \in Seq(Nat)
         /\ rbuf[s] \in Seq(Nat) /\ wire[s] \in Seq(Nat) /\ chan[s] \in Seq(Nat)
         /\ Front(s) \in Nat /\ Passed(s) \in Nat /\ Total(s) \in Nat
         /\ Front(o) \in Nat /\ Passed(o) \in Nat /\ Total(o) \in Nat
  <1>1. Shapes /\ o # s /\ Other(o) = s
    BY TwoSides DEF RelayInv
  <1>2. Points(s) /\ Points(o) /\ Direction(s, o) /\ Direction(o, s)
    BY InvAt
  <1> QED
    BY <1>1, <1>2, Lengths, Zenon

\* The empty queue, written out for the steps that empty one.
LEMMA Nothing == Len(<<>>) = 0 /\ (\A n \in Nat : Numbered(<<>>, n)) /\ <<>> \in Seq(Nat)
  BY NumberedEmpty

LEMMA InvPeerSend ==
  ASSUME RelayInv, NEW s \in Sides, NEW o \in Sides, o = Other(s), PeerSend(s)
  PROVE  RelayInv'
  <1>S. Shapes
    BY Given
  <1>O. o \in Sides /\ o # s /\ Other(o) = s /\ Other(s) = o
    BY Given, Zenon
  <1>P. Points(s) /\ Points(o) /\ Direction(s, o) /\ Direction(o, s)
    BY Given, Zenon
  <1>L. /\ Len(got[s]) \in Nat /\ Len(out[s]) \in Nat /\ Len(wbuf[s]) \in Nat /\ Len(chan[o]) \in Nat
        /\ Len(rbuf[s]) \in Nat /\ Len(wire[s]) \in Nat /\ Len(chan[s]) \in Nat
        /\ sent[o] \in Nat /\ sent[s] \in Nat
    BY Given, Zenon
  <1>Q. /\ got[s] \in Seq(Nat) /\ out[s] \in Seq(Nat) /\ wbuf[s] \in Seq(Nat) /\ chan[o] \in Seq(Nat)
        /\ rbuf[s] \in Seq(Nat) /\ wire[s] \in Seq(Nat) /\ chan[s] \in Seq(Nat)
    BY Given, Zenon
  <1>F. /\ Front(s) \in Nat /\ Passed(s) \in Nat /\ Total(s) \in Nat
        /\ Front(o) \in Nat /\ Passed(o) \in Nat /\ Total(o) \in Nat
    BY Given, Zenon
  <1>1. /\ sent' = [sent EXCEPT ![s] = sent[s] + 1]
        /\ wire' = [wire EXCEPT ![s] = Append(wire[s], sent[s] + 1)]
        /\ UNCHANGED <<flow, fin, out, got, relay, rd, rbuf, wr, wbuf, chan>>
        /\ ~fin[s] /\ Running(s)
    BY DEF PeerSend
  <1>2. /\ sent'[s] = sent[s] + 1 /\ wire'[s] = Append(wire[s], sent[s] + 1)
        /\ sent'[o] = sent[o] /\ wire'[o] = wire[o]
    BY <1>1, <1>S, <1>O, Zenon DEF Shapes
  <1>3. Append(wire[s], sent[s] + 1) \in Seq(Nat) /\ Len(wire'[s]) = Len(wire[s]) + 1
    BY <1>2, <1>Q, <1>L
  <1>4. Shapes'
    <2>1. sent[s] + 1 \in Nat
      BY <1>L
    <2>2. sent' \in [Sides -> Nat]
      BY <2>1, <1>1, <1>S DEF Shapes
    <2>3. wire' \in [Sides -> Seq(Nat)]
      BY <1>1, <1>3, <1>S DEF Shapes
    <2> QED
      BY <2>2, <2>3, <1>1, <1>S, Zenon DEF Shapes
  <1>5. Points(s)' /\ Points(o)'
    BY <1>1, <1>2, <1>P, <1>O DEF Points, Gone, Running
  <1>6. Direction(s, o)'
    BY <1>1, <1>2, <1>P, <1>O, DirectionStays, Zenon
  <1>7. /\ Front(o)' = Front(o) /\ Passed(o)' = Passed(o) /\ Total(o)' = Total(o) + 1
        /\ HasReceiver(s)' = HasReceiver(s) /\ HasSender(s)' = HasSender(s)
    <2>1. Front(o)' = Front(o) /\ Passed(o)' = Passed(o)
      BY <1>1, <1>O DEF Front, Passed
    <2>2. Total(o) = Passed(o) + Len(rbuf[s]) + Len(wire[s])
      BY <1>O DEF Total
    <2>3. Total(o)' = Passed(o) + Len(rbuf[s]) + (Len(wire[s]) + 1)
      BY <2>1, <1>1, <1>3, <1>O, Zenon DEF Total
    <2>4. Passed(o) + Len(rbuf[s]) + (Len(wire[s]) + 1) = (Passed(o) + Len(rbuf[s]) + Len(wire[s])) + 1
      <3>1. Passed(o) \in Nat /\ Len(rbuf[s]) \in Nat /\ Len(wire[s]) \in Nat
        BY <1>F, <1>L
      <3> QED
        BY <3>1, Sums, Zenon
    <2>5. Total(o)' = Total(o) + 1
      BY <2>2, <2>3, <2>4
    <2> QED
      BY <2>1, <2>5, <1>1, Zenon DEF HasReceiver, HasSender
  <1>8. HasReceiver(s) => rd[s] # "done" /\ HasSender(s) /\ Total(o) = sent[s]
    BY <1>1, <1>P, Zenon DEF Direction, Whole, HasSender, Running
  <1>9. ASSUME HasReceiver(s) PROVE Numbered(wire'[s], Passed(o) + Len(rbuf[s]))
    <2>1. Numbered(wire[s], Passed(o) + Len(rbuf[s])) /\ Passed(o) + Len(rbuf[s]) \in Nat
      BY <1>9, <1>P, <1>F, <1>L, Sums, Zenon DEF Direction, InOrder
    <2>2. wire'[s] = Append(wire[s], (Passed(o) + Len(rbuf[s])) + Len(wire[s]) + 1)
      BY <1>2, <1>8, <1>9, <1>O, Zenon DEF Total
    <2>3. wire[s] \in Seq(Nat)
      BY <1>Q, Zenon
    <2>4. Numbered(Append(wire[s], (Passed(o) + Len(rbuf[s])) + Len(wire[s]) + 1), Passed(o) + Len(rbuf[s]))
      BY <2>1, <2>3, NumberedAdd, Zenon
    <2> QED
      BY <2>2, <2>4, Zenon
  <1>10. InOrder(o, s)'
    <2>1. Passed(o)' <= sent'[s]
      <3>1. \A a, b \in Nat : a <= b => a <= b + 1
        OBVIOUS
      <3>2. Passed(o) <= sent[s]
        BY <1>P, Zenon DEF Direction, InOrder
      <3>3. Passed(o) \in Nat /\ sent[s] \in Nat
        BY <1>F, <1>L, Zenon
      <3>4. Passed(o) <= sent[s] + 1
        BY <3>1, <3>2, <3>3, Zenon
      <3> QED
        BY <3>4, <1>2, <1>7, Zenon
    <2> QED
      BY <2>1, <1>1, <1>7, <1>9, <1>P, Zenon DEF Direction, InOrder
  <1>11. Whole(o, s)'
    BY <1>1, <1>2, <1>7, <1>8, <1>P, Zenon DEF Direction, Whole
  <1> QED
    BY <1>4, <1>5, <1>6, <1>10, <1>11, BothSides DEF Direction

LEMMA InvPeerFin ==
  ASSUME RelayInv, NEW s \in Sides, NEW o \in Sides, o = Other(s), PeerFin(s)
  PROVE  RelayInv'
  <1>S. Shapes
    BY Given
  <1>O. o \in Sides /\ o # s /\ Other(o) = s /\ Other(s) = o
    BY Given
  <1>P. Points(s) /\ Points(o) /\ Direction(s, o) /\ Direction(o, s)
    BY Given
  <1>1. /\ fin'[s] = TRUE /\ fin'[o] = fin[o] /\ fin' \in [Sides -> BOOLEAN]
        /\ UNCHANGED <<flow, sent, wire, out, got, relay, rd, rbuf, wr, wbuf, chan>>
    BY <1>S, <1>O DEF PeerFin, Shapes
  <1>2. Shapes'
    BY <1>1, <1>S, Zenon DEF Shapes
  <1>3. Points(s)' /\ Points(o)'
    BY <1>1, <1>P, <1>O DEF Points, Gone
  <1>4. Direction(s, o)'
    BY <1>1, <1>P, <1>O, DirectionStays, Zenon
  <1>5. Direction(o, s)'
    BY <1>1, <1>P, <1>O, Zenon DEF Direction, InOrder, Whole, Front, Passed, Total, HasReceiver, HasSender
  <1> QED
    BY <1>2, <1>3, <1>4, <1>5, BothSides, Zenon

LEMMA InvPeerRead ==
  ASSUME RelayInv, NEW s \in Sides, NEW o \in Sides, o = Other(s), PeerRead(s)
  PROVE  RelayInv'
  <1>S. Shapes
    BY Given
  <1>O. o \in Sides /\ o # s /\ Other(o) = s /\ Other(s) = o
    BY Given
  <1>P. Points(s) /\ Points(o) /\ Direction(s, o) /\ Direction(o, s)
    BY Given
  <1>L. /\ Len(got[s]) \in Nat /\ Len(out[s]) \in Nat /\ Len(wbuf[s]) \in Nat /\ Len(chan[o]) \in Nat
        /\ Len(rbuf[s]) \in Nat /\ Len(wire[s]) \in Nat /\ Len(chan[s]) \in Nat
        /\ sent[o] \in Nat /\ sent[s] \in Nat
    BY Given
  <1>Q. /\ got[s] \in Seq(Nat) /\ out[s] \in Seq(Nat) /\ wbuf[s] \in Seq(Nat) /\ chan[o] \in Seq(Nat)
        /\ rbuf[s] \in Seq(Nat) /\ wire[s] \in Seq(Nat) /\ chan[s] \in Seq(Nat)
    BY Given
  <1>1. /\ out[s] # <<>>
        /\ got' = [got EXCEPT ![s] = Append(got[s], Head(out[s]))]
        /\ out' = [out EXCEPT ![s] = Tail(out[s])]
        /\ UNCHANGED <<flow, sent, fin, wire, relay, rd, rbuf, wr, wbuf, chan>>
    BY DEF PeerRead, peerVars
  <1>2. /\ got'[s] = Append(got[s], Head(out[s])) /\ out'[s] = Tail(out[s])
        /\ got'[o] = got[o] /\ out'[o] = out[o]
    BY <1>1, <1>S, <1>O, Zenon DEF Shapes
  <1>3. /\ Head(out[s]) = Len(got[s]) + 1 /\ Len(out[s]) \in Nat \ {0}
        /\ Tail(out[s]) \in Seq(Nat) /\ Len(Tail(out[s])) = Len(out[s]) - 1
        /\ Numbered(Tail(out[s]), Len(got[s]) + 1)
    BY <1>1, <1>P, <1>Q, <1>L, NumberedTake, Zenon DEF Direction, InOrder
  <1>4. /\ got'[s] \in Seq(Nat) /\ Len(got'[s]) = Len(got[s]) + 1 /\ Numbered(got'[s], 0)
    <2>1. Numbered(got[s], 0)
      BY <1>P, Zenon DEF Direction, InOrder
    <2>2. 0 + Len(got[s]) + 1 = Len(got[s]) + 1
      BY <1>L
    <2>3. got'[s] = Append(got[s], 0 + Len(got[s]) + 1)
      BY <2>2, <1>2, <1>3, Zenon
    <2> QED
      BY <2>1, <2>3, <1>Q, NumberedAdd
  <1>5. Shapes'
    BY <1>1, <1>2, <1>3, <1>4, <1>S, Zenon DEF Shapes
  <1>6. Points(s)' /\ Points(o)'
    BY <1>1, <1>P, <1>O DEF Points, Gone
  <1>7. Direction(o, s)'
    BY <1>1, <1>2, <1>P, <1>O, DirectionStays, Zenon
  <1>8. Front(s)' = Front(s)
    <2>1. (Len(got[s]) + 1) + (Len(out[s]) - 1) = Len(got[s]) + Len(out[s])
      BY <1>3, <1>L, Sums, Zenon
    <2> QED
      BY <2>1, <1>2, <1>3, <1>4, Zenon DEF Front
  <1>9. Passed(s)' = Passed(s) /\ Total(s)' = Total(s)
    BY <1>1, <1>8, Zenon DEF Passed, Total
  <1>10. Direction(s, o)'
    BY <1>1, <1>2, <1>3, <1>4, <1>8, <1>9, <1>P, Zenon
       DEF Direction, InOrder, Whole, HasReceiver, HasSender
  <1> QED
    BY <1>5, <1>6, <1>7, <1>10, BothSides

LEMMA InvReadChunk ==
  ASSUME RelayInv, NEW s \in Sides, NEW o \in Sides, o = Other(s), ReadChunk(s)
  PROVE  RelayInv'
  <1>S. Shapes
    BY Given
  <1>O. o \in Sides /\ o # s /\ Other(o) = s /\ Other(s) = o
    BY Given
  <1>P. Points(s) /\ Points(o) /\ Direction(s, o) /\ Direction(o, s)
    BY Given
  <1>Q. /\ got[s] \in Seq(Nat) /\ out[s] \in Seq(Nat) /\ wbuf[s] \in Seq(Nat) /\ chan[o] \in Seq(Nat)
        /\ rbuf[s] \in Seq(Nat) /\ wire[s] \in Seq(Nat) /\ chan[s] \in Seq(Nat)
    BY Given
  <1>F. /\ Front(s) \in Nat /\ Passed(s) \in Nat /\ Total(s) \in Nat
        /\ Front(o) \in Nat /\ Passed(o) \in Nat /\ Total(o) \in Nat
    BY Given
  <1>E. Len(<<>>) = 0 /\ (\A n \in Nat : Numbered(<<>>, n)) /\ <<>> \in Seq(Nat)
    BY Nothing
  <1>1. /\ Running(s) /\ rd[s] = "read" /\ wire[s] # <<>>
        /\ rbuf' = [rbuf EXCEPT ![s] = <<Head(wire[s])>>]
        /\ wire' = [wire EXCEPT ![s] = Tail(wire[s])]
        /\ rd' = [rd EXCEPT ![s] = "send"]
        /\ UNCHANGED <<flow, sent, fin, out, got, relay, wr, wbuf, chan>>
    BY DEF ReadChunk, peerVars
  <1>2. /\ rbuf'[s] = <<Head(wire[s])>> /\ wire'[s] = Tail(wire[s]) /\ rd'[s] = "send"
        /\ rbuf'[o] = rbuf[o] /\ wire'[o] = wire[o] /\ rd'[o] = rd[o]
    BY <1>1, <1>S, <1>O, Zenon DEF Shapes
  <1>3. rbuf[s] = <<>> /\ ~Gone(s) /\ Passed(o) + Len(rbuf[s]) = Passed(o) + 0
    BY <1>1, <1>P, <1>E, Zenon DEF Points, Gone, Running
  <1>4. /\ Len(wire[s]) \in Nat \ {0} /\ Head(wire[s]) \in Nat
        /\ Tail(wire[s]) \in Seq(Nat) /\ Len(Tail(wire[s])) = Len(wire[s]) - 1
        /\ <<Head(wire[s])>> \in Seq(Nat) /\ Len(<<Head(wire[s])>>) = 1
    <2>1. wire[s] \in Seq(Nat) /\ wire[s] # <<>>
      BY <1>1, <1>Q, Zenon
    <2> QED
      BY <2>1, TakeOne, Zenon
  <1>5. Shapes'
    <2>1. wire' \in [Sides -> Seq(Nat)] /\ rbuf' \in [Sides -> Seq(Nat)]
      BY <1>1, <1>4, <1>S, Zenon DEF Shapes
    <2>2. rd' \in [Sides -> {"lead", "read", "send", "done"}]
      BY <1>1, <1>S, Zenon DEF Shapes
    <2> QED
      BY <2>1, <2>2, <1>1, <1>S, Zenon DEF Shapes
  <1>6. Points(s)' /\ Points(o)'
    BY <1>1, <1>2, <1>3, <1>4, <1>P, <1>O, Zenon DEF Points, Gone, Running
  <1>7. Direction(s, o)'
    BY <1>1, <1>2, <1>P, <1>O, DirectionStays, Zenon
  <1>8. Front(o)' = Front(o) /\ Passed(o)' = Passed(o)
    BY <1>1, <1>O DEF Front, Passed
  <1>9. HasReceiver(s)' = HasReceiver(s) /\ HasSender(s)' /\ HasSender(s)
    BY <1>1, <1>2, Zenon DEF HasReceiver, HasSender, Running
  <1>10. Total(o)' = Total(o)
    <2>1. Total(o) = Passed(o) + 0 + Len(wire[s])
      BY <1>3, <1>O, <1>E, Zenon DEF Total
    <2>2. Total(o)' = Passed(o) + 1 + (Len(wire[s]) - 1)
      BY <1>2, <1>4, <1>8, <1>O, Zenon DEF Total
    <2>3. \A a \in Nat, b \in Nat \ {0} : a + 0 + b = a + 1 + (b - 1)
      OBVIOUS
    <2>4. Passed(o) \in Nat /\ Len(wire[s]) \in Nat \ {0}
      BY <1>4, <1>F, Zenon
    <2> QED
      BY <2>1, <2>2, <2>3, <2>4, Zenon
  <1>11. ASSUME HasReceiver(s)
         PROVE  Numbered(rbuf'[s], Passed(o)) /\ Numbered(wire'[s], Passed(o) + Len(rbuf'[s]))
    <2>1. Numbered(wire[s], Passed(o))
      <3>1. Numbered(wire[s], Passed(o) + Len(rbuf[s]))
        BY <1>11, <1>P, Zenon DEF Direction, InOrder
      <3>2. Passed(o) + Len(rbuf[s]) = Passed(o)
        BY <1>3, <1>F, Sums, Zenon
      <3> QED
        BY <3>1, <3>2, Zenon
    <2>2. Head(wire[s]) = Passed(o) + 1 /\ Numbered(Tail(wire[s]), Passed(o) + 1)
      BY <2>1, <1>1, <1>Q, <1>F, NumberedTake, Zenon
    <2> QED
      BY <2>2, <1>2, <1>4, <1>F, NumberedOne, Zenon
  <1>12. Direction(o, s)'
    BY <1>1, <1>2, <1>8, <1>9, <1>10, <1>11, <1>P, Zenon DEF Direction, InOrder, Whole
  <1> QED
    BY <1>5, <1>6, <1>7, <1>12, BothSides

LEMMA InvSendChunk ==
  ASSUME RelayInv, NEW s \in Sides, NEW o \in Sides, o = Other(s), SendChunk(s)
  PROVE  RelayInv'
  <1>S. Shapes
    BY Given
  <1>O. o \in Sides /\ o # s /\ Other(o) = s /\ Other(s) = o
    BY Given
  <1>P. Points(s) /\ Points(o) /\ Direction(s, o) /\ Direction(o, s)
    BY Given
  <1>L. /\ Len(got[s]) \in Nat /\ Len(out[s]) \in Nat /\ Len(wbuf[s]) \in Nat /\ Len(chan[o]) \in Nat
        /\ Len(rbuf[s]) \in Nat /\ Len(wire[s]) \in Nat /\ Len(chan[s]) \in Nat
        /\ sent[o] \in Nat /\ sent[s] \in Nat
    BY Given
  <1>Q. /\ got[s] \in Seq(Nat) /\ out[s] \in Seq(Nat) /\ wbuf[s] \in Seq(Nat) /\ chan[o] \in Seq(Nat)
        /\ rbuf[s] \in Seq(Nat) /\ wire[s] \in Seq(Nat) /\ chan[s] \in Seq(Nat)
    BY Given
  <1>F. /\ Front(s) \in Nat /\ Passed(s) \in Nat /\ Total(s) \in Nat
        /\ Front(o) \in Nat /\ Passed(o) \in Nat /\ Total(o) \in Nat
    BY Given
  <1>E. Len(<<>>) = 0 /\ (\A n \in Nat : Numbered(<<>>, n)) /\ <<>> \in Seq(Nat)
    BY Nothing
  <1>1. /\ Running(s) /\ rd[s] \in {"lead", "send"} /\ HasReceiver(s)
        /\ chan' = [chan EXCEPT ![s] = chan[s] \o rbuf[s]]
        /\ rbuf' = [rbuf EXCEPT ![s] = <<>>]
        /\ rd' = [rd EXCEPT ![s] = "read"]
        /\ UNCHANGED <<flow, sent, fin, wire, out, got, relay, wr, wbuf>>
    BY DEF SendChunk, peerVars
  <1>2. /\ chan'[s] = chan[s] \o rbuf[s] /\ rbuf'[s] = <<>> /\ rd'[s] = "read"
        /\ chan'[o] = chan[o] /\ rbuf'[o] = rbuf[o] /\ rd'[o] = rd[o]
    BY <1>1, <1>S, <1>O, Zenon DEF Shapes
  <1>3. chan[s] \o rbuf[s] \in Seq(Nat) /\ Len(chan'[s]) = Len(chan[s]) + Len(rbuf[s])
    BY <1>2, <1>Q
  <1>4. Shapes'
    <2>1. chan' \in [Sides -> Seq(Nat)] /\ rbuf' \in [Sides -> Seq(Nat)]
      BY <1>1, <1>3, <1>S, NumberedEmpty, Zenon DEF Shapes
    <2>2. rd' \in [Sides -> {"lead", "read", "send", "done"}]
      BY <1>1, <1>S, Zenon DEF Shapes
    <2> QED
      BY <2>1, <2>2, <1>1, <1>S, Zenon DEF Shapes
  <1>5. ~Gone(s) /\ ~Gone(o)
    BY <1>1, <1>O, Zenon DEF Running, HasReceiver, Gone
  <1>6. Points(s)' /\ Points(o)'
    BY <1>1, <1>2, <1>5, <1>P, <1>O, Zenon DEF Points, Gone, Running
  <1>7. Direction(s, o)'
    BY <1>1, <1>2, <1>P, <1>O, DirectionStays, Zenon
  <1>8. HasReceiver(s)' = HasReceiver(s) /\ HasSender(s)' /\ HasSender(s)
    BY <1>1, <1>2, Zenon DEF HasReceiver, HasSender, Running
  <1> DEFINE a == Front(o) + Len(wbuf[o])
  <1>9. Len(wbuf[o]) \in Nat /\ a \in Nat
    BY <1>F, <1>S, <1>O, Lengths, Sums, Zenon
  <1>10. Front(o)' = Front(o) /\ Passed(o) = a + Len(chan[s]) /\ Passed(o)' = a + (Len(chan[s]) + Len(rbuf[s]))
    BY <1>1, <1>3, <1>O, Zenon DEF Front, Passed
  <1>11. Total(o) = Passed(o) + Len(rbuf[s]) + Len(wire[s]) /\ Total(o)' = Passed(o)' + 0 + Len(wire[s])
    BY <1>1, <1>2, <1>O, <1>E, Zenon DEF Total
  <1>12. Total(o) = sent[s] /\ Numbered(chan[s], a) /\ Numbered(wbuf[o], Front(o))
         /\ Numbered(rbuf[s], Passed(o)) /\ Numbered(wire[s], Passed(o) + Len(rbuf[s]))
    BY <1>1, <1>8, <1>P, Zenon DEF Direction, InOrder, Whole
  <1> HIDE DEF a
  <1>13. /\ Passed(o)' = Passed(o) + Len(rbuf[s]) /\ Total(o)' = Total(o)
         /\ Passed(o)' <= Total(o)
    <2>1. \A b, c, r, w \in Nat :
             /\ b + (c + r) = (b + c) + r
             /\ (b + (c + r)) + 0 + w = (b + c) + r + w
             /\ b + (c + r) <= (b + c) + r + w
      OBVIOUS
    <2>2. a \in Nat /\ Len(chan[s]) \in Nat /\ Len(rbuf[s]) \in Nat /\ Len(wire[s]) \in Nat
      BY <1>9, <1>L
    <2>3. /\ a + (Len(chan[s]) + Len(rbuf[s])) = (a + Len(chan[s])) + Len(rbuf[s])
          /\ (a + (Len(chan[s]) + Len(rbuf[s]))) + 0 + Len(wire[s]) = (a + Len(chan[s])) + Len(rbuf[s]) + Len(wire[s])
          /\ a + (Len(chan[s]) + Len(rbuf[s])) <= (a + Len(chan[s])) + Len(rbuf[s]) + Len(wire[s])
      BY <2>1, <2>2, Zenon
    <2> QED
      BY <2>3, <1>10, <1>11, Zenon
  <1>14. Numbered(chan'[s], a)
    <2>1. Numbered(rbuf[s], a + Len(chan[s])) /\ Numbered(chan[s], a)
      BY <1>10, <1>12, Zenon
    <2>2. chan[s] \in Seq(Nat) /\ rbuf[s] \in Seq(Nat) /\ a \in Nat
      BY <1>9, <1>Q
    <2>3. Numbered(chan[s] \o rbuf[s], a)
      BY <2>1, <2>2, NumberedJoin, Zenon
    <2> QED
      BY <2>3, <1>2, Zenon
  <1>15. InOrder(o, s)'
    <2>1. Passed(o) + Len(rbuf[s]) \in Nat /\ Passed(o)' + Len(rbuf'[s]) = Passed(o) + Len(rbuf[s])
      <3>1. Passed(o) + Len(rbuf[s]) \in Nat
        BY <1>F, <1>L, Sums, Zenon
      <3>2. Passed(o)' + Len(rbuf'[s]) = (Passed(o) + Len(rbuf[s])) + 0
        BY <1>2, <1>13, <1>E, Zenon
      <3> QED
        BY <3>1, <3>2, Sums, Zenon
    <2>2. Numbered(rbuf'[s], Passed(o)')
      BY <2>1, <1>2, <1>13, <1>E, Zenon
    <2> QED
      BY <2>1, <2>2, <1>1, <1>10, <1>12, <1>13, <1>14, <1>P, Zenon DEF Direction, InOrder, a
  <1>16. Whole(o, s)'
    BY <1>1, <1>2, <1>8, <1>12, <1>13, <1>P, Zenon DEF Direction, Whole
  <1> QED
    BY <1>4, <1>6, <1>7, <1>15, <1>16, BothSides DEF Direction

LEMMA InvRecvChunk ==
  ASSUME RelayInv, NEW s \in Sides, NEW o \in Sides, o = Other(s), RecvChunk(s)
  PROVE  RelayInv'
  <1>S. Shapes
    BY Given
  <1>O. o \in Sides /\ o # s /\ Other(o) = s /\ Other(s) = o
    BY Given
  <1>P. Points(s) /\ Points(o) /\ Direction(s, o) /\ Direction(o, s)
    BY Given
  <1>Q. /\ got[s] \in Seq(Nat) /\ out[s] \in Seq(Nat) /\ wbuf[s] \in Seq(Nat) /\ chan[o] \in Seq(Nat)
        /\ rbuf[s] \in Seq(Nat) /\ wire[s] \in Seq(Nat) /\ chan[s] \in Seq(Nat)
    BY Given
  <1>F. /\ Front(s) \in Nat /\ Passed(s) \in Nat /\ Total(s) \in Nat
        /\ Front(o) \in Nat /\ Passed(o) \in Nat /\ Total(o) \in Nat
    BY Given
  <1>E. Len(<<>>) = 0 /\ (\A n \in Nat : Numbered(<<>>, n)) /\ <<>> \in Seq(Nat)
    BY Nothing
  <1>1. /\ Running(s) /\ wr[s] = "recv" /\ chan[o] # <<>>
        /\ wbuf' = [wbuf EXCEPT ![s] = <<Head(chan[o])>>]
        /\ chan' = [chan EXCEPT ![o] = Tail(chan[o])]
        /\ wr' = [wr EXCEPT ![s] = "write"]
        /\ UNCHANGED <<flow, sent, fin, wire, out, got, relay, rd, rbuf>>
    BY DEF RecvChunk, Receiving, peerVars
  <1>2. /\ wbuf'[s] = <<Head(chan[o])>> /\ chan'[o] = Tail(chan[o]) /\ wr'[s] = "write"
        /\ wbuf'[o] = wbuf[o] /\ chan'[s] = chan[s] /\ wr'[o] = wr[o]
    BY <1>1, <1>S, <1>O, Zenon DEF Shapes
  <1>3. wbuf[s] = <<>> /\ Len(wbuf[s]) = 0 /\ ~Gone(s)
    BY <1>1, <1>P, <1>E, Zenon DEF Points, Gone, Running
  <1>4. /\ Len(chan[o]) \in Nat \ {0} /\ Head(chan[o]) \in Nat
        /\ Tail(chan[o]) \in Seq(Nat) /\ Len(Tail(chan[o])) = Len(chan[o]) - 1
        /\ <<Head(chan[o])>> \in Seq(Nat) /\ Len(<<Head(chan[o])>>) = 1
    <2>1. chan[o] \in Seq(Nat) /\ chan[o] # <<>>
      BY <1>1, <1>Q, Zenon
    <2> QED
      BY <2>1, TakeOne, Zenon
  <1>5. Shapes'
    <2>1. chan' \in [Sides -> Seq(Nat)] /\ wbuf' \in [Sides -> Seq(Nat)]
      BY <1>1, <1>4, <1>S, Zenon DEF Shapes
    <2>2. wr' \in [Sides -> {"recv", "write", "done"}]
      BY <1>1, <1>S, Zenon DEF Shapes
    <2> QED
      BY <2>1, <2>2, <1>1, <1>S, Zenon DEF Shapes
  <1>6. Points(s)' /\ Points(o)'
    BY <1>1, <1>2, <1>3, <1>4, <1>P, <1>O, Zenon DEF Points, Gone, Running
  <1>7. Direction(o, s)'
    BY <1>1, <1>2, <1>P, <1>O, DirectionStays, Zenon
  <1>8. HasReceiver(o)' = HasReceiver(o) /\ HasSender(o)' = HasSender(o) /\ HasReceiver(o)
    BY <1>1, <1>2, <1>O, Zenon DEF HasReceiver, HasSender, Running
  <1>9. Front(s)' = Front(s) /\ Passed(s)' = Passed(s)
    <2>1. Front(s)' = Front(s)
      BY <1>1 DEF Front
    <2>2. Passed(s) = Front(s) + 0 + Len(chan[o])
      BY <1>3, <1>O, Zenon DEF Passed
    <2>3. Passed(s)' = Front(s) + 1 + (Len(chan[o]) - 1)
      BY <2>1, <1>2, <1>4, <1>O, Zenon DEF Passed
    <2>4. \A a \in Nat, b \in Nat \ {0} : a + 0 + b = a + 1 + (b - 1)
      OBVIOUS
    <2>5. Front(s) \in Nat /\ Len(chan[o]) \in Nat \ {0}
      BY <1>4, <1>F, Zenon
    <2> QED
      BY <2>1, <2>2, <2>3, <2>4, <2>5, Zenon
  <1>10. Total(s)' = Total(s)
    BY <1>1, <1>9, Zenon DEF Total
  <1>11. Numbered(wbuf'[s], Front(s)) /\ Numbered(chan'[o], Front(s) + Len(wbuf'[s]))
    <2>1. Numbered(chan[o], Front(s))
      <3>1. Numbered(chan[o], Front(s) + Len(wbuf[s]))
        BY <1>P, Zenon DEF Direction, InOrder
      <3>2. Front(s) + Len(wbuf[s]) = Front(s)
        BY <1>3, <1>F, Sums, Zenon
      <3> QED
        BY <3>1, <3>2, Zenon
    <2>2. Head(chan[o]) = Front(s) + 1 /\ Numbered(Tail(chan[o]), Front(s) + 1)
      BY <2>1, <1>1, <1>Q, <1>F, NumberedTake, Zenon
    <2> QED
      BY <2>2, <1>2, <1>4, <1>F, NumberedOne, Zenon
  <1>12. InOrder(s, o)'
    BY <1>1, <1>8, <1>9, <1>11, <1>P, Zenon DEF Direction, InOrder
  <1>13. Whole(s, o)'
    BY <1>1, <1>2, <1>8, <1>10, <1>P, Zenon DEF Direction, Whole
  <1> QED
    BY <1>5, <1>6, <1>7, <1>12, <1>13, BothSides, Zenon DEF Direction

LEMMA InvWriteChunk ==
  ASSUME RelayInv, NEW s \in Sides, NEW o \in Sides, o = Other(s), WriteChunk(s)
  PROVE  RelayInv'
  <1>S. Shapes
    BY Given
  <1>O. o \in Sides /\ o # s /\ Other(o) = s /\ Other(s) = o
    BY Given
  <1>P. Points(s) /\ Points(o) /\ Direction(s, o) /\ Direction(o, s)
    BY Given
  <1>L. /\ Len(got[s]) \in Nat /\ Len(out[s]) \in Nat /\ Len(wbuf[s]) \in Nat /\ Len(chan[o]) \in Nat
        /\ Len(rbuf[s]) \in Nat /\ Len(wire[s]) \in Nat /\ Len(chan[s]) \in Nat
        /\ sent[o] \in Nat /\ sent[s] \in Nat
    BY Given
  <1>Q. /\ got[s] \in Seq(Nat) /\ out[s] \in Seq(Nat) /\ wbuf[s] \in Seq(Nat) /\ chan[o] \in Seq(Nat)
        /\ rbuf[s] \in Seq(Nat) /\ wire[s] \in Seq(Nat) /\ chan[s] \in Seq(Nat)
    BY Given
  <1>F. /\ Front(s) \in Nat /\ Passed(s) \in Nat /\ Total(s) \in Nat
        /\ Front(o) \in Nat /\ Passed(o) \in Nat /\ Total(o) \in Nat
    BY Given
  <1>E. Len(<<>>) = 0 /\ (\A n \in Nat : Numbered(<<>>, n)) /\ <<>> \in Seq(Nat)
    BY Nothing
  <1>1. /\ Running(s) /\ wr[s] = "write"
        /\ out' = [out EXCEPT ![s] = out[s] \o wbuf[s]]
        /\ wbuf' = [wbuf EXCEPT ![s] = <<>>]
        /\ wr' = [wr EXCEPT ![s] = "recv"]
        /\ UNCHANGED <<flow, sent, fin, wire, got, relay, rd, rbuf, chan>>
    BY DEF WriteChunk, peerVars
  <1>2. /\ out'[s] = out[s] \o wbuf[s] /\ wbuf'[s] = <<>> /\ wr'[s] = "recv"
        /\ out'[o] = out[o] /\ wbuf'[o] = wbuf[o] /\ wr'[o] = wr[o]
    BY <1>1, <1>S, <1>O, Zenon DEF Shapes
  <1>3. out[s] \o wbuf[s] \in Seq(Nat) /\ Len(out'[s]) = Len(out[s]) + Len(wbuf[s])
    BY <1>2, <1>Q
  <1>4. Shapes'
    <2>1. out' \in [Sides -> Seq(Nat)] /\ wbuf' \in [Sides -> Seq(Nat)]
      BY <1>1, <1>3, <1>S, NumberedEmpty, Zenon DEF Shapes
    <2>2. wr' \in [Sides -> {"recv", "write", "done"}]
      BY <1>1, <1>S, Zenon DEF Shapes
    <2> QED
      BY <2>1, <2>2, <1>1, <1>S, Zenon DEF Shapes
  <1>5. Points(s)' /\ Points(o)'
    BY <1>1, <1>2, <1>P, <1>O, Zenon DEF Points, Gone, Running
  <1>6. Direction(o, s)'
    BY <1>1, <1>2, <1>P, <1>O, DirectionStays, Zenon
  <1>7. HasReceiver(o)' = HasReceiver(o) /\ HasSender(o)' = HasSender(o) /\ HasReceiver(o)
    BY <1>1, <1>2, <1>O, Zenon DEF HasReceiver, HasSender, Running
  <1>8. Front(s)' = Front(s) + Len(wbuf[s])
    <2>1. \A a, b, c \in Nat : a + (b + c) = (a + b) + c
      OBVIOUS
    <2>2. Len(got[s]) + (Len(out[s]) + Len(wbuf[s])) = (Len(got[s]) + Len(out[s])) + Len(wbuf[s])
      <3>1. Len(got[s]) \in Nat /\ Len(out[s]) \in Nat /\ Len(wbuf[s]) \in Nat
        BY <1>L
      <3> QED
        BY <2>1, <3>1, Zenon
    <2> QED
      BY <2>2, <1>1, <1>3, Zenon DEF Front
  <1>9. Front(s) + Len(wbuf[s]) \in Nat
    BY <1>F, <1>L, Sums, Zenon
  <1>10. Front(s)' + Len(wbuf'[s]) = Front(s)'
    BY <1>2, <1>8, <1>9, <1>E
  <1>11. Passed(s)' = Passed(s)
    <2>1. Passed(s)' = Front(s)' + Len(wbuf'[s]) + Len(chan[o])
      BY <1>1, <1>O DEF Passed
    <2>2. Passed(s) = Front(s) + Len(wbuf[s]) + Len(chan[o])
      BY <1>O DEF Passed
    <2> QED
      BY <2>1, <2>2, <1>8, <1>10
  <1>12. Total(s)' = Total(s)
    BY <1>1, <1>11, Zenon DEF Total
  <1>13. Numbered(out'[s], Len(got[s]))
    <2>1. Numbered(out[s], Len(got[s])) /\ Numbered(wbuf[s], Len(got[s]) + Len(out[s]))
      BY <1>P, Zenon DEF Direction, InOrder, Front
    <2>2. Len(got[s]) \in Nat /\ out[s] \in Seq(Nat) /\ wbuf[s] \in Seq(Nat)
      BY <1>L, <1>Q, Zenon
    <2>3. Numbered(out[s] \o wbuf[s], Len(got[s]))
      BY <2>1, <2>2, NumberedJoin, Zenon
    <2> QED
      BY <2>3, <1>2, Zenon
  <1>14. Numbered(wbuf'[s], Front(s)') /\ Numbered(chan'[o], Front(s)' + Len(wbuf'[s]))
    BY <1>1, <1>2, <1>8, <1>9, <1>10, <1>E, <1>P, Zenon DEF Direction, InOrder
  <1>15. InOrder(s, o)'
    BY <1>1, <1>7, <1>11, <1>13, <1>14, <1>P, Zenon DEF Direction, InOrder
  <1>16. Whole(s, o)'
    BY <1>1, <1>2, <1>7, <1>12, <1>P, Zenon DEF Direction, Whole
  <1> QED
    BY <1>4, <1>5, <1>6, <1>15, <1>16, BothSides DEF Direction

\* The steps of one side that do not end its relay.
LEMMA InvMove ==
  ASSUME RelayInv, NEW s \in Sides,
         \/ PeerSend(s) \/ PeerFin(s) \/ PeerRead(s) \/ ReadChunk(s) \/ SendChunk(s)
         \/ RecvChunk(s) \/ WriteChunk(s)
  PROVE  RelayInv'
  <1>1. PICK o \in Sides : o = Other(s)
    BY TwoSides
  <1> QED
    BY <1>1, InvPeerSend, InvPeerFin, InvPeerRead, InvReadChunk, InvSendChunk, InvRecvChunk, InvWriteChunk, Zenon

\* A loop of a stream relay returns Ok while the other one goes on: rd because
\* its peer closed or nobody receives, wr because nobody will send.
LEMMA InvLoopEnds ==
  ASSUME RelayInv, NEW s \in Sides, Running(s),
         UNCHANGED <<flow, sent, fin, out, got, relay, wire, wbuf, chan>>,
         \/ /\ rd[s] # "done" /\ rd' = [rd EXCEPT ![s] = "done"]
            /\ rbuf' = [rbuf EXCEPT ![s] = <<>>] /\ wr' = wr
            /\ HasReceiver(s) => rd[s] = "read" /\ fin[s] /\ wire[s] = <<>>
         \/ /\ wr[s] = "recv" /\ wr' = [wr EXCEPT ![s] = "done"]
            /\ rd' = rd /\ rbuf' = rbuf
            /\ chan[Other(s)] = <<>> /\ ~HasSender(Other(s))
  PROVE  RelayInv'
  <1> DEFINE o == Other(s)
  <1>S. Shapes
    BY Zenon DEF RelayInv
  <1>O. o \in Sides /\ o # s /\ Other(o) = s /\ Other(s) = o
    BY TwoSides, Zenon
  <1> HIDE DEF o
  <1>P. Points(s) /\ Points(o) /\ Direction(s, o) /\ Direction(o, s)
    BY InvAt, Zenon DEF o
  <1>E. Len(<<>>) = 0 /\ (\A n \in Nat : Numbered(<<>>, n)) /\ <<>> \in Seq(Nat)
    BY NumberedEmpty, Zenon
  <1>1. CASE /\ rd[s] # "done" /\ rd' = [rd EXCEPT ![s] = "done"]
             /\ rbuf' = [rbuf EXCEPT ![s] = <<>>] /\ wr' = wr
             /\ HasReceiver(s) => rd[s] = "read" /\ fin[s] /\ wire[s] = <<>>
    <2>1. rd'[s] = "done" /\ rd'[o] = rd[o] /\ rbuf'[s] = <<>> /\ rbuf'[o] = rbuf[o]
      BY <1>1, <1>S, <1>O, Zenon DEF Shapes
    <2>2. Shapes'
      BY <1>1, <1>S, <1>E, Zenon DEF Shapes
    <2>3. Points(s)' /\ Points(o)'
      BY <1>1, <2>1, <1>P, <1>O, Zenon DEF Points, Gone, Running
    <2>4. Direction(s, o)'
      BY <1>1, <2>1, <1>P, <1>O, DirectionStays, Zenon
    <2>5. HasReceiver(s)' = HasReceiver(s) /\ HasSender(s) /\ ~HasSender(s)'
      BY <1>1, <2>1, Zenon DEF HasReceiver, HasSender, Running
    <2>6. HasReceiver(s) => rbuf[s] = <<>>
      BY <1>1, <1>P, Zenon DEF Points
    <2>7. Front(o)' = Front(o) /\ Passed(o)' = Passed(o) /\ Passed(o) \in Nat
      BY <1>1, <1>O, <1>S, Lengths, Zenon DEF Front, Passed
    <2>8. HasReceiver(s) => Total(o)' = Total(o)
      BY <2>1, <2>6, <2>7, <1>O, Zenon DEF Total
    <2>9. InOrder(o, s)'
      BY <1>1, <2>1, <2>5, <2>6, <2>7, <1>P, Zenon DEF Direction, InOrder
    <2>10. wr[o] # "done"
      BY <2>5, <1>P, Zenon DEF Direction, Whole
    <2>11. Whole(o, s)'
      BY <1>1, <2>1, <2>5, <2>8, <2>10, <1>P, Zenon DEF Direction, Whole
    <2> QED
      BY <2>2, <2>3, <2>4, <2>9, <2>11, BothSides, Zenon DEF o, Direction
  <1>2. CASE /\ wr[s] = "recv" /\ wr' = [wr EXCEPT ![s] = "done"]
             /\ rd' = rd /\ rbuf' = rbuf
             /\ chan[Other(s)] = <<>> /\ ~HasSender(Other(s))
    <2>1. wr'[s] = "done" /\ wr'[o] = wr[o]
      BY <1>2, <1>S, <1>O, Zenon DEF Shapes
    <2>2. Shapes'
      BY <1>2, <1>S, Zenon DEF Shapes
    <2>3. Points(s)' /\ Points(o)'
      BY <1>2, <2>1, <1>P, <1>O, Zenon DEF Points, Gone, Running
    <2>4. Direction(o, s)'
      BY <1>2, <2>1, <1>P, <1>O, DirectionStays, Zenon
    <2>5. HasReceiver(o) /\ ~HasReceiver(o)' /\ ~HasSender(o) /\ ~HasSender(o)'
      BY <1>2, <2>1, <1>O, Zenon DEF HasReceiver, HasSender, Running
    <2>6. Front(s)' = Front(s) /\ Passed(s)' = Passed(s)
      BY <1>2, <1>O, Zenon DEF Front, Passed
    <2>7. InOrder(s, o)'
      BY <1>2, <2>5, <2>6, <1>P, Zenon DEF Direction, InOrder
    <2>8. Whole(s, o)'
      BY <1>2, <2>5, <1>P, Zenon DEF Direction, Whole
    <2> QED
      BY <2>2, <2>3, <2>4, <2>7, <2>8, BothSides, Zenon DEF o, Direction
  <1> QED
    BY <1>1, <1>2, Zenon

\* The steps that end a loop or a relay, by what they do to the loops.
LEMMA InvEnds ==
  ASSUME RelayInv, NEW s \in Sides,
         ReadEof(s) \/ ReadError(s) \/ SendClosed(s) \/ RecvEof(s) \/ WriteError(s) \/ SeeIdle(s)
  PROVE  RelayInv'
  <1>P. Points(s)
    BY InvAt
  <1>1. ASSUME Running(s), NEW how \in {"ok", "err"}, End(s, how),
               UNCHANGED <<peerVars, out, got, rd, wr>>
        PROVE  RelayInv'
    BY <1>1, InvEnd, Zenon DEF Running, peerVars
  <1>2. CASE ReadError(s) \/ WriteError(s) \/ SeeIdle(s)
    BY <1>1, <1>2, Zenon DEF ReadError, WriteError, SeeIdle
  <1>3. CASE ReadEof(s) \/ SendClosed(s)
    <2>1. /\ Running(s) /\ rd[s] # "done" /\ RdReturns(s) /\ UNCHANGED <<flow, sent, fin, out, got, wr>>
          /\ HasReceiver(s) => rd[s] = "read" /\ fin[s] /\ wire[s] = <<>>
      BY <1>3, Zenon DEF ReadEof, SendClosed, peerVars
    <2>2. HasReceiver(s) => rbuf[s] = <<>>
      BY <2>1, <1>P, Zenon DEF Points
    <2>3. CASE End(s, "ok") /\ rd' = [rd EXCEPT ![s] = "done"]
      BY <2>1, <2>2, <2>3, InvEnd, Zenon DEF Running
    <2>4. CASE /\ rd' = [rd EXCEPT ![s] = "done"] /\ rbuf' = [rbuf EXCEPT ![s] = <<>>]
               /\ UNCHANGED <<relay, wire, wbuf, chan>>
      BY <2>1, <2>4, InvLoopEnds, Zenon
    <2> QED
      BY <2>1, <2>3, <2>4, Zenon DEF RdReturns
  <1>4. CASE RecvEof(s)
    <2>1. /\ Running(s) /\ wr[s] = "recv" /\ chan[Other(s)] = <<>> /\ ~HasSender(Other(s))
          /\ wr' = [wr EXCEPT ![s] = "done"] /\ UNCHANGED <<flow, sent, fin, out, got, rd>>
          /\ End(s, "ok") \/ UNCHANGED <<relay, wire, rbuf, wbuf, chan>>
      BY <1>4, Zenon DEF RecvEof, Receiving, peerVars
    <2>2. CASE End(s, "ok")
      BY <2>1, <2>2, InvEnd, Zenon DEF Running
    <2>3. CASE UNCHANGED <<relay, wire, rbuf, wbuf, chan>>
      BY <2>1, <2>3, InvLoopEnds, Zenon
    <2> QED
      BY <2>1, <2>2, <2>3, Zenon
  <1> QED
    BY <1>2, <1>3, <1>4

\* The outbound dials, or drops the link.
LEMMA InvDial ==
  ASSUME RelayInv, DialOk \/ DropLink
  PROVE  RelayInv'
  <1>S. "out" \in Sides /\ "in" \in Sides /\ Other("out") = "in" /\ Other("in") = "out" /\ Sides = {"in", "out"}
    BY DEF Sides, Other
  <1>1. CASE DialOk
    <2>1. /\ relay["out"] = "dial" /\ relay'["out"] = "run" /\ relay'["in"] = relay["in"]
          /\ relay' \in [Sides -> {"dial", "run", "ok", "err"}]
          /\ UNCHANGED <<flow, sent, fin, wire, out, got, rd, rbuf, wr, wbuf, chan>>
      BY <1>1, <1>S, Zenon DEF DialOk, peerVars, RelayInv, Shapes
    <2>2. Shapes'
      BY <2>1, Zenon DEF RelayInv, Shapes
    <2>3. ASSUME NEW s \in Sides PROVE Points(s)' /\ Direction(s, Other(s))'
      <3>1. Points(s) /\ Direction(s, Other(s))
        BY DEF RelayInv
      <3>2. /\ HasSender(Other(s))' = HasSender(Other(s)) /\ HasReceiver(Other(s))' = HasReceiver(Other(s))
            /\ Gone(s)' = Gone(s)
        BY <2>1, <1>S DEF HasSender, HasReceiver, Gone
      <3>3. Points(s)'
        BY <2>1, <3>1, <3>2, <1>S, Zenon DEF Points
      <3>4. Direction(s, Other(s))'
        BY <2>1, <3>1, <3>2, Zenon DEF Direction, InOrder, Whole, Front, Passed, Total
      <3> QED
        BY <3>3, <3>4
    <2> QED
      BY <2>2, <2>3 DEF RelayInv
  <1>2. CASE DropLink
    BY <1>2, <1>S, InvEnd, Zenon DEF DropLink, peerVars
  <1> QED
    BY <1>1, <1>2

\* A step of a timer or a reset leaves the chunks alone.
LEMMA InvQuiet ==
  ASSUME RelayInv, UNCHANGED <<flow, sent, fin, wire, out, got, relay, rd, rbuf, wr, wbuf, chan>>
  PROVE  RelayInv'
  <1>1. Shapes'
    BY Zenon DEF RelayInv, Shapes
  <1>2. ASSUME NEW s \in Sides PROVE Points(s)' /\ Direction(s, Other(s))'
    <2>1. Points(s) /\ Direction(s, Other(s))
      BY Zenon DEF RelayInv
    <2>2. Points(s)'
      BY <2>1, Zenon DEF Points, Gone
    <2> QED
      BY <2>1, <2>2, DirectionStays, Zenon
  <1> QED
    BY <1>1, <1>2, Zenon DEF RelayInv

LEMMA InvNext == RelayInv /\ [Next]_vars => RelayInv'
  <1> SUFFICES ASSUME RelayInv, [Next]_vars PROVE RelayInv'
    OBVIOUS
  <1>1. CASE DialOk \/ DropLink
    BY <1>1, InvDial
  <1>2. ASSUME NEW s \in Sides, Peer(s) PROVE RelayInv'
    <2>1. CASE PeerReset(s)
      BY <2>1, InvQuiet, Zenon DEF PeerReset
    <2> QED
      BY <1>2, <2>1, InvMove, Zenon DEF Peer
  <1>3. ASSUME NEW s \in Sides, ReadLoop(s) \/ WriteLoop(s) \/ SeeIdle(s) PROVE RelayInv'
    BY <1>3, InvMove, InvEnds, Zenon DEF ReadLoop, WriteLoop
  <1>4. ASSUME NEW s \in Sides, TimerTask(s) PROVE RelayInv'
    BY <1>4, InvQuiet, Zenon DEF TimerTask, Elapse, TimerCheck, TimerCancel, peerVars
  <1>5. CASE UNCHANGED vars
    BY <1>5, InvQuiet, Zenon DEF vars
  <1> QED
    BY <1>1, <1>2, <1>3, <1>4, <1>5, Zenon DEF Next

LEMMA InvInit == Init => RelayInv
  <1> SUFFICES ASSUME Init PROVE RelayInv
    OBVIOUS
  <1>E. /\ Len(<<>>) = 0 /\ Numbered(<<>>, 0) /\ <<>> \in Seq(Nat)
        /\ Len(<<1>>) = 1 /\ Numbered(<<1>>, 0) /\ <<1>> \in Seq(Nat)
    BY DEF Numbered
  <1>1. Shapes
    BY <1>E, Zenon DEF Init, Shapes
  <1>2. ASSUME NEW s \in Sides PROVE Points(s)
    BY <1>E, TwoSides, Zenon DEF Init, Points, Gone
  <1>3. ASSUME NEW s \in Sides PROVE Direction(s, Other(s))
    <2> DEFINE o == Other(s)
    <2>1. o \in Sides /\ Other(s) = o
      BY TwoSides, Zenon
    <2> HIDE DEF o
    <2>2. /\ got[s] = <<>> /\ out[s] = <<>> /\ wbuf[s] = <<>> /\ chan[o] = <<>> /\ wire[o] = <<>>
          /\ wr[s] = "recv" /\ rd[o] # "done"
          /\ (rbuf[o] = <<>> /\ sent[o] = 0) \/ (rbuf[o] = <<1>> /\ sent[o] = 1)
      BY <2>1, Zenon DEF Init
    <2>3. Front(s) = 0 /\ Passed(s) = 0 /\ Total(s) = Len(rbuf[o]) /\ Len(rbuf[o]) = sent[o]
      <3>1. Len(rbuf[o]) = sent[o] /\ sent[o] \in Nat
        <4>1. CASE rbuf[o] = <<>> /\ sent[o] = 0
          BY <4>1, <1>E
        <4>2. CASE rbuf[o] = <<1>> /\ sent[o] = 1
          BY <4>2, <1>E
        <4> QED
          BY <4>1, <4>2, <2>2, Zenon
      <3>2. Front(s) = 0
        BY <2>2, <1>E DEF Front
      <3>3. Passed(s) = 0
        <4>1. Passed(s) = 0 + 0 + 0
          BY <2>1, <2>2, <3>2, <1>E, Zenon DEF Passed
        <4> QED
          BY <4>1
      <3>4. Total(s) = 0 + sent[o] + 0
        BY <2>1, <2>2, <3>1, <3>3, <1>E, Zenon DEF Total
      <3>5. Total(s) = sent[o]
        BY <3>1, <3>4, Sums, Zenon
      <3> QED
        BY <3>1, <3>2, <3>3, <3>5, Zenon
    <2>4. Numbered(rbuf[o], 0) /\ Numbered(wire[o], Len(rbuf[o])) /\ sent[o] \in Nat
      BY <2>2, <1>E, NumberedEmpty
    <2>5. InOrder(s, o)
      BY <2>2, <2>3, <2>4, <1>E DEF InOrder
    <2>6. Whole(s, o)
      BY <2>2, <2>3, Zenon DEF Whole
    <2> QED
      BY <2>1, <2>5, <2>6, Zenon DEF Direction
  <1> QED
    BY <1>1, <1>2, <1>3 DEF RelayInv

-----------------------------------------------------------------------------
(* The refinement.                                                         *)

\* What has been delivered is a whole beginning of what was sent.
LEMMA DeliveredFacts ==
  ASSUME Shapes, NEW s \in Sides, InOrder(s, Other(s))
  PROVE  /\ Delivered(s) \in Seq(Nat) /\ Len(Delivered(s)) = Front(s) /\ Numbered(Delivered(s), 0)
  <1>1. /\ Numbered(got[s], 0) /\ Numbered(out[s], Len(got[s]))
        /\ got[s] \in Seq(Nat) /\ out[s] \in Seq(Nat) /\ Len(got[s]) \in Nat
    BY Lengths, Zenon DEF InOrder
  <1>2. 0 + Len(got[s]) = Len(got[s])
    BY <1>1
  <1> QED
    BY <1>1, <1>2, NumberedJoin, Zenon DEF Delivered, Front

\* A step that the Pipe does not see.
LEMMA Unseen ==
  ASSUME UNCHANGED sent, \A s \in Sides : Delivered(s)' = Delivered(s) /\ Status(s)' = Status(s)
  PROVE  UNCHANGED P!pipeVars
  BY DEF P!pipeVars

\* Loops and relays end: the direction towards the peer of s is complete when
\* wr has drained a link that rd ended, else it is cut; the other direction
\* is not touched.
LEMMA SimEnds ==
  ASSUME RelayInv, NEW s \in Sides, relay[s] \in {"dial", "run"}, UNCHANGED <<sent, out, got>>,
         relay'[s] \in {"dial", "run", "ok", "err"}, relay'[Other(s)] = relay[Other(s)],
         rd'[Other(s)] = rd[Other(s)], rd'[s] = rd[s] \/ rd'[s] = "done",
         wr'[Other(s)] = wr[Other(s)],
         wr'[s] = wr[s] \/ (wr'[s] = "done" /\ wr[s] = "recv" /\ chan[Other(s)] = <<>>)
  PROVE  [P!Next]_(P!pipeVars)
  <1> DEFINE o == Other(s)
             recvd == [r \in Sides |-> Delivered(r)]
             status == [r \in Sides |-> Status(r)]
  <1>O. o \in Sides /\ o # s /\ Other(o) = s /\ Other(s) = o /\ Sides \ {o} = {s}
    BY TwoSides, Zenon
  <1> HIDE DEF o
  <1>P. Points(s) /\ Points(o) /\ Direction(s, o) /\ Direction(o, s) /\ Shapes
    BY InvAt, Zenon DEF o, RelayInv
  <1>1. \A r \in Sides : Delivered(r)' = Delivered(r)
    BY Zenon DEF Delivered
  <1>2. Status(o)' = Status(o)
    <2>1. wr[o] = "done" => rd[s] = "done"
      BY <1>P, Zenon DEF Direction, Whole, HasSender
    <2> QED
      BY <2>1, <1>O DEF Status
  <1>3. CASE Status(s)' = Status(s)
    <2>1. \A r \in Sides : Status(r)' = Status(r)
      BY <1>2, <1>3, <1>O, TwoSides, Zenon
    <2> QED
      BY <1>1, <2>1, Unseen, Zenon
  <1>4. CASE Status(s)' # Status(s)
    <2>1. Status(s) = "open" /\ wr[s] # "done" /\ Status(s)' \in {"complete", "cut"}
      BY <1>4, <1>O, Zenon DEF Status
    <2>2. status' = [status EXCEPT ![s] = Status(s)']
      BY <1>2, <1>O, TwoSides, Zenon
    <2>3. recvd' = recvd
      BY <1>1, Zenon
    <2>4. CASE Status(s)' = "cut"
      <3>1. P!Cut(s)
        BY <2>1, <2>2, <2>3, <2>4, Zenon DEF P!Cut
      <3> QED
        BY <3>1, <1>O, Zenon DEF P!Next
    <2>5. CASE Status(s)' = "complete"
      <3>1. wr'[s] = "done" /\ wr[s] = "recv" /\ chan[o] = <<>> /\ rd[o] = "done"
        BY <2>1, <2>5, <1>O, Zenon DEF Status
      <3>2. HasReceiver(o)
        BY <3>1, <1>O, Zenon DEF HasReceiver
      <3>3. /\ wbuf[s] = <<>> /\ rbuf[o] = <<>> /\ wire[o] = <<>> /\ Total(s) = sent[o]
        BY <3>1, <3>2, <1>P, Zenon DEF Direction, Whole, Points
      <3>4. Front(s) = sent[o]
        <4>1. Front(s) \in Nat /\ Len(<<>>) = 0
          BY <1>P, Lengths, Zenon
        <4>2. Total(s) = Front(s) + 0 + 0 + 0 + 0
          BY <3>1, <3>3, <4>1, <1>O, Zenon DEF Total, Passed
        <4> QED
          BY <3>3, <4>1, <4>2
      <3>5. Len(recvd[s]) = sent[o]
        BY <3>4, <1>P, <1>O, DeliveredFacts, Zenon DEF Direction
      <3>6. P!Complete(o, s)
        BY <2>1, <2>2, <2>3, <2>5, <3>5, Zenon DEF P!Complete
      <3> QED
        BY <3>6, <1>O, Zenon DEF P!Next
    <2> QED
      BY <2>1, <2>4, <2>5, Zenon
  <1> QED
    BY <1>3, <1>4, Zenon

\* A peer sends: it has not closed, so the direction from it is not complete.
LEMMA SimSend ==
  ASSUME RelayInv, NEW s \in Sides, PeerSend(s)
  PROVE  P!Next
  <1> DEFINE o == Other(s)
  <1>O. o \in Sides /\ o # s /\ Other(o) = s /\ Sides \ {s} = {o}
    BY TwoSides
  <1>P. Direction(o, s)
    BY InvAt, Zenon
  <1>1. ~fin[s] /\ sent' = [sent EXCEPT ![s] = sent[s] + 1] /\ UNCHANGED <<out, got, relay, rd, wr>>
    BY Zenon DEF PeerSend
  <1>2. Status(o) # "complete"
    BY <1>1, <1>P, <1>O, Zenon DEF Status, Direction, Whole
  <1>3. \A r \in Sides : Delivered(r)' = Delivered(r) /\ Status(r)' = Status(r)
    BY <1>1, Zenon DEF Delivered, Status
  <1>4. P!Send(s, o)
    BY <1>1, <1>2, <1>3, <1>O, Zenon DEF P!Send
  <1> QED
    BY <1>4, <1>O DEF P!Next

\* The peer reads: only where the chunk is buffered changes.
LEMMA SimRead ==
  ASSUME RelayInv, RelayInv', NEW s \in Sides, PeerRead(s)
  PROVE  UNCHANGED P!pipeVars
  <1>1. /\ out[s] # <<>> /\ got' = [got EXCEPT ![s] = Append(got[s], Head(out[s]))]
        /\ out' = [out EXCEPT ![s] = Tail(out[s])] /\ UNCHANGED <<sent, relay, rd, wr>>
    BY Zenon DEF PeerRead, peerVars
  <1>2. Shapes /\ Shapes' /\ InOrder(s, Other(s)) /\ InOrder(s, Other(s))'
    BY Zenon DEF RelayInv, Direction
  <1>3. /\ Len(got'[s]) = Len(got[s]) + 1 /\ Len(out'[s]) = Len(out[s]) - 1
        /\ Len(got[s]) \in Nat /\ Len(out[s]) \in Nat \ {0}
    <2>1. got'[s] = Append(got[s], Head(out[s])) /\ out'[s] = Tail(out[s])
      BY <1>1, <1>2, Zenon DEF Shapes
    <2>2. got[s] \in Seq(Nat) /\ out[s] \in Seq(Nat)
      BY <1>2, Lengths
    <2>3. \A q \in Seq(Nat), n \in Nat : Len(Append(q, n)) = Len(q) + 1 /\ Len(q) \in Nat
      OBVIOUS
    <2>4. /\ Len(out[s]) \in Nat \ {0} /\ Head(out[s]) \in Nat /\ Len(Tail(out[s])) = Len(out[s]) - 1
      BY <1>1, <2>2, TakeOne, Zenon
    <2> QED
      BY <2>1, <2>2, <2>3, <2>4, Zenon
  <1>4. Front(s)' = Front(s)
    <2>1. (Len(got[s]) + 1) + (Len(out[s]) - 1) = Len(got[s]) + Len(out[s])
      BY <1>3, Sums, Zenon
    <2> QED
      BY <2>1, <1>3, Zenon DEF Front
  <1>5. Delivered(s)' = Delivered(s)
    <2>1. Delivered(s) \in Seq(Nat) /\ Len(Delivered(s)) = Front(s) /\ Numbered(Delivered(s), 0)
      BY <1>2, DeliveredFacts, Zenon
    <2>2. (Delivered(s) \in Seq(Nat) /\ Len(Delivered(s)) = Front(s) /\ Numbered(Delivered(s), 0))'
      BY <1>2, DeliveredFacts, PTL
    <2> QED
      BY <2>1, <2>2, <1>4, NumberedSame, Zenon
  <1>6. \A r \in Sides : Delivered(r)' = Delivered(r) /\ Status(r)' = Status(r)
    <2>1. ASSUME NEW r \in Sides, r # s PROVE got'[r] = got[r] /\ out'[r] = out[r]
      BY <2>1, <1>1, <1>2, Zenon DEF Shapes
    <2> QED
      BY <2>1, <1>1, <1>5, Zenon DEF Delivered, Status
  <1> QED
    BY <1>1, <1>6, Unseen, Zenon

\* wr writes a chunk out: the next one that the other peer has sent.
LEMMA SimWrite ==
  ASSUME RelayInv, RelayInv', NEW s \in Sides, WriteChunk(s)
  PROVE  P!Next
  <1> DEFINE o == Other(s)
             recvd == [r \in Sides |-> Delivered(r)]
             status == [r \in Sides |-> Status(r)]
             x == Len(Delivered(s)) + 1
  <1>O. o \in Sides /\ o # s /\ Other(o) = s /\ Other(s) = o /\ Sides \ {o} = {s}
    BY TwoSides, Zenon
  <1> HIDE DEF o
  <1>1. /\ Running(s) /\ wr[s] = "write" /\ out' = [out EXCEPT ![s] = out[s] \o wbuf[s]]
        /\ wr' = [wr EXCEPT ![s] = "recv"] /\ UNCHANGED <<sent, got, relay, rd>>
    BY Zenon DEF WriteChunk, peerVars
  <1>2. Shapes /\ Shapes' /\ InOrder(s, Other(s)) /\ InOrder(s, Other(s))' /\ Points(s)
    BY Zenon DEF RelayInv, Direction
  <1>3. Len(wbuf[s]) = 1
    BY <1>1, <1>2, Zenon DEF Points, Gone, Running
  <1>4. /\ out'[s] = out[s] \o wbuf[s] /\ Len(out'[s]) = Len(out[s]) + 1
        /\ Len(got[s]) \in Nat /\ Len(out[s]) \in Nat
    <2>1. out[s] \in Seq(Nat) /\ wbuf[s] \in Seq(Nat) /\ Len(got[s]) \in Nat /\ Len(out[s]) \in Nat
      BY <1>2, Lengths, Zenon
    <2>2. out'[s] = out[s] \o wbuf[s]
      BY <1>1, <1>2, Zenon DEF Shapes
    <2>3. Len(out[s] \o wbuf[s]) = Len(out[s]) + Len(wbuf[s])
      BY <2>1
    <2> QED
      BY <2>1, <2>2, <2>3, <1>3, Zenon
  <1>5. Front(s)' = Front(s) + 1 /\ Front(s) \in Nat
    <2>1. \A a, b \in Nat : a + (b + 1) = (a + b) + 1 /\ a + b \in Nat
      OBVIOUS
    <2>2. Len(got[s]) + (Len(out[s]) + 1) = (Len(got[s]) + Len(out[s])) + 1 /\ Len(got[s]) + Len(out[s]) \in Nat
      BY <2>1, <1>4, Zenon
    <2> QED
      BY <2>2, <1>1, <1>4, Zenon DEF Front
  <1>6. Front(s) < sent[o]
    <2>1. Passed(s) = Front(s) + 1 + Len(chan[o]) /\ Passed(s) <= sent[o]
      BY <1>2, <1>3, <1>O, Zenon DEF Passed, InOrder
    <2>2. Len(chan[o]) \in Nat /\ sent[o] \in Nat
      BY <1>2, <1>O, Lengths, Zenon
    <2>3. \A a, b, c, d \in Nat : d = a + 1 + b /\ d <= c => a < c
      BY SMTT(30)
    <2>4. Passed(s) \in Nat
      BY <1>2, Lengths, Zenon
    <2> QED
      BY <2>1, <2>2, <2>3, <2>4, <1>5, Zenon
  <1>7. Delivered(s) \in Seq(Nat) /\ Len(Delivered(s)) = Front(s) /\ Numbered(Delivered(s), 0)
    BY <1>2, DeliveredFacts, Zenon
  <1>8. (Delivered(s) \in Seq(Nat) /\ Len(Delivered(s)) = Front(s) /\ Numbered(Delivered(s), 0))'
    BY <1>2, DeliveredFacts, PTL
  <1>9. Delivered(s)' = Append(Delivered(s), x)
    <2>1. 0 + Len(Delivered(s)) + 1 = x
      BY <1>5, <1>7
    <2>2. /\ Append(Delivered(s), x) \in Seq(Nat) /\ Len(Append(Delivered(s), x)) = Len(Delivered(s)) + 1
          /\ Numbered(Append(Delivered(s), x), 0)
      BY <1>7, <2>1, NumberedAdd
    <2> QED
      BY <2>2, <1>5, <1>7, <1>8, NumberedSame, Zenon
  <1>10. Delivered(o)' = Delivered(o) /\ Status(o)' = Status(o)
    <2>1. out'[o] = out[o] /\ wr'[o] = wr[o]
      BY <1>1, <1>2, <1>O DEF Shapes
    <2>2. got'[o] = got[o] /\ rd' = rd /\ relay' = relay
      BY <1>1
    <2> QED
      BY <2>1, <2>2, Zenon DEF Delivered, Status
  <1>11. Status(s) = "open" /\ Status(s)' = "open"
    BY <1>1, <1>2 DEF Status, Running, Shapes
  <1>12. recvd' = [recvd EXCEPT ![s] = Append(@, Len(@) + 1)]
    BY <1>9, <1>10, TwoSides, Zenon DEF o
  <1>13. status' = status
    BY <1>10, <1>11, TwoSides DEF o
  <1>14. P!Deliver(o, s)
    BY <1>1, <1>6, <1>7, <1>11, <1>12, <1>13, Zenon DEF P!Deliver
  <1> QED
    BY <1>14, <1>O, Zenon DEF P!Next

LEMMA SimNext ==
  ASSUME RelayInv, RelayInv', [Next]_vars
  PROVE  [P!Next]_(P!pipeVars)
  <1>S. /\ relay \in [Sides -> {"dial", "run", "ok", "err"}]
        /\ rd \in [Sides -> {"lead", "read", "send", "done"}]
        /\ wr \in [Sides -> {"recv", "write", "done"}]
        /\ relay' \in [Sides -> {"dial", "run", "ok", "err"}]
    BY Zenon DEF RelayInv, Shapes
  <1>0. ASSUME UNCHANGED <<sent, out, got, relay, rd, wr>> PROVE UNCHANGED P!pipeVars
    BY <1>0, Unseen, Zenon DEF Delivered, Status
  <1>1. CASE DialOk \/ DropLink
    <2>1. "out" \in Sides /\ Other("out") = "in" /\ "in" \in Sides
      BY DEF Sides, Other
    <2>2. /\ relay["out"] = "dial" /\ UNCHANGED <<sent, out, got, rd, wr>>
          /\ relay'["out"] \in {"dial", "run", "ok", "err"} /\ relay'["in"] = relay["in"]
      BY <1>1, <2>1, <1>S DEF DialOk, DropLink, End, peerVars
    <2> QED
      BY <2>1, <2>2, SimEnds, Zenon
  <1>2. ASSUME NEW s \in Sides, Peer(s) PROVE [P!Next]_(P!pipeVars)
    <2>1. CASE PeerFin(s) \/ PeerReset(s)
      BY <2>1, <1>0, Zenon DEF PeerFin, PeerReset
    <2> QED
      BY <1>2, <2>1, SimSend, SimRead, Zenon DEF Peer
  <1>3. ASSUME NEW s \in Sides, ReadChunk(s) \/ SendChunk(s) \/ RecvChunk(s)
        PROVE  UNCHANGED P!pipeVars
    <2>1. /\ UNCHANGED <<sent, out, got, relay>>
          /\ \A r \in Sides : (rd'[r] = "done" <=> rd[r] = "done") /\ (wr'[r] = "done" <=> wr[r] = "done")
      BY <1>3, <1>S, Zenon DEF ReadChunk, SendChunk, RecvChunk, Receiving, peerVars
    <2> QED
      BY <2>1, Unseen, TwoSides, Zenon DEF Delivered, Status
  <1>4. ASSUME NEW s \in Sides,
               ReadEof(s) \/ ReadError(s) \/ SendClosed(s) \/ RecvEof(s) \/ WriteError(s) \/ SeeIdle(s)
        PROVE  [P!Next]_(P!pipeVars)
    <2> DEFINE o == Other(s)
    <2>1. o \in Sides /\ o # s
      BY TwoSides, Zenon
    <2>2. Running(s) /\ UNCHANGED <<sent, out, got>>
      BY <1>4, Zenon DEF ReadEof, ReadError, SendClosed, RecvEof, WriteError, SeeIdle, Receiving, peerVars
    <2>3. relay'[o] = relay[o] /\ rd'[o] = rd[o] /\ wr'[o] = wr[o]
      BY <1>4, <2>1, <1>S, Zenon DEF ReadEof, ReadError, SendClosed, RecvEof, WriteError, SeeIdle, RdReturns, End
    <2>4. rd'[s] = rd[s] \/ rd'[s] = "done"
      BY <1>4, <1>S, Zenon DEF ReadEof, ReadError, SendClosed, RecvEof, WriteError, SeeIdle, RdReturns
    <2>5. wr'[s] = wr[s] \/ (wr'[s] = "done" /\ wr[s] = "recv" /\ chan[o] = <<>>)
      BY <1>4, <1>S, Zenon DEF ReadEof, ReadError, SendClosed, RecvEof, WriteError, SeeIdle, Receiving
    <2> QED
      BY <2>2, <2>3, <2>4, <2>5, <1>S, SimEnds, Zenon DEF Running
  <1>5. ASSUME NEW s \in Sides, TimerTask(s) PROVE UNCHANGED P!pipeVars
    BY <1>5, <1>0, Zenon DEF TimerTask, Elapse, TimerCheck, TimerCancel, peerVars
  <1>6. ASSUME NEW s \in Sides, WriteChunk(s) PROVE P!Next
    BY <1>6, SimWrite
  <1>7. CASE UNCHANGED vars
    BY <1>7, <1>0, Zenon DEF vars
  <1> QED
    BY <1>1, <1>2, <1>3, <1>4, <1>5, <1>6, <1>7 DEF Next, ReadLoop, WriteLoop

LEMMA SimInit == Init => P!Init
  <1> SUFFICES ASSUME Init PROVE P!Init
    OBVIOUS
  <1>1. sent \in [Sides -> {0, 1}]
    BY Zenon DEF Init
  <1>2. ASSUME NEW s \in Sides PROVE Delivered(s) = <<>> /\ Status(s) = "open"
    BY DEF Init, Delivered, Status
  <1> QED
    BY <1>1, <1>2, Zenon DEF P!Init

\* For every flow and all capacities, the relays and their link implement the
\* Pipe: in both directions chunks are neither lost, nor duplicated, nor
\* reordered, and a direction ends "complete" only after its last chunk.
THEOREM RelaysImplementPipe == Spec => ImplementsPipe
  <1>1. Spec => []RelayInv
    BY InvInit, InvNext, PTL DEF Spec
  <1> QED
    BY <1>1, SimInit, SimNext, PTL DEF Spec, ImplementsPipe, P!Spec
=============================================================================
