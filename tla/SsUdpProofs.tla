---------------------------- MODULE SsUdpProofs ----------------------------
(***************************************************************************)
(* For any number of sources, users, sessions and datagrams and any        *)
(* capacities, the session table of serve_udp leads every unfinished       *)
(* session's source to that session.  A reap message names a source, not a *)
(* session, so the invariant has to say why it cannot be stale: the source *)
(* it names still leads to the finished session that sent it, and no other *)
(* message names that source.  From there to the order of a source's       *)
(* datagrams: at most one running egress task holds any of them, those it  *)
(* holds are in order, and all that left before are earlier.               *)
(***************************************************************************)
EXTENDS SsUdp, TLAPS

Homes == [from : Sources, user : Users]
Stages == {"running", "reaping", "done"}

\* The types of what the table invariant speaks of.
Shapes ==
    /\ home \in Seq(Homes)
    /\ reader \in Seq(Stages) /\ Len(reader) = Len(home)
    /\ table \in [Sources -> Sessions \cup {None}]
    /\ reap \in Seq(Sources)

\* Every message in the reap channel is about a finished session that is still
\* in the table.
ReapIsDue ==
    \A i \in 1 .. Len(reap) :
        table[reap[i]] # None /\ reader[table[reap[i]]] = "done"

\* No two messages in the channel name the same source.
ReapOnce ==
    \A i, j \in 1 .. Len(reap) : reap[i] = reap[j] => i = j

Inv == Shapes /\ RunningIsTabled /\ ReapIsDue /\ ReapOnce

\* The empty table and the empty channel of a service that has just started.
LEMMA InvInit == Init => Inv
  BY SsUdpConstants DEF Init, Inv, Shapes, RunningIsTabled, ReapIsDue, ReapOnce, Sessions

\* A step that leaves the table, the sessions and the channel alone.
LEMMA InvStutter ==
  ASSUME Inv, UNCHANGED <<home, reader, table, reap>>
  PROVE  Inv'
  BY DEF Inv, Shapes, RunningIsTabled, ReapIsDue, ReapOnce, Sessions

\* Every session has a source.
LEMMA HomeSource ==
  ASSUME Inv, NEW g \in Sessions
  PROVE  home[g].from \in Sources
  <1>1. home[g] \in Homes
    BY DEF Inv, Shapes, Sessions
  <1> QED
    BY <1>1 DEF Homes

\* A new session for a source that has none.
LEMMA InvOpen ==
  ASSUME Inv, NEW s \in Sources, NEW u \in Users, table[s] = None, Open(s, u)
  PROVE  Inv'
  <1> DEFINE n == Len(home) + 1
  <1>1. /\ home \in Seq(Homes) /\ reader \in Seq(Stages) /\ Len(reader) = Len(home)
        /\ [from |-> s, user |-> u] \in Homes /\ "running" \in Stages
    BY DEF Inv, Shapes, Homes, Stages
  <1>2. /\ home' \in Seq(Homes) /\ Len(home') = n
        /\ home'[n] = [from |-> s, user |-> u]
        /\ \A g \in Sessions : home'[g] = home[g]
    BY <1>1 DEF Open, Sessions
  <1>3. /\ reader' \in Seq(Stages) /\ Len(reader') = n
        /\ reader'[n] = "running"
        /\ \A g \in Sessions : reader'[g] = reader[g]
    BY <1>1 DEF Open, Sessions
  <1>4. n \in Nat /\ Sessions' = Sessions \cup {n} /\ Sessions = 1 .. Len(home) /\ Len(home) \in Nat
    BY <1>1, <1>2 DEF Sessions
  <1>5. table' = [table EXCEPT ![s] = n] /\ reap' = reap
    BY <1>2 DEF Open
  <1>6. table' \in [Sources -> Sessions' \cup {None}]
    BY <1>4, <1>5 DEF Inv, Shapes
  <1>7. RunningIsTabled'
    <2> SUFFICES ASSUME NEW g \in Sessions', reader'[g] # "done"
                 PROVE  table'[home'[g].from] = g
      BY DEF RunningIsTabled
    <2>1. CASE g = n
      BY <2>1, <1>2, <1>5 DEF Inv, Shapes
    <2>2. CASE g \in Sessions
      <3>1. table[home[g].from] = g /\ home[g].from \in Sources
        BY <2>2, <1>3, HomeSource DEF Inv, RunningIsTabled
      <3>2. home[g].from # s
        BY <3>1, <2>2, <1>4, SsUdpConstants
      <3> QED
        BY <3>1, <3>2, <2>2, <1>2, <1>5 DEF Inv, Shapes
    <2> QED
      BY <2>1, <2>2, <1>4
  <1>8. ReapIsDue'
    <2> SUFFICES ASSUME NEW i \in 1 .. Len(reap)
                 PROVE  table'[reap[i]] # None /\ reader'[table'[reap[i]]] = "done"
      BY <1>5 DEF ReapIsDue
    <2>1. reap[i] \in Sources /\ table[reap[i]] # None /\ reader[table[reap[i]]] = "done"
      BY DEF Inv, Shapes, ReapIsDue
    <2>2. reap[i] # s
      BY <2>1
    <2>3. table'[reap[i]] = table[reap[i]] /\ table[reap[i]] \in Sessions
      BY <2>1, <2>2, <1>5 DEF Inv, Shapes
    <2> QED
      BY <2>1, <2>3, <1>3
  <1>9. ReapOnce' /\ reap' \in Seq(Sources)
    BY <1>5 DEF Inv, Shapes, ReapOnce
  <1> QED
    BY <1>2, <1>3, <1>6, <1>7, <1>8, <1>9 DEF Inv, Shapes

\* The service takes a finished session out of the table.
LEMMA InvReap ==
  ASSUME Inv, Reap
  PROVE  Inv'
  <1> DEFINE s == Head(reap)
  <1>1. /\ reap \in Seq(Sources) /\ reap # <<>> /\ Len(reap) \in Nat \ {0}
        /\ s = reap[1] /\ s \in Sources
    BY DEF Inv, Shapes, Reap
  <1>2. /\ reap' = Tail(reap) /\ reap' \in Seq(Sources) /\ Len(reap') = Len(reap) - 1
        /\ \A i \in 1 .. Len(reap') : i + 1 \in 1 .. Len(reap) /\ reap'[i] = reap[i + 1]
    BY <1>1 DEF Reap
  <1>3. table' = [table EXCEPT ![s] = None] /\ UNCHANGED <<home, reader>>
    BY DEF Reap
  <1>4. table[s] # None /\ reader[table[s]] = "done"
    BY <1>1 DEF Inv, ReapIsDue
  <1>5. Shapes'
    BY <1>2, <1>3 DEF Inv, Shapes, Sessions
  <1>6. RunningIsTabled'
    <2> SUFFICES ASSUME NEW g \in Sessions, reader[g] # "done"
                 PROVE  table'[home[g].from] = g
      BY <1>3 DEF RunningIsTabled, Sessions
    <2>1. table[home[g].from] = g /\ home[g].from \in Sources
      BY HomeSource DEF Inv, RunningIsTabled
    <2> QED
      BY <2>1, <1>3, <1>4 DEF Inv, Shapes
  <1>7. ReapIsDue'
    <2> SUFFICES ASSUME NEW i \in 1 .. Len(reap')
                 PROVE  table'[reap'[i]] # None /\ reader[table'[reap'[i]]] = "done"
      BY <1>3 DEF ReapIsDue
    <2>1. i + 1 \in 1 .. Len(reap) /\ i + 1 # 1 /\ reap'[i] = reap[i + 1] /\ 1 \in 1 .. Len(reap)
      BY <1>1, <1>2
    <2>2. reap[i + 1] # s
      BY <2>1, <1>1 DEF Inv, ReapOnce
    <2>3. table'[reap[i + 1]] = table[reap[i + 1]]
      BY <2>1, <2>2, <1>3 DEF Inv, Shapes
    <2> QED
      BY <2>1, <2>3 DEF Inv, ReapIsDue
  <1>8. ReapOnce'
    <2> SUFFICES ASSUME NEW i \in 1 .. Len(reap'), NEW j \in 1 .. Len(reap'), reap'[i] = reap'[j]
                 PROVE  i = j
      BY DEF ReapOnce
    <2>1. i + 1 = j + 1
      BY <1>2 DEF Inv, ReapOnce
    <2> QED
      BY <2>1, <1>1, <1>2
  <1> QED
    BY <1>5, <1>6, <1>7, <1>8 DEF Inv

\* A downlink task stops receiving: the session is not finished yet.
LEMMA InvEof ==
  ASSUME Inv, NEW g \in Sessions, DownEof(g)
  PROVE  Inv'
  <1>1. /\ reader' = [reader EXCEPT ![g] = "reaping"] /\ reader[g] = "running"
        /\ UNCHANGED <<home, table, reap>>
    BY DEF DownEof
  <1>2. reader' \in Seq(Stages) /\ Len(reader') = Len(reader) /\ g \in 1 .. Len(reader)
    BY <1>1 DEF Inv, Shapes, Stages, Sessions
  <1>3. Shapes'
    BY <1>1, <1>2 DEF Inv, Shapes, Sessions
  <1>4. RunningIsTabled'
    BY <1>1, <1>2 DEF Inv, Shapes, RunningIsTabled, Sessions
  <1>5. ReapIsDue'
    <2> SUFFICES ASSUME NEW i \in 1 .. Len(reap)
                 PROVE  table[reap[i]] # None /\ reader'[table[reap[i]]] = "done"
      BY <1>1 DEF ReapIsDue
    <2>1. table[reap[i]] # None /\ reader[table[reap[i]]] = "done" /\ reap[i] \in Sources
      BY DEF Inv, Shapes, ReapIsDue
    <2>2. table[reap[i]] \in Sessions /\ table[reap[i]] # g
      BY <2>1, <1>1 DEF Inv, Shapes
    <2> QED
      BY <2>1, <2>2, <1>1, <1>2 DEF Inv, Shapes, Sessions
  <1>6. ReapOnce'
    BY <1>1 DEF Inv, ReapOnce
  <1> QED
    BY <1>3, <1>4, <1>5, <1>6 DEF Inv

\* A downlink task finishes with its reap message.
LEMMA InvReapSend ==
  ASSUME Inv, NEW g \in Sessions, ReapSend(g)
  PROVE  Inv'
  <1> DEFINE s == home[g].from
  <1>1. /\ reader' = [reader EXCEPT ![g] = "done"] /\ reader[g] = "reaping"
        /\ reap' = Append(reap, s)
        /\ UNCHANGED <<home, table>>
    BY DEF ReapSend
  <1>2. s \in Sources /\ table[s] = g /\ g # None
    BY <1>1, HomeSource, SsUdpConstants DEF Inv, RunningIsTabled, Sessions
  <1>3. reader' \in Seq(Stages) /\ Len(reader') = Len(reader) /\ g \in 1 .. Len(reader)
    BY <1>1 DEF Inv, Shapes, Stages, Sessions
  <1>4. /\ reap \in Seq(Sources) /\ Len(reap) \in Nat
        /\ reap' \in Seq(Sources) /\ Len(reap') = Len(reap) + 1
        /\ reap'[Len(reap) + 1] = s
        /\ \A i \in 1 .. Len(reap) : reap'[i] = reap[i]
    BY <1>1, <1>2 DEF Inv, Shapes
  <1>5. \A i \in 1 .. Len(reap) : reap[i] # s
    BY <1>1, <1>2 DEF Inv, ReapIsDue
  <1>6. \A h \in Sessions : reader'[h] = IF h = g THEN "done" ELSE reader[h]
    BY <1>1, <1>3 DEF Inv, Shapes, Sessions
  <1>7. Shapes'
    BY <1>1, <1>3, <1>4 DEF Inv, Shapes, Sessions
  <1>8. RunningIsTabled'
    BY <1>1, <1>6 DEF Inv, RunningIsTabled, Sessions
  <1>9. ReapIsDue'
    <2> SUFFICES ASSUME NEW i \in 1 .. Len(reap')
                 PROVE  table[reap'[i]] # None /\ reader'[table[reap'[i]]] = "done"
      BY <1>1 DEF ReapIsDue
    <2>1. CASE i = Len(reap) + 1
      BY <2>1, <1>2, <1>4, <1>6
    <2>2. CASE i \in 1 .. Len(reap)
      <3>1. table[reap[i]] # None /\ reader[table[reap[i]]] = "done" /\ reap[i] \in Sources
        BY <2>2 DEF Inv, Shapes, ReapIsDue
      <3>2. table[reap[i]] \in Sessions
        BY <3>1 DEF Inv, Shapes
      <3> QED
        BY <3>1, <3>2, <2>2, <1>4, <1>6
    <2> QED
      BY <2>1, <2>2, <1>4
  <1>10. ReapOnce'
    <2> SUFFICES ASSUME NEW i \in 1 .. Len(reap'), NEW j \in 1 .. Len(reap'), reap'[i] = reap'[j]
                 PROVE  i = j
      BY DEF ReapOnce
    <2> QED
      BY <1>4, <1>5 DEF Inv, ReapOnce
  <1> QED
    BY <1>7, <1>8, <1>9, <1>10 DEF Inv

\* Every step of the service and of the session tasks keeps the invariant.
LEMMA InvNext == Inv /\ [Next]_vars => Inv'
  <1> SUFFICES ASSUME Inv, [Next]_vars PROVE Inv'
    OBVIOUS
  <1>1. ASSUME NEW s \in Sources, NEW u \in Users, RecvFrom(s, u) PROVE Inv'
    <2>1. CASE table[s] = None /\ Open(s, u)
      BY <2>1, InvOpen
    <2>2. CASE table[s] # None /\ Reuse(s)
      BY <2>2, InvStutter DEF Reuse
    <2> QED
      BY <1>1, <2>1, <2>2 DEF RecvFrom
  <1>2. CASE SendOk
    BY <1>2, InvStutter DEF SendOk
  <1>3. CASE SendFails
    BY <1>3, InvStutter DEF SendFails
  <1>4. CASE Reap
    BY <1>4, InvReap
  <1>5. ASSUME NEW g \in Sessions, Egress(g) PROVE Inv'
    BY <1>5, InvStutter DEF Egress, Bind, EgressEnds, EgressSends, EgressReceives
  <1>6. ASSUME NEW g \in Sessions, Downlink(g) PROVE Inv'
    <2>1. CASE DownRecv(g)
      BY <2>1, InvStutter DEF DownRecv
    <2>2. CASE DownEof(g)
      BY <2>2, InvEof
    <2>3. CASE ReapSend(g)
      BY <2>3, InvReapSend
    <2> QED
      BY <1>6, <2>1, <2>2, <2>3 DEF Downlink
  <1>7. CASE UNCHANGED vars
    BY <1>7, InvStutter DEF vars
  <1> QED
    BY <1>1, <1>2, <1>3, <1>4, <1>5, <1>6, <1>7 DEF Next

\* "One direct-egress session per client source addr": the table of serve_udp
\* leads the source of every unfinished session to that session.
THEOREM SessionsTabled == Spec => []RunningIsTabled
  <1>1. Spec => []Inv
    BY InvInit, InvNext, PTL DEF Spec
  <1>2. Inv => RunningIsTabled
    BY DEF Inv
  <1> QED
    BY <1>1, <1>2, PTL

----------------------------------------------------------------------------
(* The order of a source's datagrams.  Two sessions of a source never hold  *)
(* datagrams at once: one that does has a running egress, so it is the one *)
(* in the table.                                                           *)

FlowShapes ==
    /\ arrived \in Seq(Homes)
    /\ egress \in Seq({"binding", "up", "gone"}) /\ Len(egress) = Len(home)
    /\ up \in Seq(Seq(Nat)) /\ Len(up) = Len(home)
    /\ sent \in Seq([by : Nat, pkt : Nat])

\* The table leads a source to a session of its own.
TableHomes == \A s \in Sources : table[s] # None => home[table[s]].from = s

\* A session ends its egress first, and with it its uplink.
EgressFirst(g) == /\ egress[g] # "gone" => reader[g] = "running"
                  /\ egress[g] = "gone" => up[g] = <<>>

\* Datagram p has arrived, before the one that the service is sending.
Before(p) == p \in 1 .. Len(arrived) /\ (sending # None => p < sending.pkt)

\* The uplink of session g: datagrams of its source, in order of arrival, all
\* later than those of the source that have left.
Queued(g) ==
    \A i \in 1 .. Len(up[g]) :
        /\ Before(up[g][i]) /\ arrived[up[g][i]].from = home[g].from
        /\ \A j \in 1 .. Len(up[g]) : i < j => up[g][i] < up[g][j]
        /\ \A n \in 1 .. Len(sent) :
              arrived[sent[n].pkt].from = home[g].from => sent[n].pkt < up[g][i]

\* The datagram the service is sending is the last that arrived, to a session
\* of its source.
InHand ==
    sending # None =>
        /\ sending.to \in Sessions /\ sending.pkt = Len(arrived) /\ Len(arrived) # 0
        /\ arrived[sending.pkt].from = home[sending.to].from

\* What has left arrived before the one that the service is sending.
LeftBefore == \A n \in 1 .. Len(sent) : Before(sent[n].pkt)

FlowInv ==
    /\ Inv /\ FlowShapes /\ TableHomes /\ InHand /\ LeftBefore /\ SourceInOrder
    /\ \A g \in Sessions : EgressFirst(g) /\ Queued(g)

\* What the shapes say of one session.
LEMMA Session ==
  ASSUME FlowInv, NEW g \in Sessions
  PROVE  /\ up[g] \in Seq(Nat) /\ Len(up[g]) \in Nat /\ DOMAIN up[g] = 1 .. Len(up[g])
         /\ g \in 1 .. Len(up) /\ g \in 1 .. Len(egress) /\ g \in 1 .. Len(reader)
         /\ g \in Nat /\ home[g].from \in Sources
  <1>1. g \in Nat /\ g \in 1 .. Len(up) /\ g \in 1 .. Len(egress) /\ g \in 1 .. Len(reader)
    BY DEF FlowInv, Inv, Shapes, FlowShapes, Sessions
  <1>2. up[g] \in Seq(Nat)
    BY <1>1 DEF FlowInv, FlowShapes
  <1> QED
    BY <1>1, <1>2, HomeSource DEF FlowInv

\* Two running egress tasks of one source are those of one session.
LEMMA OneUplink ==
  ASSUME FlowInv, NEW g \in Sessions, NEW h \in Sessions, home[g].from = home[h].from,
         egress[g] # "gone", egress[h] # "gone"
  PROVE  g = h
  <1>1. reader[g] # "done" /\ reader[h] # "done"
    BY DEF FlowInv, EgressFirst
  <1> QED
    BY <1>1, Zenon DEF FlowInv, Inv, RunningIsTabled

\* A session's uplink is as ordered as before when it, its source and what
\* has left are the same and no datagram is forgotten.
LEMMA QueuedKept ==
  ASSUME NEW g, Queued(g), up'[g] = up[g], home'[g] = home[g], sent' = sent,
         LeftBefore, \A p : Before(p) => Before(p)' /\ arrived'[p] = arrived[p]
  PROVE  Queued(g)'
  BY Zenon DEF Queued, LeftBefore

\* The order of what has left is kept when nothing leaves.
LEMMA OrderKept ==
  ASSUME SourceInOrder, sent' = sent, LeftBefore,
         \A p : Before(p) => Before(p)' /\ arrived'[p] = arrived[p]
  PROVE  SourceInOrder' /\ LeftBefore'
  <1>1. LeftBefore'
    BY Zenon DEF LeftBefore
  <1>2. \A n \in 1 .. Len(sent) : arrived'[sent[n].pkt] = arrived[sent[n].pkt]
    BY Zenon DEF LeftBefore
  <1>3. SourceInOrder'
    <2> SUFFICES ASSUME NEW i \in 1 .. Len(sent), NEW j \in 1 .. Len(sent), i < j,
                        arrived'[sent[i].pkt].from = arrived'[sent[j].pkt].from
                 PROVE  sent[i].pkt < sent[j].pkt
      BY DEF SourceInOrder
    <2>1. arrived[sent[i].pkt].from = arrived[sent[j].pkt].from
      BY <1>2
    <2> QED
      BY <2>1 DEF SourceInOrder
  <1> QED
    BY <1>1, <1>3

\* A datagram arrives: it is later than all others.
LEMMA FlowArrive ==
  ASSUME FlowInv, NEW s \in Sources, NEW u \in Users, NEW to, Arrive(s, u),
         sending' = [to |-> to, pkt |-> Len(arrived')]
  PROVE  /\ arrived' \in Seq(Homes) /\ Len(arrived') = Len(arrived) + 1 /\ Len(arrived') # 0
         /\ arrived'[Len(arrived')].from = s
         /\ \A p : Before(p) => Before(p)' /\ arrived'[p] = arrived[p]
  <1>1. arrived' = Append(arrived, [from |-> s, user |-> u]) /\ sending = None
    BY DEF Arrive
  <1>2. arrived \in Seq(Homes) /\ [from |-> s, user |-> u] \in Homes
    BY DEF FlowInv, FlowShapes, Homes
  <1>3. /\ arrived' \in Seq(Homes) /\ Len(arrived') = Len(arrived) + 1 /\ Len(arrived) \in Nat
        /\ arrived'[Len(arrived) + 1] = [from |-> s, user |-> u]
        /\ \A p \in 1 .. Len(arrived) : arrived'[p] = arrived[p]
    BY <1>1, <1>2
  <1>4. ASSUME NEW p, Before(p) PROVE Before(p)'
    <2>1. p \in 1 .. Len(arrived)
      BY <1>4 DEF Before
    <2>2. p \in 1 .. Len(arrived') /\ p < Len(arrived') /\ sending'.pkt = Len(arrived')
      BY <2>1, <1>3
    <2> QED
      BY <2>2 DEF Before
  <1> QED
    BY <1>3, <1>4 DEF Before

\* The first datagram of a session ...
LEMMA FlowOpen ==
  ASSUME FlowInv, NEW s \in Sources, NEW u \in Users, Arrive(s, u), table[s] = None, Open(s, u)
  PROVE  FlowInv'
  <1> DEFINE n == Len(home) + 1
  <1>0. home \in Seq(Homes) /\ [from |-> s, user |-> u] \in Homes /\ Len(home) \in Nat
    BY DEF FlowInv, Inv, Shapes, Homes
  <1>1. /\ home' = Append(home, [from |-> s, user |-> u]) /\ Len(home') = n /\ n \in Nat
        /\ home'[n].from = s /\ \A g \in Sessions : home'[g] = home[g]
    BY <1>0 DEF Open, Sessions
  <1>2. Sessions' = Sessions \union {n} /\ n \notin Sessions
    BY <1>0, <1>1 DEF Sessions
  <1>3. /\ egress' \in Seq({"binding", "up", "gone"}) /\ Len(egress') = n
        /\ egress'[n] = "binding" /\ \A g \in Sessions : egress'[g] = egress[g]
    <2>1. /\ egress \in Seq({"binding", "up", "gone"}) /\ Len(egress) = Len(home)
          /\ egress' = Append(egress, "binding")
      BY DEF FlowInv, FlowShapes, Open
    <2> QED
      BY <2>1, <1>0 DEF Sessions
  <1>4. /\ up' \in Seq(Seq(Nat)) /\ Len(up') = n
        /\ up'[n] = <<>> /\ \A g \in Sessions : up'[g] = up[g]
    <2>1. up \in Seq(Seq(Nat)) /\ Len(up) = Len(home) /\ <<>> \in Seq(Nat) /\ up' = Append(up, <<>>)
      BY DEF FlowInv, FlowShapes, Open
    <2> QED
      BY <2>1, <1>0 DEF Sessions
  <1>5. reader'[n] = "running" /\ \A g \in Sessions : reader'[g] = reader[g]
    <2>1. /\ reader \in Seq(Stages) /\ Len(reader) = Len(home) /\ "running" \in Stages
          /\ reader' = Append(reader, "running")
      BY DEF FlowInv, Inv, Shapes, Stages, Open
    <2> QED
      BY <2>1, <1>0 DEF Sessions
  <1>6. sending' = [to |-> n, pkt |-> Len(arrived')] /\ sent' = sent /\ table' = [table EXCEPT ![s] = n]
    BY <1>1 DEF Open
  <1>7. /\ arrived' \in Seq(Homes) /\ Len(arrived') # 0 /\ arrived'[Len(arrived')].from = s
        /\ \A p : Before(p) => Before(p)' /\ arrived'[p] = arrived[p]
    BY <1>6, FlowArrive
  <1>8. Inv'
    BY InvOpen DEF FlowInv
  <1>9. FlowShapes'
    BY <1>1, <1>3, <1>4, <1>6, <1>7, Zenon DEF FlowInv, FlowShapes
  <1>10. TableHomes'
    <2> SUFFICES ASSUME NEW r \in Sources, table'[r] # None PROVE home'[table'[r]].from = r
      BY DEF TableHomes
    <2>1. CASE r = s
      BY <2>1, <1>1, <1>6 DEF FlowInv, Inv, Shapes
    <2>2. CASE r # s
      <3>1. table'[r] = table[r] /\ table[r] \in Sessions
        BY <2>2, <1>6 DEF FlowInv, Inv, Shapes
      <3> QED
        BY <3>1, <1>1 DEF FlowInv, TableHomes
    <2> QED
      BY <2>1, <2>2
  <1>11. InHand'
    BY <1>1, <1>2, <1>6, <1>7 DEF InHand
  <1>12. ASSUME NEW g \in Sessions' PROVE EgressFirst(g)' /\ Queued(g)'
    <2>1. CASE g = n
      BY <2>1, <1>3, <1>4, <1>5 DEF EgressFirst, Queued
    <2>2. CASE g \in Sessions
      <3>1. EgressFirst(g)'
        BY <2>2, <1>3, <1>4, <1>5 DEF FlowInv, EgressFirst
      <3>2. Queued(g)'
        BY <2>2, <1>1, <1>4, <1>6, <1>7, QueuedKept, Zenon DEF FlowInv
      <3> QED
        BY <3>1, <3>2
    <2> QED
      BY <2>1, <2>2, <1>2
  <1>13. SourceInOrder' /\ LeftBefore'
    BY <1>6, <1>7, OrderKept, Zenon DEF FlowInv
  <1> QED
    BY <1>8, <1>9, <1>10, <1>11, <1>12, <1>13, Zenon DEF FlowInv

\* ... and the next ones.
LEMMA FlowReuse ==
  ASSUME FlowInv, NEW s \in Sources, NEW u \in Users, Arrive(s, u), table[s] # None, Reuse(s)
  PROVE  FlowInv'
  <1>1. /\ sending' = [to |-> table[s], pkt |-> Len(arrived')]
        /\ UNCHANGED <<table, home, egress, up, reader, reap, sent>>
    BY DEF Reuse
  <1>2. table[s] \in Sessions /\ home[table[s]].from = s
    BY DEF FlowInv, Inv, Shapes, TableHomes
  <1>3. /\ arrived' \in Seq(Homes) /\ Len(arrived') # 0 /\ arrived'[Len(arrived')].from = s
        /\ \A p : Before(p) => Before(p)' /\ arrived'[p] = arrived[p]
    BY <1>1, FlowArrive
  <1>4. Inv'
    BY <1>1, InvStutter DEF FlowInv
  <1>5. Sessions' = Sessions
    BY <1>1 DEF Sessions
  <1>6. FlowShapes' /\ TableHomes'
    BY <1>1, <1>3, Zenon DEF FlowInv, FlowShapes, TableHomes
  <1>7. InHand'
    BY <1>1, <1>2, <1>3, <1>5 DEF InHand
  <1>8. ASSUME NEW g \in Sessions PROVE EgressFirst(g)' /\ Queued(g)'
    <2>1. EgressFirst(g)'
      BY <1>1, Zenon DEF FlowInv, EgressFirst
    <2>2. Queued(g)'
      BY <1>1, <1>3, QueuedKept, Zenon DEF FlowInv
    <2> QED
      BY <2>1, <2>2
  <1>9. SourceInOrder' /\ LeftBefore'
    BY <1>1, <1>3, OrderKept, Zenon DEF FlowInv
  <1> QED
    BY <1>4, <1>5, <1>6, <1>7, <1>8, <1>9, Zenon DEF FlowInv

\* A step that leaves the datagrams, the sessions and the egress tasks alone.
LEMMA FlowQuiet ==
  ASSUME FlowInv, Inv', TableHomes', UNCHANGED <<arrived, home, egress, up, sent>>,
         sending' = sending \/ sending' = None,
         \A g \in Sessions : egress[g] # "gone" => reader'[g] = reader[g]
  PROVE  FlowInv'
  <1>1. \A p : Before(p) => Before(p)' /\ arrived'[p] = arrived[p]
    BY Zenon DEF Before
  <1>2. Sessions' = Sessions
    BY DEF Sessions
  <1>3. FlowShapes' /\ InHand'
    BY <1>2, Zenon DEF FlowInv, FlowShapes, InHand
  <1>4. ASSUME NEW g \in Sessions PROVE EgressFirst(g)' /\ Queued(g)'
    <2>1. EgressFirst(g)'
      BY Zenon DEF FlowInv, EgressFirst
    <2>2. Queued(g)'
      BY <1>1, QueuedKept, Zenon DEF FlowInv
    <2> QED
      BY <2>1, <2>2
  <1>5. SourceInOrder' /\ LeftBefore'
    BY <1>1, OrderKept, Zenon DEF FlowInv
  <1> QED
    BY <1>2, <1>3, <1>4, <1>5, Zenon DEF FlowInv

\* The service's send completes: the uplink of a running session takes the
\* last datagram.
LEMMA FlowSend ==
  ASSUME FlowInv, SendOk
  PROVE  FlowInv'
  <1>0. PICK t, p : t = sending.to /\ p = sending.pkt
    OBVIOUS
  <1>1. /\ sending # None /\ egress[t] # "gone" /\ sending' = None
        /\ up' = [up EXCEPT ![t] = Append(@, p)]
        /\ UNCHANGED <<arrived, table, home, egress, reader, reap, sent>>
    BY <1>0 DEF SendOk
  <1>2. t \in Sessions /\ p = Len(arrived) /\ Len(arrived) # 0 /\ arrived[p].from = home[t].from
    BY <1>0, <1>1 DEF FlowInv, InHand
  <1>3. p \in Nat /\ p \in 1 .. Len(arrived)
    BY <1>2 DEF FlowInv, FlowShapes
  <1>4. up \in Seq(Seq(Nat)) /\ Len(up) = Len(home) /\ t \in 1 .. Len(up) /\ up[t] \in Seq(Nat)
    BY <1>2, Session DEF FlowInv, FlowShapes
  <1>5. Append(up[t], p) \in Seq(Nat)
    BY <1>3, <1>4
  <1>6. /\ up' \in Seq(Seq(Nat)) /\ Len(up') = Len(up) /\ up'[t] = Append(up[t], p)
        /\ \A g \in Sessions : g # t => up'[g] = up[g]
    <2>1. DOMAIN up = Sessions
      BY <1>4 DEF Sessions
    <2> QED
      BY <2>1, <1>1, <1>4, <1>5
  <1>7. Inv'
    BY <1>1, InvStutter DEF FlowInv
  <1>8. Sessions' = Sessions
    BY <1>1 DEF Sessions
  <1>9. FlowShapes' /\ TableHomes' /\ InHand'
    BY <1>1, <1>6, Zenon DEF FlowInv, FlowShapes, TableHomes, InHand
  <1>10. \A q : Before(q) => Before(q)' /\ arrived'[q] = arrived[q] /\ q < p
    BY <1>0, <1>1, Zenon DEF Before
  <1>11. SourceInOrder' /\ LeftBefore'
    BY <1>1, <1>10, OrderKept, Zenon DEF FlowInv
  <1>12. ASSUME NEW g \in Sessions PROVE EgressFirst(g)'
    BY <1>1, <1>6, Zenon DEF FlowInv, EgressFirst
  <1>13. ASSUME NEW g \in Sessions, g # t PROVE Queued(g)'
    BY <1>1, <1>6, <1>10, <1>13, QueuedKept, Zenon DEF FlowInv
  <1>14. Queued(t)'
    <2>0. PICK q, r : q = up[t] /\ r = up'[t]
      OBVIOUS
    <2>1. q \in Seq(Nat) /\ Len(q) \in Nat /\ r = Append(q, p)
      BY <1>4, <1>6, <2>0
    <2>2. /\ Len(r) = Len(q) + 1 /\ r[Len(q) + 1] = p
          /\ \A i \in 1 .. Len(q) : r[i] = q[i]
      BY <2>1, <1>3
    <2>3. Queued(t) /\ LeftBefore
      BY <1>2 DEF FlowInv
    <2>4. \A i \in 1 .. Len(q) : Before(q[i]) /\ q[i] < p
      BY <2>0, <2>3, <1>10, Zenon DEF Queued
    <2>5. Before(p)'
      BY <1>1, <1>3, Zenon DEF Before
    <2>6. ASSUME NEW i \in 1 .. Len(r)
          PROVE  /\ Before(r[i])' /\ arrived[r[i]].from = home[t].from
                 /\ \A j \in 1 .. Len(r) : i < j => r[i] < r[j]
                 /\ \A n \in 1 .. Len(sent) :
                       arrived[sent[n].pkt].from = home[t].from => sent[n].pkt < r[i]
      <3>1. CASE i = Len(q) + 1
        <4>1. r[i] = p /\ \A j \in 1 .. Len(r) : ~(i < j)
          BY <3>1, <2>1, <2>2
        <4>2. \A n \in 1 .. Len(sent) : sent[n].pkt < p
          BY <2>3, <1>10, Zenon DEF LeftBefore
        <4> QED
          BY <4>1, <4>2, <2>5, <1>2
      <3>2. CASE i \in 1 .. Len(q)
        <4>1. r[i] = q[i] /\ Before(q[i])' /\ q[i] < p
          BY <3>2, <2>2, <2>4, <1>10
        <4>2. /\ arrived[q[i]].from = home[t].from
              /\ \A j \in 1 .. Len(q) : i < j => q[i] < q[j]
              /\ \A n \in 1 .. Len(sent) :
                    arrived[sent[n].pkt].from = home[t].from => sent[n].pkt < q[i]
          BY <3>2, <2>0, <2>3, Zenon DEF Queued
        <4>3. \A j \in 1 .. Len(r) : j \in 1 .. Len(q) \/ j = Len(q) + 1
          BY <2>1, <2>2
        <4>4. \A j \in 1 .. Len(r) : i < j => q[i] < r[j]
          BY <4>1, <4>2, <4>3, <2>2, Zenon
        <4> QED
          BY <4>1, <4>2, <4>4
      <3> QED
        BY <3>1, <3>2, <2>1, <2>2
    <2> QED
      BY <2>0, <2>6, <1>1, Zenon DEF Queued
  <1> QED
    BY <1>7, <1>8, <1>9, <1>11, <1>12, <1>13, <1>14, Zenon DEF FlowInv

\* freedom_udp binds its socket, or returns and drops its uplink.
LEMMA FlowEgress ==
  ASSUME FlowInv, NEW g \in Sessions, Bind(g) \/ EgressEnds(g)
  PROVE  FlowInv'
  <1>1. /\ UNCHANGED <<arrived, table, home, reader, reap, sending, sent>>
        /\ egress[g] # "gone"
        /\ \/ egress' = [egress EXCEPT ![g] = "up"] /\ up' = up
           \/ egress' = [egress EXCEPT ![g] = "gone"] /\ up' = [up EXCEPT ![g] = <<>>]
    BY DEF Bind, EgressEnds
  <1>2. /\ egress \in Seq({"binding", "up", "gone"}) /\ Len(egress) = Len(home)
        /\ up \in Seq(Seq(Nat)) /\ Len(up) = Len(home) /\ <<>> \in Seq(Nat)
        /\ DOMAIN egress = Sessions /\ DOMAIN up = Sessions
    BY DEF FlowInv, FlowShapes, Sessions
  <1>3. /\ egress' \in Seq({"binding", "up", "gone"}) /\ Len(egress') = Len(egress)
        /\ \A h \in Sessions : h # g => egress'[h] = egress[h]
    <2>1. PICK e \in {"binding", "up", "gone"} : egress' = [egress EXCEPT ![g] = e]
      BY <1>1
    <2> QED
      BY <2>1, <1>2
  <1>4. /\ up' \in Seq(Seq(Nat)) /\ Len(up') = Len(up)
        /\ \A h \in Sessions : h # g => up'[h] = up[h]
    <2>1. CASE up' = up
      BY <2>1, <1>2
    <2>2. CASE up' = [up EXCEPT ![g] = <<>>]
      BY <2>2, <1>2
    <2> QED
      BY <2>1, <2>2, <1>1
  <1>5. \/ egress'[g] = "up" /\ up'[g] = up[g]
        \/ egress'[g] = "gone" /\ up'[g] = <<>>
    <2>1. CASE egress' = [egress EXCEPT ![g] = "up"] /\ up' = up
      BY <2>1, <1>2
    <2>2. CASE egress' = [egress EXCEPT ![g] = "gone"] /\ up' = [up EXCEPT ![g] = <<>>]
      BY <2>2, <1>2
    <2> QED
      BY <2>1, <2>2, <1>1
  <1>6. Inv'
    BY <1>1, InvStutter DEF FlowInv
  <1>7. Sessions' = Sessions
    BY <1>1 DEF Sessions
  <1>8. FlowShapes' /\ TableHomes' /\ InHand'
    BY <1>1, <1>3, <1>4, <1>7, Zenon DEF FlowInv, FlowShapes, TableHomes, InHand
  <1>9. \A p : Before(p) => Before(p)' /\ arrived'[p] = arrived[p]
    BY <1>1, Zenon DEF Before
  <1>10. SourceInOrder' /\ LeftBefore'
    BY <1>1, <1>9, OrderKept, Zenon DEF FlowInv
  <1>11. ASSUME NEW h \in Sessions, h # g PROVE EgressFirst(h)' /\ Queued(h)'
    <2>1. EgressFirst(h)'
      BY <1>1, <1>3, <1>4, <1>11, Zenon DEF FlowInv, EgressFirst
    <2>2. Queued(h)'
      BY <1>1, <1>4, <1>9, <1>11, QueuedKept, Zenon DEF FlowInv
    <2> QED
      BY <2>1, <2>2
  <1>12. EgressFirst(g)'
    BY <1>1, <1>5 DEF FlowInv, EgressFirst
  <1>13. Queued(g)'
    <2>1. CASE up'[g] = up[g]
      BY <2>1, <1>1, <1>9, QueuedKept, Zenon DEF FlowInv
    <2>2. CASE up'[g] = <<>>
      BY <2>2 DEF Queued
    <2> QED
      BY <2>1, <2>2, <1>5
  <1> QED
    BY <1>6, <1>7, <1>8, <1>10, <1>11, <1>12, <1>13, Zenon DEF FlowInv

\* A datagram leaves on the egress socket: no other session of its source
\* holds one.
LEMMA FlowEgressSends ==
  ASSUME FlowInv, NEW g \in Sessions, EgressSends(g)
  PROVE  FlowInv'
  <1>0. PICK q, r, p : q = up[g] /\ r = up'[g] /\ p = Head(q)
    OBVIOUS
  <1>1. /\ egress[g] = "up" /\ q # <<>> /\ sent' = Append(sent, [by |-> g, pkt |-> p])
        /\ up' = [up EXCEPT ![g] = Tail(q)]
        /\ UNCHANGED <<arrived, table, home, egress, reader, reap, sending>>
    BY <1>0 DEF EgressSends
  <1>2. q \in Seq(Nat) /\ g \in Nat /\ Len(q) \in Nat
    BY <1>0, Session
  <1>3. up \in Seq(Seq(Nat)) /\ Len(up) = Len(home) /\ DOMAIN up = Sessions /\ Tail(q) \in Seq(Nat)
    BY <1>1, <1>2 DEF FlowInv, FlowShapes, Sessions
  <1>4. /\ up' \in Seq(Seq(Nat)) /\ Len(up') = Len(up) /\ r = Tail(q)
        /\ \A h \in Sessions : h # g => up'[h] = up[h]
    BY <1>0, <1>1, <1>3
  <1>5. /\ 1 \in 1 .. Len(q) /\ p = q[1] /\ p \in Nat
        /\ \A i \in 1 .. Len(r) : i + 1 \in 1 .. Len(q) /\ r[i] = q[i + 1] /\ 1 < i + 1
        /\ \A i, j \in 1 .. Len(r) : i < j => i + 1 < j + 1
    BY <1>0, <1>1, <1>2, <1>4
  <1>6. /\ Before(p) /\ arrived[p].from = home[g].from
        /\ \A i \in 1 .. Len(q) : 1 < i => p < q[i]
        /\ \A n \in 1 .. Len(sent) : arrived[sent[n].pkt].from = home[g].from => sent[n].pkt < p
    <2>1. Queued(g)
      BY DEF FlowInv
    <2> QED
      BY <2>1, <1>0, <1>5, Zenon DEF Queued
  <1>7. sent \in Seq([by : Nat, pkt : Nat]) /\ [by |-> g, pkt |-> p] \in [by : Nat, pkt : Nat]
    BY <1>2, <1>5 DEF FlowInv, FlowShapes
  <1>8. /\ sent' \in Seq([by : Nat, pkt : Nat]) /\ Len(sent) \in Nat /\ Len(sent') = Len(sent) + 1
        /\ sent'[Len(sent) + 1] = [by |-> g, pkt |-> p]
        /\ \A n \in 1 .. Len(sent) : sent'[n] = sent[n]
    BY <1>1, <1>7
  <1>9. \A n \in 1 .. Len(sent') : \/ n \in 1 .. Len(sent) /\ sent'[n].pkt = sent[n].pkt
                                   \/ n = Len(sent) + 1 /\ sent'[n].pkt = p
    <2>1. \A n \in 1 .. Len(sent') : n \in 1 .. Len(sent) \/ n = Len(sent) + 1
      BY <1>8
    <2>2. sent'[Len(sent) + 1].pkt = p
      BY <1>8
    <2>3. \A n \in 1 .. Len(sent) : sent'[n].pkt = sent[n].pkt
      BY <1>8, Zenon
    <2> TAKE n \in 1 .. Len(sent')
    <2>4. CASE n = Len(sent) + 1
      BY <2>2, <2>4
    <2>5. CASE n \in 1 .. Len(sent)
      BY <2>3, <2>5, Zenon
    <2> QED
      BY <2>1, <2>4, <2>5, Zenon
  <1>10. Inv'
    BY <1>1, InvStutter DEF FlowInv
  <1>11. Sessions' = Sessions
    BY <1>1 DEF Sessions
  <1>12. FlowShapes' /\ TableHomes' /\ InHand'
    BY <1>1, <1>4, <1>8, <1>11, Zenon DEF FlowInv, FlowShapes, TableHomes, InHand
  <1>13. \A x : Before(x) => Before(x)'
    BY <1>1, Zenon DEF Before
  <1>14. LeftBefore'
    <2> SUFFICES ASSUME NEW n \in 1 .. Len(sent'), NEW x, x = sent'[n].pkt PROVE Before(x)'
      BY Zenon DEF LeftBefore
    <2> QED
      BY <1>6, <1>9, <1>13, Zenon DEF FlowInv, LeftBefore
  <1>15. SourceInOrder'
    <2> SUFFICES ASSUME NEW i \in 1 .. Len(sent'), NEW j \in 1 .. Len(sent'), i < j,
                        arrived[sent'[i].pkt].from = arrived[sent'[j].pkt].from
                 PROVE  sent'[i].pkt < sent'[j].pkt
      BY <1>1 DEF SourceInOrder
    <2>1. i \in 1 .. Len(sent) /\ sent'[i].pkt = sent[i].pkt
      <3>1. i # Len(sent) + 1
        BY <1>8
      <3> QED
        BY <3>1, <1>9, Zenon
    <2>2. CASE j \in 1 .. Len(sent) /\ sent'[j].pkt = sent[j].pkt
      BY <2>1, <2>2, Zenon DEF FlowInv, SourceInOrder
    <2>3. CASE sent'[j].pkt = p
      BY <2>1, <2>3, <1>6
    <2> QED
      BY <2>2, <2>3, <1>9
  <1>16. ASSUME NEW h \in Sessions PROVE EgressFirst(h)'
    BY <1>1, <1>4, Zenon DEF FlowInv, EgressFirst
  <1>17. ASSUME NEW h \in Sessions, h # g PROVE Queued(h)'
    <2>1. CASE home[h].from = home[g].from
      <3>1. egress[h] = "gone"
        BY <2>1, <1>1, <1>17, OneUplink
      <3>2. up'[h] = <<>>
        BY <3>1, <1>4, <1>17 DEF FlowInv, EgressFirst
      <3> QED
        BY <3>2 DEF Queued
    <2>2. CASE home[h].from # home[g].from
      <3>1. Queued(h)
        BY DEF FlowInv
      <3>2. ASSUME NEW i \in 1 .. Len(up[h]), NEW n \in 1 .. Len(sent'),
                   arrived[sent'[n].pkt].from = home[h].from
            PROVE  sent'[n].pkt < up[h][i]
        BY <3>1, <3>2, <2>2, <1>6, <1>9, Zenon DEF Queued
      <3> QED
        BY <3>1, <3>2, <1>1, <1>4, <1>13, <1>17, Zenon DEF Queued
    <2> QED
      BY <2>1, <2>2
  <1>18. Queued(g)'
    <2>1. ASSUME NEW i \in 1 .. Len(r)
          PROVE  /\ Before(r[i])' /\ arrived[r[i]].from = home[g].from
                 /\ \A j \in 1 .. Len(r) : i < j => r[i] < r[j]
                 /\ \A n \in 1 .. Len(sent') :
                       arrived[sent'[n].pkt].from = home[g].from => sent'[n].pkt < r[i]
      <3>1. r[i] = q[i + 1] /\ i + 1 \in 1 .. Len(q) /\ p < q[i + 1]
        BY <1>5, <1>6
      <3>2. /\ Before(q[i + 1]) /\ arrived[q[i + 1]].from = home[g].from
            /\ \A j \in 1 .. Len(q) : i + 1 < j => q[i + 1] < q[j]
            /\ \A n \in 1 .. Len(sent) :
                  arrived[sent[n].pkt].from = home[g].from => sent[n].pkt < q[i + 1]
        BY <3>1, <1>0, Zenon DEF FlowInv, Queued
      <3> QED
        BY <3>1, <3>2, <1>5, <1>9, <1>13, Zenon
    <2> QED
      BY <2>1, <1>0, <1>1, ZenonT(60) DEF Queued
  <1> QED
    BY <1>10, <1>11, <1>12, <1>14, <1>15, <1>16, <1>17, <1>18, Zenon DEF FlowInv

LEMMA FlowNext == FlowInv /\ [Next]_vars => FlowInv'
  <1> SUFFICES ASSUME FlowInv, [Next]_vars PROVE FlowInv'
    OBVIOUS
  <1>0. Inv'
    BY InvNext DEF FlowInv
  <1>T. ASSUME UNCHANGED <<table, home>> PROVE TableHomes'
    BY <1>T, Zenon DEF FlowInv, TableHomes
  <1>1. ASSUME NEW s \in Sources, NEW u \in Users, RecvFrom(s, u) PROVE FlowInv'
    BY <1>1, FlowOpen, FlowReuse DEF RecvFrom
  <1>2. CASE SendOk
    BY <1>2, FlowSend
  <1>3. CASE SendFails
    BY <1>0, <1>3, <1>T, FlowQuiet DEF SendFails
  <1>4. CASE Reap
    <2>1. /\ table' = [table EXCEPT ![Head(reap)] = None] /\ home' = home
          /\ UNCHANGED <<arrived, egress, up, sent, reader, sending>>
      BY <1>4 DEF Reap
    <2>2. TableHomes'
      BY <2>1 DEF FlowInv, Inv, Shapes, TableHomes
    <2> QED
      BY <2>1, <2>2, <1>0, FlowQuiet
  <1>5. ASSUME NEW g \in Sessions, Egress(g) PROVE FlowInv'
    <2>1. CASE EgressReceives(g)
      BY <2>1, <1>0, <1>T, FlowQuiet DEF EgressReceives
    <2> QED
      BY <1>5, <2>1, FlowEgress, FlowEgressSends DEF Egress
  <1>6. ASSUME NEW g \in Sessions, Downlink(g) PROVE FlowInv'
    <2>1. UNCHANGED <<arrived, table, home, egress, up, sent, sending>>
      BY <1>6 DEF Downlink, DownRecv, DownEof, ReapSend
    <2>2. \/ reader' = reader
          \/ egress[g] = "gone" /\ \E x : reader' = [reader EXCEPT ![g] = x]
      <3>1. CASE DownRecv(g)
        <4>1. reader' = reader
          BY <3>1 DEF DownRecv
        <4> QED
          BY <4>1
      <3>2. CASE DownEof(g)
        BY <3>2, Zenon DEF DownEof
      <3>3. CASE ReapSend(g)
        <4>1. egress[g] = "gone"
          BY <3>3 DEF ReapSend, FlowInv, EgressFirst
        <4> QED
          BY <3>3, <4>1, Zenon DEF ReapSend
      <3> QED
        BY <1>6, <3>1, <3>2, <3>3 DEF Downlink
    <2>3. \A h \in Sessions : egress[h] # "gone" => reader'[h] = reader[h]
      <3>1. DOMAIN reader = Sessions
        BY DEF FlowInv, Inv, Shapes, Sessions
      <3> QED
        BY <2>2, <3>1, Zenon
    <2> QED
      BY <2>1, <2>3, <1>0, <1>T, FlowQuiet
  <1>7. CASE UNCHANGED vars
    BY <1>7, <1>0, <1>T, FlowQuiet DEF vars
  <1> QED
    BY <1>1, <1>2, <1>3, <1>4, <1>5, <1>6, <1>7, Zenon DEF Next

\* serve_udp and freedom_udp keep the order of one source's datagrams, across
\* sessions that end and are replaced: each leaves at most once, and never
\* after a later one.
THEOREM SourcesKeepOrder == Spec => []SourceInOrder
  <1>1. Init => FlowInv
    BY InvInit DEF Init, FlowInv, FlowShapes, TableHomes, InHand, LeftBefore, SourceInOrder, Sessions
  <1>2. FlowInv => SourceInOrder
    BY DEF FlowInv
  <1> QED
    BY <1>1, <1>2, FlowNext, PTL DEF Spec
============================================================================
