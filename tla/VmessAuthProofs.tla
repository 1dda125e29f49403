-------------------------- MODULE VmessAuthProofs ---------------------------
(***************************************************************************)
(* For any connections, user tables, authIDs and bounds: a connection is   *)
(* attributed to the user that made its authID, an authID is accepted once *)
(* per window, and permits are conserved.  The invariant says of the       *)
(* filter that every authID accepted less than a window ago has an entry   *)
(* that prune keeps.                                                       *)
(***************************************************************************)
EXTENDS VmessAuth, FiniteSetTheorems, SequenceTheorems, WellFoundedInduction, TLAPS

Ids == AuthIds \union {None}
Entries == [id : Ids, expires : Nat]
Reads == [id : Ids, table : Tables \union {<<>>}, active : Seq(Nat), found : Nat \union {None}]
Places == {"new", "loaded", "permit", "match", "join", "accepted", "header", "ok", "failed"}

Shapes ==
    /\ now \in Nat /\ users \in Tables /\ active \in Seq(Nat) /\ order \in Seq(Entries)
    /\ pc \in [Conns -> Places] /\ conn \in [Conns -> Reads]
    /\ accepted \subseteq [id : Ids, at : Nat, conn : Conns]

\* A connection's index, once found, is that of the user in its own table.
Attributed(c) ==
    /\ pc[c] = "new" => conn[c].found = None
    /\ pc[c] = "accepted" => conn[c].found # None
    /\ conn[c].found # None => conn[c].found \in DOMAIN conn[c].table
                               /\ conn[c].table[conn[c].found] = conn[c].id.user

\* An authID accepted less than a window ago is in the filter.
Remembered(x) ==
    /\ x.at <= now
    /\ x.at + Window > now => \E i \in DOMAIN order : order[i].id = x.id /\ order[i].expires = x.at + Window

Conserved == /\ jobs \subseteq Conns /\ IsFiniteSet(jobs) /\ free \in Nat /\ free + Cardinality(jobs) = Permits
             /\ \A c \in jobs : pc[c] \in {"match", "failed"}

AuthInv ==
    /\ Shapes /\ Conserved
    /\ \A c \in Conns : Attributed(c)
    /\ \A x \in accepted : Remembered(x)
    /\ OnceWithinWindow

-----------------------------------------------------------------------------
(* The operators.                                                          *)

\* A nonempty set of naturals has a least element.
LEMMA Least ==
  ASSUME NEW S \in SUBSET Nat, S # {}
  PROVE  \E i \in S : \A j \in S : i <= j
  <1>1. \E x \in S : \A y \in S : ~(<<y, x>> \in OpToRel(<, Nat))
    BY NatLessThanWellFounded, WFMin
  <1>2. \A x, y \in Nat : ~(<<y, x>> \in OpToRel(<, Nat)) => x <= y
    BY DEF OpToRel
  <1> QED
    BY <1>1, <1>2

\* A user table is indexed by naturals.
LEMMA Indexes ==
  ASSUME NEW table \in Tables \union {<<>>}
  PROVE  DOMAIN table \subseteq Nat
  <1>1. CASE table \in Tables
    <2>1. table \in Seq(Range(table))
      BY <1>1, VmessConstants
    <2> QED
      BY <2>1
  <1> QED
    BY <1>1

\* match_user answers with an index of the table it was given, at which the
\* authID's user is, whatever the hints are.
LEMMA MatchIsRight ==
  ASSUME NEW table \in Tables \union {<<>>}, NEW hints \in Seq(Nat), NEW id
  PROVE  LET m == MatchUser(table, hints, id) IN
         m # None => m \in Nat /\ m \in DOMAIN table /\ table[m] = id.user
  <1> DEFINE hit == {k \in DOMAIN hints : hints[k] \in DOMAIN table /\ MatchOne(table, hints[k], id)}
             all == {i \in DOMAIN table : MatchOne(table, i, id)}
             m == MatchUser(table, hints, id)
  <1>1. DOMAIN table \subseteq Nat /\ DOMAIN hints \subseteq Nat
    BY Indexes
  <1>2. \A i \in DOMAIN table : MatchOne(table, i, id) => table[i] = id.user
    BY DEF MatchOne
  <1>3. CASE hit # {}
    <2>1. PICK k \in hit : m = hints[k]
      <3>1. hit \subseteq Nat
        BY <1>1
      <3>2. \E k \in hit : \A j \in hit : k <= j
        BY <1>3, <3>1, Least, Zenon
      <3>3. m = hints[CHOOSE k \in hit : \A j \in hit : k <= j]
        BY <1>3 DEF MatchUser
      <3> QED
        BY <3>2, <3>3, Zenon
    <2> QED
      BY <2>1, <1>1, <1>2
  <1>4. CASE hit = {} /\ all # {}
    <2>1. all \subseteq Nat
      BY <1>1
    <2>2. \E i \in all : \A j \in all : i <= j
      BY <1>4, <2>1, Least, Zenon
    <2>3. m = CHOOSE i \in all : \A j \in all : i <= j
      BY <1>4 DEF MatchUser
    <2>4. m \in all
      BY <2>2, <2>3
    <2> QED
      BY <2>4, <1>1, <1>2
  <1>5. CASE hit = {} /\ all = {}
    <2>1. m = None
      BY <1>5 DEF MatchUser
    <2> QED
      BY <2>1
  <1> QED
    BY <1>3, <1>4, <1>5

\* prune keeps every entry that has not expired.
LEMMA PruneKeeps ==
  ASSUME NEW E, NEW o \in Seq(E)
  PROVE  /\ Prune(o) \in Seq(E)
         /\ \A i \in DOMAIN o : o[i].expires > now => \E j \in DOMAIN Prune(o) : Prune(o)[j] = o[i]
  <1> DEFINE live == {i \in DOMAIN o : o[i].expires > now}
             first == CHOOSE i \in live : \A j \in live : i <= j
  <1>1. CASE live = {}
    <2>1. Prune(o) = <<>>
      BY <1>1 DEF Prune
    <2> QED
      BY <1>1, <2>1
  <1>2. CASE live # {}
    <2>1. live \subseteq Nat /\ DOMAIN o = 1..Len(o) /\ Len(o) \in Nat
      OBVIOUS
    <2>2. \E i \in live : \A j \in live : i <= j
      BY <1>2, <2>1, Least, Zenon
    <2>3. first \in live /\ \A j \in live : first <= j
      BY <2>2
    <2>4. Prune(o) = SubSeq(o, first, Len(o))
      BY <1>2, Zenon DEF Prune
    <2> HIDE DEF first
    <2>5. first \in 1..Len(o)
      BY <2>1, <2>3
    <2>6. /\ Prune(o) \in Seq(E) /\ DOMAIN Prune(o) = 1..(Len(o) - first + 1)
          /\ \A j \in 1..(Len(o) - first + 1) : Prune(o)[j] = o[first + j - 1]
      BY <2>1, <2>4, <2>5
    <2>7. ASSUME NEW i \in live PROVE \E j \in DOMAIN Prune(o) : Prune(o)[j] = o[i]
      <3>1. i \in 1..Len(o) /\ first <= i
        BY <2>1, <2>3
      <3>2. i - first + 1 \in 1..(Len(o) - first + 1) /\ first + (i - first + 1) - 1 = i
        BY <2>1, <2>5, <3>1
      <3> QED
        BY <2>6, <3>2
    <2> QED
      BY <2>6, <2>7
  <1> QED
    BY <1>1, <1>2

\* remember_active_user keeps a list of indexes.
LEMMA RememberKeepsList ==
  ASSUME NEW s \in Seq(Nat), NEW e \in Nat, NEW n \in Nat
  PROVE  LET new == <<e>> \o RemoveFirst(s, e)
         IN  SubSeq(new, 1, IF Len(new) > n THEN n ELSE Len(new)) \in Seq(Nat)
  <1> DEFINE I == {i \in 1..Len(s) : s[i] = e}
             rest == RemoveFirst(s, e)
             new == <<e>> \o rest
  <1>1. rest \in Seq(Nat)
    <2>1. CASE I = {}
      BY <2>1 DEF RemoveFirst
    <2>2. CASE I # {}
      <3>0. I \subseteq Nat
        OBVIOUS
      <3>1. \E i \in I : \A j \in I : i <= j
        BY <2>2, <3>0, Least, Zenon
      <3>2. PICK p \in 1..Len(s) : rest = SubSeq(s, 1, p - 1) \o SubSeq(s, p + 1, Len(s))
        BY <2>2, <3>1, Zenon DEF RemoveFirst, RemoveAt, SelectInSeq, Min
      <3> QED
        BY <3>2
    <2> QED
      BY <2>1, <2>2
  <1> HIDE DEF rest
  <1>2. new \in Seq(Nat)
    BY <1>1
  <1> HIDE DEF new
  <1>3. SubSeq(new, 1, IF Len(new) > n THEN n ELSE Len(new)) \in Seq(Nat)
    BY <1>2
  <1> QED
    BY <1>3 DEF new, rest

-----------------------------------------------------------------------------
(* The steps.                                                              *)

\* The steps of a handshake that change nothing but its place.
PlaceOnly(c) == Acquire(c) \/ NoMatch(c) \/ HeaderOk(c) \/ HeaderBad(c) \/ Timeout(c)

LEMMA ShapesStep ==
  ASSUME AuthInv, Next
  PROVE  Shapes'
  <1>S. Shapes
    BY DEF AuthInv
  <1>1. CASE Tick \/ StoreUsers \/ ClearActive
    <2>1. now + 1 \in Nat /\ <<>> \in Seq(Nat)
      BY <1>S DEF Shapes
    <2> QED
      BY <2>1, <1>1, <1>S, Zenon DEF Shapes, Tick, StoreUsers, ClearActive
  <1>2. ASSUME NEW c \in Conns, NEW to \in Places, pc' = [pc EXCEPT ![c] = to]
        PROVE  pc' \in [Conns -> Places]
    BY <1>2, <1>S, Zenon DEF Shapes
  <1>L. \A x \in {"loaded", "permit", "match", "join", "accepted", "header", "ok", "failed"} : x \in Places
    BY DEF Places
  <1>3. ASSUME NEW c \in Conns, NEW id \in AuthIds, LoadUsers(c, id) PROVE Shapes'
    <2>1. pc' \in [Conns -> Places]
      BY <1>2, <1>3, <1>L, Zenon DEF LoadUsers, Move
    <2>2. conn' = [conn EXCEPT ![c].id = id, ![c].table = users]
      BY <1>3 DEF LoadUsers
    <2>3. conn' \in [Conns -> Reads]
      BY <2>2, <1>S, Zenon DEF Shapes, Reads, Ids
    <2> QED
      BY <2>1, <2>3, <1>3, <1>S, Zenon DEF LoadUsers, Shapes, env
  <1>4. ASSUME NEW c \in Conns, SnapshotActive(c) PROVE Shapes'
    <2>1. pc' \in [Conns -> Places]
      BY <1>2, <1>4, <1>L, Zenon DEF SnapshotActive, Move
    <2>2. conn' = [conn EXCEPT ![c].active = active]
      BY <1>4 DEF SnapshotActive
    <2>3. conn' \in [Conns -> Reads]
      BY <2>2, <1>S, Zenon DEF Shapes, Reads
    <2> QED
      BY <2>1, <2>3, <1>4, <1>S, Zenon DEF SnapshotActive, Shapes, env
  <1>5. ASSUME NEW c \in Conns, JobEnds(c) PROVE Shapes'
    <2> DEFINE m == MatchUser(conn[c].table, conn[c].active, conn[c].id)
    <2>1. m \in Nat \union {None}
      <3>1. conn[c].table \in Tables \union {<<>>} /\ conn[c].active \in Seq(Nat)
        BY <1>S DEF Shapes, Reads
      <3> QED
        BY <3>1, MatchIsRight, Zenon
    <2>2. CASE pc[c] = "match"
      <3>1. conn' = [conn EXCEPT ![c].found = m]
        BY <1>5, <2>2 DEF JobEnds
      <3>2. pc' \in [Conns -> Places]
        BY <1>2, <1>5, <1>L, <2>2 DEF JobEnds
      <3> HIDE DEF m
      <3>3. conn' \in [Conns -> Reads]
        BY <2>1, <3>1, <1>S, Zenon DEF Shapes, Reads
      <3> QED
        BY <3>2, <3>3, <1>5, <1>S, Zenon DEF JobEnds, Shapes, env
    <2>3. CASE pc[c] # "match"
      BY <1>5, <2>3, <1>S, Zenon DEF JobEnds, Shapes, env
    <2> QED
      BY <2>2, <2>3
  <1>6. Prune(order) \in Seq(Entries)
    BY <1>S, PruneKeeps, Zenon DEF Shapes
  <1>7. ASSUME NEW c \in Conns, Replay(c) PROVE Shapes'
    <2>1. pc' \in [Conns -> Places]
      BY <1>2, <1>7, <1>L, Zenon DEF Replay, Move
    <2> QED
      BY <2>1, <1>6, <1>7, <1>S, Zenon DEF Replay, Shapes, env
  <1>8. ASSUME NEW c \in Conns, Accept(c) PROVE Shapes'
    <2> DEFINE e == [id |-> conn[c].id, expires |-> now + Window]
    <2>0. pc' \in [Conns -> Places]
      BY <1>2, <1>8, <1>L, Zenon DEF Accept, Move
    <2>1. /\ order' = Append(Prune(order), e)
          /\ accepted' = accepted \union {[id |-> conn[c].id, at |-> now, conn |-> c]}
      BY <1>8 DEF Accept
    <2>2. conn[c].id \in Ids /\ now \in Nat /\ now + Window \in Nat
      BY <1>S, VmessConstants DEF Shapes, Reads
    <2>3. order' \in Seq(Entries)
      <3>1. e \in Entries
        BY <2>2 DEF Entries
      <3> QED
        BY <2>1, <3>1, <1>6, AppendProperties, Zenon
    <2>4. accepted' \subseteq [id : Ids, at : Nat, conn : Conns]
      BY <2>1, <2>2, <1>S DEF Shapes
    <2> QED
      BY <2>0, <2>3, <2>4, <1>8, <1>S, Zenon DEF Accept, Shapes, env
  <1>9. ASSUME NEW c \in Conns, Remember(c) PROVE Shapes'
    <2>1. conn[c].found \in Nat
      <3>1. conn[c].found # None
        BY <1>9 DEF AuthInv, Attributed, Remember, Move
      <3> QED
        BY <3>1, <1>S DEF Shapes, Reads
    <2>2. active' \in Seq(Nat)
      BY <2>1, <1>9, <1>S, RememberKeepsList, VmessConstants, Zenon DEF Remember, Shapes
    <2>3. pc' \in [Conns -> Places]
      BY <1>2, <1>9, <1>L, Zenon DEF Remember, Move
    <2> QED
      BY <2>2, <2>3, <1>9, <1>S, Zenon DEF Remember, Shapes, env
  <1>10. ASSUME NEW c \in Conns, PlaceOnly(c) PROVE Shapes'
    <2>1. pc' \in [Conns -> Places]
      BY <1>2, <1>10, <1>L DEF PlaceOnly, Acquire, NoMatch, HeaderOk, HeaderBad, Timeout, Move
    <2> QED
      BY <2>1, <1>10, <1>S, Zenon DEF PlaceOnly, Acquire, NoMatch, HeaderOk, HeaderBad, Timeout, Shapes, env
  <1> QED
    BY <1>1, <1>3, <1>4, <1>5, <1>7, <1>8, <1>9, <1>10, Zenon DEF Next, Handshake, PlaceOnly

\* A step of one handshake leaves the others where they are.
LEMMA OthersKeep ==
  ASSUME Shapes, NEW c \in Conns, NEW d \in Conns, c # d, Handshake(d) \/ JobEnds(d) \/ Timeout(d)
  PROVE  pc'[c] = pc[c] /\ conn'[c] = conn[c]
  <1>1. ASSUME NEW to, pc' = [pc EXCEPT ![d] = to] PROVE pc'[c] = pc[c]
    BY <1>1 DEF Shapes
  <1>2. ASSUME NEW id, LoadUsers(d, id) PROVE pc'[c] = pc[c] /\ conn'[c] = conn[c]
    BY <1>1, <1>2 DEF LoadUsers, Move, Shapes, Reads
  <1>3. CASE SnapshotActive(d)
    BY <1>1, <1>3 DEF SnapshotActive, Move, Shapes, Reads
  <1>4. CASE JobEnds(d)
    BY <1>1, <1>4 DEF JobEnds, Shapes
  <1>5. CASE PlaceOnly(d)
    BY <1>1, <1>5 DEF PlaceOnly, Acquire, NoMatch, HeaderOk, HeaderBad, Timeout, Move
  <1>6. CASE Replay(d) \/ Accept(d) \/ Remember(d)
    BY <1>1, <1>6 DEF Replay, Accept, Remember, Move
  <1> QED
    BY <1>2, <1>3, <1>4, <1>5, <1>6, Zenon DEF Handshake, PlaceOnly

LEMMA AttributedStep ==
  ASSUME AuthInv, Next, NEW c \in Conns
  PROVE  Attributed(c)'
  <1>S. Shapes /\ Attributed(c) /\ DOMAIN pc = Conns
    BY DEF AuthInv, Shapes
  <1>1. CASE pc'[c] = pc[c] /\ conn'[c] = conn[c]
    BY <1>1, <1>S DEF Attributed
  <1>2. CASE Tick \/ StoreUsers \/ ClearActive
    BY <1>1, <1>2 DEF Tick, StoreUsers, ClearActive
  <1>3. ASSUME NEW id, LoadUsers(c, id) PROVE Attributed(c)'
    <2>1. pc[c] = "new" /\ pc'[c] = "loaded" /\ conn'[c].found = conn[c].found
      BY <1>3, <1>S DEF LoadUsers, Move, Shapes, Reads
    <2> QED
      BY <2>1, <1>S DEF Attributed
  <1>4. CASE SnapshotActive(c)
    <2>1. /\ pc'[c] = "permit" /\ conn'[c].found = conn[c].found
          /\ conn'[c].table = conn[c].table /\ conn'[c].id = conn[c].id
      BY <1>4, <1>S DEF SnapshotActive, Move, Shapes, Reads
    <2> QED
      BY <2>1, <1>S DEF Attributed
  <1>5. CASE JobEnds(c)
    <2> DEFINE m == MatchUser(conn[c].table, conn[c].active, conn[c].id)
    <2>1. m # None => m \in DOMAIN conn[c].table /\ conn[c].table[m] = conn[c].id.user
      <3>1. conn[c].table \in Tables \union {<<>>} /\ conn[c].active \in Seq(Nat)
        BY <1>S DEF Shapes, Reads
      <3> QED
        BY <3>1, MatchIsRight, Zenon
    <2>2. CASE pc[c] = "match"
      <3>1. conn' = [conn EXCEPT ![c].found = m] /\ pc'[c] = "join"
        BY <1>5, <2>2, <1>S DEF JobEnds
      <3> HIDE DEF m
      <3>2. conn'[c].found = m /\ conn'[c].table = conn[c].table /\ conn'[c].id = conn[c].id
        BY <3>1, <1>S DEF Shapes, Reads
      <3> QED
        BY <2>1, <3>1, <3>2 DEF Attributed
    <2> QED
      BY <1>1, <1>5, <2>2 DEF JobEnds
  <1>6. CASE PlaceOnly(c) \/ Replay(c) \/ Remember(c)
    <2>1. conn' = conn /\ pc'[c] \in {"match", "failed", "header", "ok"}
      BY <1>6, <1>S DEF PlaceOnly, Acquire, NoMatch, HeaderOk, HeaderBad, Timeout, Replay, Remember, Move
    <2> QED
      BY <2>1, <1>S DEF Attributed
  <1>7. CASE Accept(c)
    <2>1. conn' = conn /\ pc'[c] = "accepted" /\ conn[c].found # None
      BY <1>7, <1>S DEF Accept, Move
    <2> QED
      BY <2>1, <1>S DEF Attributed
  <1>8. ASSUME NEW d \in Conns, d # c, Handshake(d) \/ JobEnds(d) \/ Timeout(d) PROVE Attributed(c)'
    BY <1>1, <1>8, <1>S, OthersKeep
  <1>9. CASE Handshake(c) \/ JobEnds(c) \/ Timeout(c)
    BY <1>3, <1>4, <1>5, <1>6, <1>7, <1>9, Zenon DEF Handshake, PlaceOnly
  <1> QED
    BY <1>2, <1>8, <1>9, Zenon DEF Next

\* The filter remembers what was accepted, and accepts nothing it remembers.
LEMMA RememberedStep ==
  ASSUME AuthInv, Next
  PROVE  (\A x \in accepted' : Remembered(x)') /\ OnceWithinWindow'
  <1>S. Shapes /\ OnceWithinWindow /\ Window \in Nat /\ now \in Nat
    BY VmessConstants DEF AuthInv, Shapes
  <1>A. ASSUME NEW x \in accepted
        PROVE  x.at \in Nat /\ Remembered(x)
    BY <1>S DEF AuthInv, Shapes
  <1>1. ASSUME UNCHANGED <<order, accepted>>, now' \in Nat, now <= now'
        PROVE  (\A x \in accepted' : Remembered(x)') /\ OnceWithinWindow'
    <2>1. \A a, w \in Nat : a <= now => a <= now' /\ (a + w > now' => a + w > now)
      BY <1>1, <1>S
    <2>2. ASSUME NEW x \in accepted PROVE Remembered(x)'
      BY <2>1, <1>1, <1>A, <1>S, Zenon DEF Remembered
    <2> QED
      BY <2>2, <1>1, <1>S, Zenon DEF OnceWithinWindow
  <1>2. ASSUME NEW x \in accepted, x.at + Window > now
        PROVE  \E i \in DOMAIN Prune(order) :
                  Prune(order)[i].id = x.id /\ Prune(order)[i].expires = x.at + Window
    <2>1. PICK i \in DOMAIN order : order[i].id = x.id /\ order[i].expires = x.at + Window
      BY <1>2, <1>A DEF Remembered
    <2>2. PICK j \in DOMAIN Prune(order) : Prune(order)[j] = order[i]
      BY <2>1, <1>2, <1>S, PruneKeeps, Zenon DEF Shapes
    <2> QED
      BY <2>1, <2>2
  <1>3. ASSUME NEW c \in Conns, Replay(c)
        PROVE  (\A x \in accepted' : Remembered(x)') /\ OnceWithinWindow'
    <2>1. order' = Prune(order) /\ accepted' = accepted /\ now' = now
      BY <1>3 DEF Replay, env
    <2>2. ASSUME NEW x \in accepted PROVE Remembered(x)'
      BY <2>1, <1>2, <1>A, Zenon DEF Remembered
    <2> QED
      BY <2>1, <2>2, <1>S, Zenon DEF OnceWithinWindow
  <1>4. ASSUME NEW c \in Conns, Accept(c)
        PROVE  (\A x \in accepted' : Remembered(x)') /\ OnceWithinWindow'
    <2> DEFINE e == [id |-> conn[c].id, expires |-> now + Window]
               y == [id |-> conn[c].id, at |-> now, conn |-> c]
    <2>1. order' = Append(Prune(order), e) /\ accepted' = accepted \union {y} /\ now' = now
      BY <1>4 DEF Accept, env
    <2>2. \A i \in DOMAIN Prune(order) : Prune(order)[i].id # conn[c].id
      BY <1>4 DEF Accept, Refused
    <2>3. Prune(order) \in Seq(Entries)
      BY <1>S, PruneKeeps, Zenon DEF Shapes
    <2>4. /\ \A i \in DOMAIN Prune(order) : i \in DOMAIN order' /\ order'[i] = Prune(order)[i]
          /\ \E i \in DOMAIN order' : order'[i] = e
      <3>1. DOMAIN Prune(order) = 1..Len(Prune(order)) /\ Len(Prune(order)) \in Nat
        BY <2>3
      <3>2. DOMAIN order' = 1..(Len(Prune(order)) + 1) /\ order'[Len(Prune(order)) + 1] = e
            /\ \A i \in 1..Len(Prune(order)) : order'[i] = Prune(order)[i]
        BY <2>1, <2>3
      <3>3. \A n \in Nat : n + 1 \in 1..(n + 1) /\ \A i \in 1..n : i \in 1..(n + 1)
        OBVIOUS
      <3> QED
        BY <3>1, <3>2, <3>3, Zenon
    <2>5. ASSUME NEW x \in accepted PROVE Remembered(x)'
      BY <2>1, <2>4, <1>2, <1>A, Zenon DEF Remembered
    <2>6. ASSUME NEW x, x = y PROVE Remembered(x)'
      <3>1. now <= now
        BY <1>S
      <3>2. x.id = e.id /\ x.at = now /\ e.expires = now + Window
        BY <2>6
      <3> QED
        BY <2>1, <2>4, <3>1, <3>2, Zenon DEF Remembered
    <2>7. ASSUME NEW x \in accepted, x.id = y.id PROVE x.at + Window <= y.at
      <3>1. ~(x.at + Window > now)
        BY <1>2, <2>2, <2>7
      <3> QED
        BY <3>1, <1>A, <1>S
    <2>8. OnceWithinWindow'
      BY <2>1, <2>7, <1>S, Zenon DEF OnceWithinWindow
    <2> QED
      BY <2>1, <2>5, <2>6, <2>8, Zenon
  <1>5. CASE Tick
    <2>1. now' \in Nat /\ now <= now' /\ UNCHANGED <<order, accepted>>
      BY <1>5, <1>S DEF Tick
    <2> QED
      BY <1>1, <2>1
  <1>6. CASE UNCHANGED <<now, order, accepted>>
    <2>1. now' \in Nat /\ now <= now'
      BY <1>6, <1>S
    <2> QED
      BY <1>1, <1>6, <2>1
  <1>7. CASE StoreUsers \/ ClearActive
    BY <1>6, <1>7 DEF StoreUsers, ClearActive
  <1>8. ASSUME NEW c \in Conns, NEW id, LoadUsers(c, id)
        PROVE  UNCHANGED <<now, order, accepted>>
    BY <1>8 DEF LoadUsers, env
  <1>9. ASSUME NEW c \in Conns, SnapshotActive(c) \/ JobEnds(c) \/ Remember(c) \/ PlaceOnly(c)
        PROVE  UNCHANGED <<now, order, accepted>>
    BY <1>9 DEF SnapshotActive, JobEnds, Remember, PlaceOnly, Acquire, NoMatch, HeaderOk,
                HeaderBad, Timeout, env
  <1> QED
    BY <1>3, <1>4, <1>5, <1>6, <1>7, <1>8, <1>9, Zenon DEF Next, Handshake, PlaceOnly

\* A permit is with the limiter or with one running job.
LEMMA ConservedStep ==
  ASSUME AuthInv, Next
  PROVE  Conserved'
  <1>S. Shapes /\ Conserved /\ DOMAIN pc = Conns /\ Permits \in Nat /\ Cardinality(jobs) \in Nat
    BY VmessConstants, FS_CardinalityType DEF AuthInv, Shapes, Conserved
  <1>1. ASSUME UNCHANGED <<free, jobs>>, \A c \in jobs : pc'[c] \in {"match", "failed"}
        PROVE  Conserved'
    BY <1>1, <1>S, Zenon DEF Conserved
  <1>2. CASE Tick \/ StoreUsers \/ ClearActive
    BY <1>1, <1>2, <1>S, Zenon DEF Tick, StoreUsers, ClearActive, Conserved
  <1>3. ASSUME NEW c \in Conns, NEW to, UNCHANGED <<free, jobs>>, pc' = [pc EXCEPT ![c] = to],
               to = "failed" \/ pc[c] \notin {"match", "failed"}
        PROVE  Conserved'
    <2>1. ASSUME NEW d \in jobs PROVE pc'[d] \in {"match", "failed"}
      <3>1. d \in Conns /\ pc[d] \in {"match", "failed"}
        BY <1>S DEF Conserved
      <3>2. pc'[d] = IF d = c THEN to ELSE pc[d]
        BY <3>1, <1>3, <1>S
      <3> QED
        BY <3>1, <3>2, <1>3
    <2> QED
      BY <2>1, <1>1, <1>3
  <1>4. ASSUME NEW c \in Conns, Acquire(c) PROVE Conserved'
    <2>1. free > 0 /\ pc[c] = "permit" /\ pc' = [pc EXCEPT ![c] = "match"]
          /\ free' = free - 1 /\ jobs' = jobs \union {c}
      BY <1>4 DEF Acquire, Move
    <2>2. c \notin jobs
      BY <2>1, <1>S DEF Conserved
    <2>3. IsFiniteSet(jobs') /\ Cardinality(jobs') = Cardinality(jobs) + 1
      BY <2>1, <2>2, <1>S, FS_AddElement DEF Conserved
    <2>4. free' \in Nat /\ free' + Cardinality(jobs') = Permits
      BY <2>1, <2>3, <1>S DEF Conserved
    <2>5. ASSUME NEW d \in jobs' PROVE d \in Conns /\ pc'[d] \in {"match", "failed"}
      <3>1. d \in Conns /\ (d = c \/ pc[d] \in {"match", "failed"})
        BY <2>1, <1>S DEF Conserved
      <3>2. pc'[d] = IF d = c THEN "match" ELSE pc[d]
        BY <2>1, <3>1, <1>S
      <3> QED
        BY <3>1, <3>2
    <2> QED
      BY <2>3, <2>4, <2>5 DEF Conserved
  <1>5. ASSUME NEW c \in Conns, JobEnds(c) PROVE Conserved'
    <2>1. c \in jobs /\ jobs' = jobs \ {c} /\ free' = free + 1
          /\ (pc' = [pc EXCEPT ![c] = "join"] \/ pc' = pc)
      BY <1>5, Zenon DEF JobEnds
    <2>2. IsFiniteSet(jobs') /\ Cardinality(jobs') = Cardinality(jobs) - 1
      BY <2>1, <1>S, FS_RemoveElement DEF Conserved
    <2>3. free' \in Nat /\ free' + Cardinality(jobs') = Permits
      BY <2>1, <2>2, <1>S DEF Conserved
    <2>4. ASSUME NEW d \in jobs' PROVE d \in Conns /\ pc'[d] \in {"match", "failed"}
      <3>1. d # c /\ d \in Conns /\ pc[d] \in {"match", "failed"}
        BY <2>1, <1>S DEF Conserved
      <3>2. pc'[d] = pc[d]
        BY <2>1, <3>1, <1>S
      <3> QED
        BY <3>1, <3>2
    <2> QED
      BY <2>2, <2>3, <2>4 DEF Conserved
  <1>6. ASSUME NEW c \in Conns, NEW id, LoadUsers(c, id) PROVE Conserved'
    BY <1>3, <1>6 DEF LoadUsers, Move
  <1>7. ASSUME NEW c \in Conns, SnapshotActive(c) \/ Replay(c) \/ Accept(c) \/ Remember(c)
        PROVE  Conserved'
    BY <1>3, <1>7 DEF SnapshotActive, Replay, Accept, Remember, Move
  <1>8. ASSUME NEW c \in Conns, NoMatch(c) \/ HeaderOk(c) \/ HeaderBad(c) \/ Timeout(c)
        PROVE  Conserved'
    BY <1>3, <1>8 DEF NoMatch, HeaderOk, HeaderBad, Timeout, Move
  <1> QED
    BY <1>2, <1>4, <1>5, <1>6, <1>7, <1>8, Zenon DEF Next, Handshake

LEMMA InvInit == Init => AuthInv
  <1> SUFFICES ASSUME Init PROVE AuthInv
    OBVIOUS
  <1>1. Shapes
    <2>1. Fresh \in Reads /\ "new" \in Places
      BY DEF Fresh, Reads, Ids, Places
    <2>2. 0 \in Nat /\ <<>> \in Seq(Nat) /\ <<>> \in Seq(Entries)
      OBVIOUS
    <2> QED
      BY <2>1, <2>2, Zenon DEF Init, Shapes
  <1>2. Conserved
    BY FS_EmptySet, VmessConstants DEF Init, Conserved
  <1>3. ASSUME NEW c \in Conns PROVE Attributed(c)
    BY DEF Init, Attributed, Fresh
  <1> QED
    BY <1>1, <1>2, <1>3 DEF Init, AuthInv, OnceWithinWindow

LEMMA AuthAlways == Spec => []AuthInv
  <1>1. AuthInv /\ [Next]_vars => AuthInv'
    <2> SUFFICES ASSUME AuthInv, [Next]_vars PROVE AuthInv'
      OBVIOUS
    <2>1. CASE Next
      BY <2>1, ShapesStep, AttributedStep, RememberedStep, ConservedStep, Zenon DEF AuthInv
    <2>2. CASE UNCHANGED vars
      BY <2>2 DEF vars, AuthInv, Shapes, Conserved, Attributed, Remembered, OnceWithinWindow
    <2> QED
      BY <2>1, <2>2
  <1> QED
    BY <1>1, InvInit, PTL DEF Spec

-----------------------------------------------------------------------------
(* The theorems.                                                           *)

\* read_header attributes a connection to the user that made its authID,
\* however stale the remembered indexes are and however often the table was
\* swapped under it.
THEOREM AttributedRight == Spec => []RightUser
  <1>1. AuthInv => RightUser
    BY Zenon DEF AuthInv, Attributed, RightUser
  <1> QED
    BY <1>1, AuthAlways, PTL

\* ReplayFilter::check_insert admits an authID once per window, whatever the
\* bound on its entries and however many handshakes present it together.
THEOREM AcceptedOnce == Spec => []OnceWithinWindow
  <1>1. AuthInv => OnceWithinWindow
    BY DEF AuthInv
  <1> QED
    BY <1>1, AuthAlways, PTL

\* The permits of auth_limiter are those it holds plus one for each blocking
\* job that still runs, awaited or not: none is lost, none is returned twice.
THEOREM PermitsConserved == Spec => [](free + Cardinality(jobs) = Permits)
  <1>1. AuthInv => free + Cardinality(jobs) = Permits
    BY DEF AuthInv, Conserved
  <1> QED
    BY <1>1, AuthAlways, PTL
=============================================================================
