----------------------------- MODULE VmessAuth ------------------------------
(***************************************************************************)
(* Authentication of VMess connections (proxy::vmess::read_header): the    *)
(* swapped user table, the list of recently active user indexes that is    *)
(* tried first, the limiter of concurrent trial decryptions with its       *)
(* detached blocking job, the filter of seen authIDs, and the handshake    *)
(* timeout that may drop the future at any await.                          *)
(*                                                                         *)
(* An authID is the user that made it, a timestamp and a serial number;    *)
(* trial decryption succeeds for that user only.                           *)
(***************************************************************************)
EXTENDS Integers, Sequences, FiniteSets, SequencesExt

CONSTANTS
    Conns,      \* connections
    Tables,     \* user tables: sequences of users
    AuthIds,    \* the authIDs clients send: [user, ts, n]
    Permits,    \* permits of the limiter
    ActiveMax,  \* VMESS_ACTIVE_AUTH_MAX
    SeenMax,    \* VMESS_AUTH_REPLAY_MAX
    Window,     \* 120 seconds, of the timestamp check and of the filter
    MaxNow,     \* bound on the clock
    MaxSwaps,   \* bound on user syncs
    None

ASSUME VmessConstants ==
    /\ Permits \in Nat \ {0} /\ ActiveMax \in Nat /\ SeenMax \in Nat
    /\ Window \in Nat /\ MaxNow \in Nat /\ MaxSwaps \in Nat
    /\ \A t \in Tables : t \in Seq(Range(t))

VARIABLES
    now,       \* seconds
    users,     \* the current table
    active,    \* indexes, most recent first
    swapping,  \* set_users has stored the table and not yet cleared `active`
    swaps,     \* user syncs so far
    order,     \* the replay filter: [id, expires], oldest first
    free,      \* permits not taken
    pc,        \* connection -> where read_header is, or "ok" or "failed"
    conn,      \* connection -> [id, table, active, found] as read so far
    jobs,      \* blocking jobs running, each holding a permit
    accepted   \* history: [id, at] for every accepted authID

vars == <<now, users, active, swapping, swaps, order, free, pc, conn, jobs, accepted>>
env == <<now, users, swapping, swaps>>

Seen == {order[i].id : i \in DOMAIN order}
Fresh == [id |-> None, table |-> <<>>, active |-> <<>>, found |-> None]

Init ==
    /\ now = 0 /\ users \in Tables /\ active = <<>> /\ swapping = FALSE /\ swaps = 0
    /\ order = <<>> /\ free = Permits /\ pc = [c \in Conns |-> "new"]
    /\ conn = [c \in Conns |-> Fresh] /\ jobs = {} /\ accepted = {}

-----------------------------------------------------------------------------
(* The clock and the user sync.                                            *)

Tick == /\ now < MaxNow /\ now' = now + 1
        /\ UNCHANGED <<users, active, swapping, swaps, order, free, pc, conn, jobs, accepted>>

\* set_users stores the table ...
StoreUsers ==
    /\ ~swapping /\ swaps < MaxSwaps
    /\ \E t \in Tables : users' = t
    /\ swapping' = TRUE /\ swaps' = swaps + 1
    /\ UNCHANGED <<now, active, order, free, pc, conn, jobs, accepted>>

\* ... and then clears the active list under its lock.
ClearActive ==
    /\ swapping /\ swapping' = FALSE /\ active' = <<>>
    /\ UNCHANGED <<now, users, swaps, order, free, pc, conn, jobs, accepted>>

-----------------------------------------------------------------------------
(* read_header.                                                            *)

Move(c, from, to) == pc[c] = from /\ pc' = [pc EXCEPT ![c] = to]

\* The authID has arrived: load the table.
LoadUsers(c, id) ==
    /\ Move(c, "new", "loaded")
    /\ conn' = [conn EXCEPT ![c].id = id, ![c].table = users]
    /\ UNCHANGED <<env, active, order, free, jobs, accepted>>

\* Copy the active list: another moment than the load.
SnapshotActive(c) ==
    /\ Move(c, "loaded", "permit")
    /\ conn' = [conn EXCEPT ![c].active = active]
    /\ UNCHANGED <<env, active, order, free, jobs, accepted>>

\* A permit is moved into the blocking job.
Acquire(c) ==
    /\ free > 0 /\ Move(c, "permit", "match")
    /\ free' = free - 1 /\ jobs' = jobs \union {c}
    /\ UNCHANGED <<env, active, order, conn, accepted>>

\* match_one on entry i of a table.
MatchOne(table, i, id) == table[i] = id.user /\ now - id.ts <= Window /\ id.ts - now <= Window

\* Mutant: a remembered index is taken at its word.
TrustActive(table, hints, id) ==
    IF hints # <<>> THEN hints[1]
    ELSE LET all == {i \in DOMAIN table : MatchOne(table, i, id)}
         IN  IF all = {} THEN None ELSE CHOOSE i \in all : \A j \in all : i <= j

\* match_user: the remembered indexes that the table has, in order, then all.
MatchUser(table, hints, id) ==
    LET hit == {k \in DOMAIN hints : hints[k] \in DOMAIN table /\ MatchOne(table, hints[k], id)}
        all == {i \in DOMAIN table : MatchOne(table, i, id)}
    IN  IF hit # {} THEN hints[CHOOSE k \in hit : \A j \in hit : k <= j]
        ELSE IF all # {} THEN CHOOSE i \in all : \A j \in all : i <= j
        ELSE None

\* Mutant: a job nobody awaits keeps its permit.
JobEndsAwaited(c) ==
    /\ c \in jobs /\ pc[c] = "match" /\ jobs' = jobs \ {c} /\ free' = free + 1
    /\ pc' = [pc EXCEPT ![c] = "join"]
    /\ conn' = [conn EXCEPT ![c].found = MatchUser(conn[c].table, conn[c].active, conn[c].id)]
    /\ UNCHANGED <<env, active, order, accepted>>

\* The blocking job runs to its end even when nobody awaits it any more; the
\* permit goes with it.
JobEnds(c) ==
    /\ c \in jobs /\ jobs' = jobs \ {c} /\ free' = free + 1
    /\ IF pc[c] = "match"
       THEN /\ pc' = [pc EXCEPT ![c] = "join"]
            /\ conn' = [conn EXCEPT ![c].found = MatchUser(conn[c].table, conn[c].active, conn[c].id)]
       ELSE UNCHANGED <<pc, conn>>
    /\ UNCHANGED <<env, active, order, accepted>>

NoMatch(c) ==
    /\ conn[c].found = None /\ Move(c, "join", "failed")
    /\ UNCHANGED <<env, active, order, free, conn, jobs, accepted>>

\* Mutant: entries expire one second early.
PruneEarly(o) == SelectSeq(o, LAMBDA e : e.expires > now + 1)

\* ReplayFilter::prune drops expired entries from the front.
Prune(o) ==
    LET live == {i \in DOMAIN o : o[i].expires > now} IN
    IF live = {} THEN <<>> ELSE SubSeq(o, CHOOSE i \in live : \A j \in live : i <= j, Len(o))

Refused(o, id) == (\E i \in DOMAIN o : o[i].id = id) \/ Len(o) >= SeenMax

\* check_insert refuses a seen authID, and any authID when the filter is full.
Replay(c) ==
    /\ conn[c].found # None /\ Refused(Prune(order), conn[c].id)
    /\ Move(c, "join", "failed") /\ order' = Prune(order)
    /\ UNCHANGED <<env, active, free, conn, jobs, accepted>>

Accept(c) ==
    /\ conn[c].found # None /\ ~Refused(Prune(order), conn[c].id)
    /\ Move(c, "join", "accepted")
    /\ order' = Append(Prune(order), [id |-> conn[c].id, expires |-> now + Window])
    /\ accepted' = accepted \union {[id |-> conn[c].id, at |-> now, conn |-> c]}
    /\ UNCHANGED <<env, active, free, conn, jobs>>

\* remember_active_user: move to the front, drop the oldest above the bound.
Remember(c) ==
    /\ Move(c, "accepted", "header")
    /\ LET new == <<conn[c].found>> \o RemoveFirst(active, conn[c].found)
       IN  active' = SubSeq(new, 1, IF Len(new) > ActiveMax THEN ActiveMax ELSE Len(new))
    /\ UNCHANGED <<env, order, free, conn, jobs, accepted>>

\* The rest of the header opens under the found user's key, or is broken.
HeaderOk(c) ==
    /\ Move(c, "header", "ok")
    /\ UNCHANGED <<env, active, order, free, conn, jobs, accepted>>
HeaderBad(c) ==
    /\ Move(c, "header", "failed")
    /\ UNCHANGED <<env, active, order, free, conn, jobs, accepted>>

\* The handshake timeout drops the future at an await.
Timeout(c) ==
    /\ pc[c] \in {"new", "permit", "match", "join", "header"}
    /\ pc' = [pc EXCEPT ![c] = "failed"]
    /\ UNCHANGED <<env, active, order, free, conn, jobs, accepted>>

Handshake(c) ==
    \/ \E id \in AuthIds : LoadUsers(c, id)
    \/ SnapshotActive(c) \/ Acquire(c) \/ NoMatch(c) \/ Replay(c) \/ Accept(c)
    \/ Remember(c) \/ HeaderOk(c) \/ HeaderBad(c)

Next ==
    \/ Tick \/ StoreUsers \/ ClearActive
    \/ \E c \in Conns : Handshake(c) \/ JobEnds(c) \/ Timeout(c)

Spec == Init /\ [][Next]_vars

\* Blocking jobs end, a future that is not at an await goes on, and the
\* timeout fires; clients may send nothing at all.
FairSpec ==
    /\ Spec
    /\ \A c \in Conns : WF_vars(JobEnds(c)) /\ WF_vars(SnapshotActive(c) \/ Remember(c)) /\ WF_vars(Timeout(c))

-----------------------------------------------------------------------------
(* Properties.                                                             *)

\* The types: the active list is bounded and free of duplicates, permits are
\* conserved between the limiter and the running jobs, and the filter never
\* outgrows its bound nor holds an authID twice.
TypeOK ==
    /\ now \in 0..MaxNow /\ users \in Tables /\ Len(active) <= ActiveMax /\ IsInjective(active)
    /\ free + Cardinality(jobs) = Permits /\ jobs \subseteq Conns
    /\ Len(order) <= SeenMax /\ Cardinality(Seen) = Len(order)

\* The list of active users is only a hint: whatever indexes it holds - of a
\* table swapped out since, or beyond the end of a shorter one - a connection
\* is attributed to the user that made its authID and to no other.
RightUser ==
    \A c \in Conns : conn[c].found # None =>
        conn[c].found \in DOMAIN conn[c].table /\ conn[c].table[conn[c].found] = conn[c].id.user

\* The filter remembers: an authID accepted once is refused until the window
\* has passed, however many connections present it at the same time.
OnceWithinWindow ==
    \A x, y \in accepted : x.id = y.id /\ x # y => x.at + Window <= y.at \/ y.at + Window <= x.at

\* Every permit comes back, also the ones of handshakes that timed out.
PermitsReturn == \A c \in Conns : c \in jobs ~> c \notin jobs

=============================================================================
