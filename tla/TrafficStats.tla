---------------------------- MODULE TrafficStats ----------------------------
(***************************************************************************)
(* Per-user traffic accounting: the lock-free counters of kernel::stats,   *)
(* the copy loops that add to them, and the reporting half of the panel    *)
(* controller (saas::controller, saas::sspanel) that drains, reports and   *)
(* restores them.                                                          *)
(*                                                                         *)
(* A byte count is modelled by the SET OF CHUNKS it counts: fetch_add is   *)
(* union, swap(0) empties the set.  Counting a chunk twice or dropping it  *)
(* is then visible as an overlap of two sets or as a chunk in none.        *)
(* Every atomic operation, mutex section and await point is a step of its  *)
(* own; the relaxed atomics are read as sequentially consistent.           *)
(***************************************************************************)
EXTENDS Naturals, FiniteSets

CONSTANTS
    Tags,          \* user tags, "{node tag}|{email}|{uid}"
    Ctrls,         \* controllers: one per panel node, sharing one Stats
    Copiers,       \* one direction of one live connection each
    CIds,          \* Counter objects (Arc<Counter>) that may be allocated
    Chunks,        \* pieces of relayed traffic
    NodeOf,        \* the controller whose node tag prefixes a user tag
    Removable,     \* tags the panel may remove from the node
    DisableUpload, \* controllers configured with disable_upload_traffic
    MaxLost,       \* bound on replies lost after the panel has booked a report
    NoCounter,     \* Option::None for a counter
    NoTag,         \* the tag of a counter object not yet allocated
    NoChunk        \* a copier that is not adding

ASSUME ConstantsOK ==
    /\ NodeOf \in [Tags -> Ctrls]
    /\ Removable \subseteq Tags
    /\ DisableUpload \subseteq Ctrls
    /\ MaxLost \in Nat
    /\ NoCounter \notin CIds
    /\ NoTag \notin Tags
    /\ NoChunk \notin Chunks

Dirs == {"up", "down"}
Cells == CIds \X Dirs

\* send_with_retry: two retries, then the final send.
Attempts == 3

VARIABLES
    \* Stats and its counters
    users,     \* tag -> registered counter, Stats.users
    active,    \* tags marked since the last drain, Stats.active
    tagOf,     \* Counter.tag (NoTag: not allocated)
    dirty,     \* Counter.dirty
    cnt,       \* Counter.up and Counter.down
    \* copy loops
    cpc,       \* where the copier is inside add_up / add_down
    cctr,      \* the counter resolved at connection setup
    cchunk,    \* the chunk being counted
    cdir,      \* its direction
    unsent,    \* chunks not relayed yet
    \* controllers
    kpc,       \* where the controller is in its periodic tick
    drained,   \* tags drained from active
    todo,      \* counters still to take in this cycle
    cur,       \* the counter being taken or restored
    back,      \* where restore returns to
    dtag,      \* the tag whose counter is being removed
    taken,     \* counts in the controller's hands
    tries,     \* transport attempts made for this report
    \* the panel, and the history of what it booked
    billed,    \* how often the panel booked a chunk
    dropped,   \* chunks discarded because uploading is disabled
    lost       \* replies lost after the panel booked the report

statsVars == <<users, active, tagOf, dirty, cnt>>
copyVars  == <<cpc, cctr, cchunk, cdir, unsent>>
ctrlVars  == <<kpc, drained, todo, cur, back, dtag, taken, tries>>
panelVars == <<billed, dropped, lost>>
vars == <<users, active, tagOf, dirty, cnt, cpc, cctr, cchunk, cdir, unsent,
          kpc, drained, todo, cur, back, dtag, taken, tries,
          billed, dropped, lost>>

Init ==
    /\ users = [t \in Tags |-> NoCounter]
    /\ active = {}
    /\ tagOf = [c \in CIds |-> NoTag]
    /\ dirty = [c \in CIds |-> 0]
    /\ cnt = [x \in Cells |-> {}]
    /\ cpc = [p \in Copiers |-> "idle"]
    /\ cctr = [p \in Copiers |-> NoCounter]
    /\ cchunk = [p \in Copiers |-> NoChunk]
    /\ cdir = [p \in Copiers |-> "up"]
    /\ unsent = Chunks
    /\ kpc = [k \in Ctrls |-> "idle"]
    /\ drained = [k \in Ctrls |-> {}]
    /\ todo = [k \in Ctrls |-> {}]
    /\ cur = [k \in Ctrls |-> NoCounter]
    /\ back = [k \in Ctrls |-> "next"]
    /\ dtag = [k \in Ctrls |-> NoTag]
    /\ taken = [k \in Ctrls |-> [x \in Cells |-> {}]]
    /\ tries = [k \in Ctrls |-> 0]
    /\ billed = [ch \in Chunks |-> 0]
    /\ dropped = {}
    /\ lost = 0

-----------------------------------------------------------------------------
(* Connections and their copy loops.                                       *)

\* user_counter -> Stats::counter: get or create under the write lock.
Resolve(p, t) ==
    /\ cpc[p] = "idle" /\ cctr[p] = NoCounter
    /\ \/ /\ users[t] # NoCounter
          /\ cctr' = [cctr EXCEPT ![p] = users[t]]
          /\ UNCHANGED <<users, tagOf>>
       \/ /\ users[t] = NoCounter
          /\ \E c \in CIds :
                /\ tagOf[c] = NoTag
                /\ tagOf' = [tagOf EXCEPT ![c] = t]
                /\ users' = [users EXCEPT ![t] = c]
                /\ cctr' = [cctr EXCEPT ![p] = c]
    /\ UNCHANGED <<active, dirty, cnt, cpc, cchunk, cdir, unsent, ctrlVars, panelVars>>

\* add_up / add_down, first half: mark_active's compare_exchange on dirty.
AddMark(p, ch, d) ==
    /\ cpc[p] = "idle" /\ cctr[p] # NoCounter
    /\ ch \in unsent
    /\ unsent' = unsent \ {ch}
    /\ cchunk' = [cchunk EXCEPT ![p] = ch]
    /\ cdir' = [cdir EXCEPT ![p] = d]
    /\ cpc' = [cpc EXCEPT ![p] = IF dirty[cctr[p]] = 0 THEN "insert" ELSE "add"]
    /\ dirty' = [dirty EXCEPT ![cctr[p]] = 1]
    /\ UNCHANGED <<users, active, tagOf, cnt, cctr, ctrlVars, panelVars>>

\* mark_active after a successful exchange: list the tag, under the mutex.
AddInsert(p) ==
    /\ cpc[p] = "insert"
    /\ active' = active \union {tagOf[cctr[p]]}
    /\ cpc' = [cpc EXCEPT ![p] = "add"]
    /\ UNCHANGED <<users, tagOf, dirty, cnt, cctr, cchunk, cdir, unsent, ctrlVars, panelVars>>

\* add_up / add_down, second half: fetch_add.
AddCount(p) ==
    /\ cpc[p] = "add"
    /\ cnt' = [cnt EXCEPT ![<<cctr[p], cdir[p]>>] = @ \union {cchunk[p]}]
    /\ cpc' = [cpc EXCEPT ![p] = "idle"]
    /\ cchunk' = [cchunk EXCEPT ![p] = NoChunk]
    /\ UNCHANGED <<users, active, tagOf, dirty, cctr, cdir, unsent, ctrlVars, panelVars>>

\* The connection closes and drops its Arc<Counter>.
Hangup(p) ==
    /\ cpc[p] = "idle" /\ cctr[p] # NoCounter
    /\ cctr' = [cctr EXCEPT ![p] = NoCounter]
    /\ UNCHANGED <<statsVars, cpc, cchunk, cdir, unsent, ctrlVars, panelVars>>

-----------------------------------------------------------------------------
(* The controller tick: node_info_monitor prunes the counters of removed   *)
(* users, then user_info_monitor drains, takes and reports.                *)

\* Stats::remove, first half: forget the counter under the write lock.
RemoveUser(k, t) ==
    /\ kpc[k] = "idle"
    /\ t \in Removable /\ NodeOf[t] = k
    /\ users' = [users EXCEPT ![t] = NoCounter]
    /\ dtag' = [dtag EXCEPT ![k] = t]
    /\ kpc' = [kpc EXCEPT ![k] = "delist"]
    /\ UNCHANGED <<active, tagOf, dirty, cnt, copyVars,
                   drained, todo, cur, back, taken, tries, panelVars>>

\* Stats::remove, second half: take the tag off the active set.
Delist(k) ==
    /\ kpc[k] = "delist"
    /\ active' = active \ {dtag[k]}
    /\ dtag' = [dtag EXCEPT ![k] = NoTag]
    /\ kpc' = [kpc EXCEPT ![k] = "idle"]
    /\ UNCHANGED <<users, tagOf, dirty, cnt, copyVars,
                   drained, todo, cur, back, taken, tries, panelVars>>

\* active_counters, first half: drain the active set under the mutex.
Drain(k) ==
    /\ kpc[k] = "idle"
    /\ drained' = [drained EXCEPT ![k] = active]
    /\ active' = {}
    /\ kpc' = [kpc EXCEPT ![k] = "lookup"]
    /\ UNCHANGED <<users, tagOf, dirty, cnt, copyVars,
                   todo, cur, back, dtag, taken, tries, panelVars>>

\* active_counters, second half: keep the tags that are still registered.
Lookup(k) ==
    /\ kpc[k] = "lookup"
    /\ todo' = [todo EXCEPT ![k] = {users[t] : t \in drained[k]} \ {NoCounter}]
    /\ drained' = [drained EXCEPT ![k] = {}]
    /\ kpc' = [kpc EXCEPT ![k] = "next"]
    /\ UNCHANGED <<statsVars, copyVars, cur, back, dtag, taken, tries, panelVars>>

\* Mutant: take leaves the dirty flag set.
TakeKeepsDirty(k, c) ==
    /\ kpc[k] = "next" /\ c \in todo[k]
    /\ todo' = [todo EXCEPT ![k] = @ \ {c}]
    /\ cur' = [cur EXCEPT ![k] = c]
    /\ kpc' = [kpc EXCEPT ![k] = "takeUp"]
    /\ UNCHANGED <<users, active, tagOf, dirty, cnt, copyVars,
                   drained, back, dtag, taken, tries, panelVars>>

\* Counter::take on the next drained counter: dirty.store(0).
TakeDirty(k, c) ==
    /\ kpc[k] = "next" /\ c \in todo[k]
    /\ todo' = [todo EXCEPT ![k] = @ \ {c}]
    /\ cur' = [cur EXCEPT ![k] = c]
    /\ dirty' = [dirty EXCEPT ![c] = 0]
    /\ kpc' = [kpc EXCEPT ![k] = "takeUp"]
    /\ UNCHANGED <<users, active, tagOf, cnt, copyVars,
                   drained, back, dtag, taken, tries, panelVars>>

\* Mutant: load instead of swap(0).
SwapNoReset(k, x) ==
    /\ cnt' = cnt
    /\ taken' = [taken EXCEPT ![k][x] = cnt[x]]

\* Move the count of cell x into the controller's hands: swap(0).
Swap(k, x) ==
    /\ cnt' = [cnt EXCEPT ![x] = {}]
    /\ taken' = [taken EXCEPT ![k][x] = cnt[x]]

\* Counter::take: up.swap(0).
TakeUp(k) ==
    /\ kpc[k] = "takeUp"
    /\ Swap(k, <<cur[k], "up">>)
    /\ kpc' = [kpc EXCEPT ![k] = "takeDown"]
    /\ UNCHANGED <<users, active, tagOf, dirty, copyVars,
                   drained, todo, cur, back, dtag, tries, panelVars>>

\* Counter::take: down.swap(0); then the report loop either skips an empty
\* counter, restores one of another node (parse_user_tag fails), or keeps it.
TakeDown(k) ==
    /\ kpc[k] = "takeDown"
    /\ Swap(k, <<cur[k], "down">>)
    /\ kpc' = [kpc EXCEPT ![k] =
                 IF \/ taken'[k][<<cur[k], "up">>] \union taken'[k][<<cur[k], "down">>] = {}
                    \/ NodeOf[tagOf[cur[k]]] = k
                 THEN "next" ELSE "restore"]
    /\ UNCHANGED <<users, active, tagOf, dirty, copyVars,
                   drained, todo, cur, back, dtag, tries, panelVars>>

InHand(k) == UNION {taken[k][x] : x \in Cells}
EmptyHands(k) == taken' = [taken EXCEPT ![k] = [x \in Cells |-> {}]]

\* Nothing to report: the tick ends.
NothingToReport(k) ==
    /\ kpc[k] = "next" /\ todo[k] = {} /\ InHand(k) = {}
    /\ kpc' = [kpc EXCEPT ![k] = "idle"]
    /\ UNCHANGED <<statsVars, copyVars, drained, todo, cur, back, dtag, taken, tries, panelVars>>

\* disable_upload_traffic: the counts are discarded.
Discard(k) ==
    /\ kpc[k] = "next" /\ todo[k] = {} /\ InHand(k) # {}
    /\ k \in DisableUpload
    /\ dropped' = dropped \union InHand(k)
    /\ EmptyHands(k)
    /\ kpc' = [kpc EXCEPT ![k] = "idle"]
    /\ UNCHANGED <<statsVars, copyVars, drained, todo, cur, back, dtag, tries, billed, lost>>

\* report_user_traffic: start the POST.
StartReport(k) ==
    /\ kpc[k] = "next" /\ todo[k] = {} /\ InHand(k) # {}
    /\ k \notin DisableUpload
    /\ kpc' = [kpc EXCEPT ![k] = "post"]
    /\ UNCHANGED <<statsVars, copyVars, drained, todo, cur, back, dtag, taken, tries, panelVars>>

\* The panel adds every reported count to its books.
Book(k) == billed' = [ch \in Chunks |-> IF ch \in InHand(k) THEN billed[ch] + 1 ELSE billed[ch]]

\* The panel may have booked a request whose reply never arrives intact.
BookUnseen(k) ==
    \/ UNCHANGED <<billed, lost>>
    \/ lost < MaxLost /\ lost' = lost + 1 /\ Book(k)

\* Mutant: a successful report is handled like a failed one.
PostOkRestores(k) ==
    /\ kpc[k] = "post"
    /\ Book(k)
    /\ tries' = [tries EXCEPT ![k] = 0]
    /\ kpc' = [kpc EXCEPT ![k] = "failed"]
    /\ UNCHANGED <<statsVars, copyVars, drained, todo, cur, back, dtag, taken, dropped, lost>>

\* send_with_retry + parse_response: the panel answers ret = 1.
PostOk(k) ==
    /\ kpc[k] = "post"
    /\ Book(k)
    /\ EmptyHands(k)
    /\ tries' = [tries EXCEPT ![k] = 0]
    /\ kpc' = [kpc EXCEPT ![k] = "idle"]
    /\ UNCHANGED <<statsVars, copyVars, drained, todo, cur, back, dtag, dropped, lost>>

\* send_with_retry: a transport error; retried until the last attempt.
PostTransportError(k) ==
    /\ kpc[k] = "post"
    /\ BookUnseen(k)
    /\ IF tries[k] + 1 = Attempts
       THEN kpc' = [kpc EXCEPT ![k] = "failed"] /\ tries' = [tries EXCEPT ![k] = 0]
       ELSE kpc' = kpc /\ tries' = [tries EXCEPT ![k] = @ + 1]
    /\ UNCHANGED <<statsVars, copyVars, drained, todo, cur, back, dtag, taken, dropped>>

\* parse_response: unreadable body, status > 400 or ret # 1; never retried.
PostRefused(k) ==
    /\ kpc[k] = "post"
    /\ BookUnseen(k)
    /\ tries' = [tries EXCEPT ![k] = 0]
    /\ kpc' = [kpc EXCEPT ![k] = "failed"]
    /\ UNCHANGED <<statsVars, copyVars, drained, todo, cur, back, dtag, taken, dropped>>

\* The report failed: restore the next taken counter, until none is left.
RestoreNext(k) ==
    /\ kpc[k] = "failed"
    /\ \/ \E x \in Cells :
            /\ taken[k][x] # {}
            /\ cur' = [cur EXCEPT ![k] = x[1]]
            /\ back' = [back EXCEPT ![k] = "failed"]
            /\ kpc' = [kpc EXCEPT ![k] = "restore"]
       \/ /\ InHand(k) = {}
          /\ kpc' = [kpc EXCEPT ![k] = "idle"]
          /\ UNCHANGED <<cur, back>>
    /\ UNCHANGED <<statsVars, copyVars, drained, todo, dtag, taken, tries, panelVars>>

\* Counter::restore: mark_active's compare_exchange.
RestoreMark(k) ==
    /\ kpc[k] = "restore"
    /\ kpc' = [kpc EXCEPT ![k] = IF dirty[cur[k]] = 0 THEN "rInsert" ELSE "rUp"]
    /\ dirty' = [dirty EXCEPT ![cur[k]] = 1]
    /\ UNCHANGED <<users, active, tagOf, cnt, copyVars,
                   drained, todo, cur, back, dtag, taken, tries, panelVars>>

\* Counter::restore: mark_active lists the tag.
RestoreInsert(k) ==
    /\ kpc[k] = "rInsert"
    /\ active' = active \union {tagOf[cur[k]]}
    /\ kpc' = [kpc EXCEPT ![k] = "rUp"]
    /\ UNCHANGED <<users, tagOf, dirty, cnt, copyVars,
                   drained, todo, cur, back, dtag, taken, tries, panelVars>>

\* Mutant: store instead of fetch_add.
GiveBackStore(k, x) ==
    /\ cnt' = [cnt EXCEPT ![x] = taken[k][x]]
    /\ taken' = [taken EXCEPT ![k][x] = {}]

\* Give a taken count back to its cell: fetch_add.
GiveBack(k, x) ==
    /\ cnt' = [cnt EXCEPT ![x] = @ \union taken[k][x]]
    /\ taken' = [taken EXCEPT ![k][x] = {}]

\* Counter::restore: up.fetch_add.
RestoreUp(k) ==
    /\ kpc[k] = "rUp"
    /\ GiveBack(k, <<cur[k], "up">>)
    /\ kpc' = [kpc EXCEPT ![k] = "rDown"]
    /\ UNCHANGED <<users, active, tagOf, dirty, copyVars,
                   drained, todo, cur, back, dtag, tries, panelVars>>

\* Counter::restore: down.fetch_add.
RestoreDown(k) ==
    /\ kpc[k] = "rDown"
    /\ GiveBack(k, <<cur[k], "down">>)
    /\ kpc' = [kpc EXCEPT ![k] = back[k]]
    /\ back' = [back EXCEPT ![k] = "next"]
    /\ cur' = [cur EXCEPT ![k] = NoCounter]
    /\ UNCHANGED <<users, active, tagOf, dirty, copyVars,
                   drained, todo, dtag, tries, panelVars>>

-----------------------------------------------------------------------------
AddStep(p) == AddInsert(p) \/ AddCount(p)

CopierStep(p) ==
    \/ \E t \in Tags : Resolve(p, t)
    \/ \E ch \in Chunks, d \in Dirs : AddMark(p, ch, d)
    \/ AddStep(p)
    \/ Hangup(p)

ReportStep(k) ==
    \/ Drain(k) \/ Lookup(k)
    \/ (\E c \in CIds : TakeDirty(k, c)) \/ TakeUp(k) \/ TakeDown(k)
    \/ NothingToReport(k) \/ Discard(k) \/ StartReport(k)
    \/ PostOk(k) \/ PostTransportError(k) \/ PostRefused(k)
    \/ RestoreNext(k) \/ RestoreMark(k) \/ RestoreInsert(k)
    \/ RestoreUp(k) \/ RestoreDown(k)

PruneStep(k) == (\E t \in Tags : RemoveUser(k, t)) \/ Delist(k)

Next ==
    \/ \E p \in Copiers : CopierStep(p)
    \/ \E k \in Ctrls : ReportStep(k) \/ PruneStep(k)

Spec == Init /\ [][Next]_vars

\* Tasks that are runnable run: an add that has begun completes, and the
\* controller loop ticks forever.  Every tick runs the node monitor (which
\* may prune) and then the traffic monitor, so pruning cannot keep a
\* controller from draining: strong fairness of Drain.  Traffic itself is
\* not guaranteed.
FairSpec ==
    /\ Spec
    /\ \A p \in Copiers : WF_vars(AddStep(p))
    /\ \A k \in Ctrls : WF_vars(ReportStep(k)) /\ WF_vars(Delist(k)) /\ SF_vars(Drain(k))

-----------------------------------------------------------------------------
(* Properties.                                                             *)

\* The types of the counters, the copy loops' and the controllers' locals.
TypeOK ==
    /\ users \in [Tags -> CIds \union {NoCounter}]
    /\ active \subseteq Tags
    /\ tagOf \in [CIds -> Tags \union {NoTag}]
    /\ dirty \in [CIds -> {0, 1}]
    /\ cnt \in [Cells -> SUBSET Chunks]
    /\ cpc \in [Copiers -> {"idle", "insert", "add"}]
    /\ cctr \in [Copiers -> CIds \union {NoCounter}]
    /\ cchunk \in [Copiers -> Chunks \union {NoChunk}]
    /\ cdir \in [Copiers -> Dirs]
    /\ unsent \subseteq Chunks
    /\ kpc \in [Ctrls -> {"idle", "delist", "lookup", "next", "takeUp", "takeDown",
                          "post", "failed", "restore", "rInsert", "rUp", "rDown"}]
    /\ drained \in [Ctrls -> SUBSET Tags]
    /\ todo \in [Ctrls -> SUBSET CIds]
    /\ cur \in [Ctrls -> CIds \union {NoCounter}]
    /\ back \in [Ctrls -> {"next", "failed"}]
    /\ dtag \in [Ctrls -> Tags \union {NoTag}]
    /\ taken \in [Ctrls -> [Cells -> SUBSET Chunks]]
    /\ tries \in [Ctrls -> 0..(Attempts - 1)]
    /\ billed \in [Chunks -> Nat]
    /\ dropped \subseteq Chunks
    /\ lost \in 0..MaxLost

Adding(p) == cpc[p] # "idle"
\* ch is counted in one of the counters / is in the hands of controller k.
Counted(ch) == \E x \in Cells : ch \in cnt[x]
Held(k, ch) == \E x \in Cells : ch \in taken[k][x]

\* No chunk is ever counted twice: it is unsent, or being added by one
\* copier, or in one cell of one counter, or in one controller's hands in one
\* cell, and never in two of these places.
CountedOnce ==
    /\ \A p \in Copiers : Adding(p) =>
          /\ cchunk[p] \notin unsent
          /\ ~Counted(cchunk[p])
          /\ \A k \in Ctrls : ~Held(k, cchunk[p])
          /\ \A q \in Copiers \ {p} : Adding(q) => cchunk[q] # cchunk[p]
    /\ \A x \in Cells :
          /\ cnt[x] \intersect unsent = {}
          /\ \A y \in Cells \ {x} : cnt[x] \intersect cnt[y] = {}
    /\ \A k \in Ctrls, x \in Cells :
          /\ taken[k][x] \intersect unsent = {}
          /\ \A y \in Cells : taken[k][x] \intersect cnt[y] = {}
          /\ \A j \in Ctrls, y \in Cells :
                <<j, y>> # <<k, x>> => taken[k][x] \intersect taken[j][y] = {}

\* Relayed traffic never disappears: until the panel has booked it, or a
\* controller with disable_upload_traffic has discarded it, a chunk is being
\* added, or in a counter (a removed user's counter included), or in the hands
\* of a controller -- through every failed, retried and restored report.
NoTrafficLost ==
    \A ch \in Chunks :
        \/ ch \in unsent \/ ch \in dropped \/ billed[ch] > 0
        \/ Counted(ch)
        \/ \E p \in Copiers : Adding(p) /\ cchunk[p] = ch
        \/ \E k \in Ctrls : Held(k, ch)

\* A chunk is booked more than once only when a reply was lost after the
\* panel had booked the request: every extra booking costs one lost reply.
\* A chunk not reported yet is only booked by lost replies.
BookedOncePerLostReply ==
    \A ch \in Chunks :
        billed[ch] <= IF ch \in unsent \/ Counted(ch) \/ (\E k \in Ctrls : Held(k, ch))
                      THEN lost ELSE lost + 1

\* The dirty-flag protocol: while a user stays on the node, a counter whose
\* dirty flag is set is on its way to a report -- its tag is listed, or being
\* listed by the one that set the flag, or drained and not taken yet.
\* Otherwise mark_active would never list the counter again.
DirtyIsListed ==
    \A t \in Tags \ Removable :
        LET c == users[t] IN
        c # NoCounter /\ dirty[c] = 1 =>
            \/ t \in active
            \/ \E p \in Copiers : cpc[p] = "insert" /\ cctr[p] = c
            \/ \E k \in Ctrls : kpc[k] = "rInsert" /\ cur[k] = c
            \/ \E k \in Ctrls : t \in drained[k] \/ c \in todo[k]

\* Traffic is not stranded: what is in a counter marked dirty is eventually
\* taken out of it, for a user who stays on the node.  An add that falls
\* between take's clear and its swap leaves its bytes in a counter that is no
\* longer marked (dirty = 0); the user's next add marks it again, and the
\* bytes of both go.
TrafficIsTaken ==
    \A c \in CIds, d \in Dirs, ch \in Chunks :
        (dirty[c] = 1 /\ tagOf[c] \notin Removable /\ ch \in cnt[<<c, d>>])
            ~> (ch \notin cnt[<<c, d>>])

=============================================================================
