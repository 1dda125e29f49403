------------------------- MODULE TrafficStatsProofs -------------------------
(* Proofs about TrafficStats, for any number of users, nodes, connections  *)
(* and chunks.                                                             *)
EXTENDS TrafficStats, TLAPS

\* Locals and registry refer to allocated counters: what makes the tag that
\* mark_active lists, and the owner that parse_user_tag finds, well defined.
Working(k) == kpc[k] \in {"takeUp", "takeDown", "restore", "rInsert", "rUp", "rDown"}
Allocated(c) == c \in CIds /\ tagOf[c] \in Tags
RefsOK ==
    /\ \A t \in Tags : users[t] # NoCounter => tagOf[users[t]] = t
    /\ \A p \in Copiers : cctr[p] # NoCounter => Allocated(cctr[p])
    /\ \A p \in Copiers : Adding(p) => cctr[p] # NoCounter /\ cchunk[p] \in Chunks
    /\ \A k \in Ctrls : \A c \in todo[k] : Allocated(c)
    /\ \A k \in Ctrls : Working(k) => Allocated(cur[k])
    /\ \A k \in Ctrls : \A x \in Cells : taken[k][x] # {} => Allocated(x[1])
    /\ \A k \in Ctrls : kpc[k] = "delist" => dtag[k] \in Removable
    /\ \A k \in Ctrls : kpc[k] # "lookup" => drained[k] = {}
    /\ \A k \in Ctrls : kpc[k] \in {"idle", "delist", "lookup", "post", "failed"} => todo[k] = {}
    /\ \A k \in Ctrls : kpc[k] \in {"idle", "delist", "lookup", "next", "takeUp", "takeDown", "post", "failed"}
                          => back[k] = "next"
    /\ \A k \in Ctrls : back[k] = "failed" => todo[k] = {}

TypeInv == TypeOK /\ RefsOK

LEMMA TypeInit == Init => TypeInv
  BY ConstantsOK DEF Init, TypeInv, TypeOK, RefsOK, Cells, Dirs, Attempts, Adding, Working

LEMMA TypeNext == TypeInv /\ [Next]_vars => TypeInv'
  <1> SUFFICES ASSUME TypeInv, [Next]_vars PROVE TypeInv'
    OBVIOUS
  <1> USE ConstantsOK DEF TypeInv, Adding, Working, Allocated
  <1>1. ASSUME NEW p \in Copiers, NEW t \in Tags, Resolve(p, t) PROVE TypeInv'
    <2>1. CASE users[t] # NoCounter /\ cctr' = [cctr EXCEPT ![p] = users[t]]
               /\ UNCHANGED <<users, tagOf>>
      BY <1>1, <2>1 DEF Resolve, TypeOK, RefsOK, ctrlVars, panelVars
    <2>2. ASSUME users[t] = NoCounter, NEW c \in CIds, tagOf[c] = NoTag,
                 tagOf' = [tagOf EXCEPT ![c] = t], users' = [users EXCEPT ![t] = c],
                 cctr' = [cctr EXCEPT ![p] = c]
          PROVE  TypeInv'
      <3>1. TypeOK'
        BY <1>1, <2>2, SMTT(30) DEF Resolve, TypeOK, ctrlVars, panelVars
      <3>2. \A e \in CIds : tagOf[e] \in Tags => tagOf'[e] = tagOf[e]
        BY <2>2 DEF TypeOK
      <3>3. \A e : Allocated(e) => Allocated(e)'
        BY <3>2
      <3>4. RefsOK'
        BY <1>1, <2>2, <3>1, <3>2, <3>3 DEF Resolve, TypeOK, RefsOK, ctrlVars, panelVars
      <3> QED BY <3>1, <3>4
    <2> QED BY <1>1, <2>1, <2>2 DEF Resolve
  <1>2. ASSUME NEW p \in Copiers, NEW ch \in Chunks, NEW d \in Dirs, AddMark(p, ch, d) PROVE TypeInv'
    BY <1>2 DEF AddMark, TypeOK, RefsOK, ctrlVars, panelVars
  <1>3. ASSUME NEW p \in Copiers, AddInsert(p) PROVE TypeInv'
    BY <1>3 DEF AddInsert, TypeOK, RefsOK, ctrlVars, panelVars
  <1>4. ASSUME NEW p \in Copiers, AddCount(p) PROVE TypeInv'
    BY <1>4 DEF AddCount, TypeOK, RefsOK, ctrlVars, panelVars, Cells
  <1>5. ASSUME NEW p \in Copiers, Hangup(p) PROVE TypeInv'
    BY <1>5 DEF Hangup, TypeOK, RefsOK, ctrlVars, panelVars, statsVars
  <1>6. ASSUME NEW k \in Ctrls, NEW t \in Tags, RemoveUser(k, t) PROVE TypeInv'
    BY <1>6 DEF RemoveUser, TypeOK, RefsOK, copyVars, panelVars
  <1>7. ASSUME NEW k \in Ctrls, Delist(k) PROVE TypeInv'
    BY <1>7 DEF Delist, TypeOK, RefsOK, copyVars, panelVars
  <1>8. ASSUME NEW k \in Ctrls, Drain(k) PROVE TypeInv'
    BY <1>8 DEF Drain, TypeOK, RefsOK, copyVars, panelVars
  <1>9. ASSUME NEW k \in Ctrls, Lookup(k) PROVE TypeInv'
    <2>1. {users[t] : t \in drained[k]} \ {NoCounter} \subseteq CIds
      BY DEF TypeOK
    <2>2. \A c \in {users[t] : t \in drained[k]} \ {NoCounter} : Allocated(c)
      BY DEF TypeOK, RefsOK
    <2>3. TypeOK'
      BY <1>9, <2>1, Zenon DEF Lookup, TypeOK, copyVars, panelVars, statsVars
    <2>4. RefsOK'
      <3>1. /\ todo'[k] = {users[t] : t \in drained[k]} \ {NoCounter}
            /\ \A j \in Ctrls \ {k} : todo'[j] = todo[j] /\ drained'[j] = drained[j] /\ kpc'[j] = kpc[j]
            /\ kpc'[k] = "next" /\ drained'[k] = {} /\ back[k] = "next"
        BY <1>9 DEF Lookup, TypeOK, RefsOK
      <3>2. UNCHANGED <<users, tagOf, cpc, cctr, cchunk, cur, back, dtag, taken>>
        BY <1>9, Zenon DEF Lookup, copyVars, statsVars
      <3> QED BY <2>2, <3>1, <3>2 DEF RefsOK
    <2> QED BY <2>3, <2>4
  <1>10. ASSUME NEW k \in Ctrls, NEW c \in CIds, TakeDirty(k, c) PROVE TypeInv'
    BY <1>10 DEF TakeDirty, TypeOK, RefsOK, copyVars, panelVars
  <1>11. ASSUME NEW k \in Ctrls, TakeUp(k) PROVE TypeInv'
    BY <1>11 DEF TakeUp, Swap, TypeOK, RefsOK, copyVars, panelVars, Cells, Dirs
  <1>12. ASSUME NEW k \in Ctrls, TakeDown(k) PROVE TypeInv'
    BY <1>12 DEF TakeDown, Swap, TypeOK, RefsOK, copyVars, panelVars, Cells, Dirs
  <1>13. ASSUME NEW k \in Ctrls, NothingToReport(k) PROVE TypeInv'
    BY <1>13 DEF NothingToReport, TypeOK, RefsOK, copyVars, panelVars, statsVars
  <1>14. ASSUME NEW k \in Ctrls, Discard(k) PROVE TypeInv'
    <2>1. InHand(k) \subseteq Chunks
      BY DEF InHand, TypeOK
    <2> QED BY <1>14, <2>1 DEF Discard, EmptyHands, TypeOK, RefsOK, copyVars, statsVars
  <1>15. ASSUME NEW k \in Ctrls, StartReport(k) PROVE TypeInv'
    BY <1>15 DEF StartReport, TypeOK, RefsOK, copyVars, panelVars, statsVars
  <1>16. ASSUME NEW k \in Ctrls, PostOk(k) PROVE TypeInv'
    BY <1>16 DEF PostOk, Book, EmptyHands, TypeOK, RefsOK, copyVars, statsVars, Attempts
  <1>17. ASSUME NEW k \in Ctrls, PostTransportError(k) PROVE TypeInv'
    <2>1. billed' \in [Chunks -> Nat] /\ lost' \in 0..MaxLost
      BY <1>17 DEF PostTransportError, BookUnseen, Book, TypeOK
    <2>2. tries' \in [Ctrls -> 0..2] /\ (kpc' = kpc \/ kpc' = [kpc EXCEPT ![k] = "failed"])
      <3>1. CASE tries[k] + 1 = 3
        <4>1. tries' = [tries EXCEPT ![k] = 0] /\ kpc' = [kpc EXCEPT ![k] = "failed"]
          BY <1>17, <3>1 DEF PostTransportError, Attempts
        <4> QED BY <4>1 DEF TypeOK, Attempts
      <3>2. CASE tries[k] + 1 # 3
        <4>1. tries' = [tries EXCEPT ![k] = tries[k] + 1] /\ kpc' = kpc
          BY <1>17, <3>2 DEF PostTransportError, Attempts
        <4>2. tries \in [Ctrls -> 0..2]
          BY DEF TypeOK, Attempts
        <4> HIDE DEF TypeInv
        <4>3. tries[k] + 1 \in 0..2
          <5>1. tries[k] \in 0..2
            BY <4>2
          <5> QED BY <5>1, <3>2
        <4> QED BY <4>1, <4>2, <4>3
      <3> QED BY <3>1, <3>2
    <2>3. UNCHANGED <<users, active, tagOf, dirty, cnt, cpc, cctr, cchunk, cdir, unsent,
                      drained, todo, cur, back, dtag, taken, dropped>>
      BY <1>17 DEF PostTransportError, copyVars, statsVars
    <2>4. TypeOK'
      <3>1. CASE kpc' = kpc
        BY <2>1, <2>2, <2>3, <3>1 DEF TypeOK, Attempts
      <3>2. CASE kpc' = [kpc EXCEPT ![k] = "failed"]
        BY <2>1, <2>2, <2>3, <3>2 DEF TypeOK, Attempts
      <3> QED BY <2>2, <3>1, <3>2
    <2>5. RefsOK'
      <3>1. kpc[k] = "post"
        BY <1>17 DEF PostTransportError
      <3>2. CASE kpc' = kpc
        BY <2>3, <3>2, Zenon DEF RefsOK
      <3>3. CASE kpc' = [kpc EXCEPT ![k] = "failed"]
        BY <2>3, <3>1, <3>3, SMTT(30) DEF RefsOK, TypeOK
      <3> QED BY <2>2, <3>2, <3>3
    <2> QED BY <2>4, <2>5
  <1>18. ASSUME NEW k \in Ctrls, PostRefused(k) PROVE TypeInv'
    <2>1. billed' \in [Chunks -> Nat] /\ lost' \in 0..MaxLost
      BY <1>18 DEF PostRefused, BookUnseen, Book, TypeOK
    <2> QED BY <1>18, <2>1 DEF PostRefused, TypeOK, RefsOK, copyVars, statsVars, Attempts
  <1>19. ASSUME NEW k \in Ctrls, RestoreNext(k) PROVE TypeInv'
    <2>1. CASE \E x \in Cells : taken[k][x] # {} /\ cur' = [cur EXCEPT ![k] = x[1]]
                 /\ back' = [back EXCEPT ![k] = "failed"] /\ kpc' = [kpc EXCEPT ![k] = "restore"]
      <3> PICK x \in Cells : taken[k][x] # {} /\ cur' = [cur EXCEPT ![k] = x[1]]
                 /\ back' = [back EXCEPT ![k] = "failed"] /\ kpc' = [kpc EXCEPT ![k] = "restore"]
        BY <2>1, Zenon
      <3>1. Allocated(x[1])
        BY Zenon DEF RefsOK
      <3>2. TypeOK'
        BY <1>19, <3>1, SMTT(30) DEF RestoreNext, TypeOK, copyVars, statsVars, panelVars
      <3>3. RefsOK'
        BY <1>19, <3>1, SMTT(30) DEF RestoreNext, TypeOK, RefsOK, copyVars, statsVars, panelVars
      <3> QED BY <3>2, <3>3
    <2>2. CASE kpc' = [kpc EXCEPT ![k] = "idle"] /\ UNCHANGED <<cur, back>>
      BY <1>19, <2>2, SMTT(30) DEF RestoreNext, TypeOK, RefsOK, copyVars, statsVars, panelVars
    <2> QED BY <1>19, <2>1, <2>2 DEF RestoreNext
  <1>20. ASSUME NEW k \in Ctrls, RestoreMark(k) PROVE TypeInv'
    BY <1>20, SMTT(30) DEF RestoreMark, TypeOK, RefsOK, copyVars, panelVars
  <1>21. ASSUME NEW k \in Ctrls, RestoreInsert(k) PROVE TypeInv'
    BY <1>21, SMTT(30) DEF RestoreInsert, TypeOK, RefsOK, copyVars, panelVars
  <1>22. ASSUME NEW k \in Ctrls, RestoreUp(k) PROVE TypeInv'
    BY <1>22, SMTT(30) DEF RestoreUp, GiveBack, TypeOK, RefsOK, copyVars, panelVars, Cells, Dirs
  <1>23. ASSUME NEW k \in Ctrls, RestoreDown(k) PROVE TypeInv'
    BY <1>23, SMTT(30) DEF RestoreDown, GiveBack, TypeOK, RefsOK, copyVars, panelVars, Cells, Dirs
  <1>24. CASE UNCHANGED vars
    BY <1>24, Zenon DEF vars, TypeOK, RefsOK
  <1> QED
    BY <1>1, <1>2, <1>3, <1>4, <1>5, <1>6, <1>7, <1>8, <1>9, <1>10, <1>11, <1>12, Zenon,
       <1>13, <1>14, <1>15, <1>16, <1>17, <1>18, <1>19, <1>20, <1>21, <1>22, <1>23, <1>24
       DEF Next, CopierStep, AddStep, ReportStep, PruneStep

\* Every variable of the accounting has its type in every reachable state.
THEOREM TypeCorrect == Spec => []TypeOK
  <1>1. TypeInv => TypeOK
    BY DEF TypeInv
  <1> QED BY TypeInit, TypeNext, <1>1, PTL DEF Spec

-----------------------------------------------------------------------------
(* The dirty-flag protocol.                                                *)

\* A counter object that is not allocated yet is clean.
FreshClean == \A c \in CIds : tagOf[c] = NoTag => dirty[c] = 0

DirtyInv == TypeInv /\ FreshClean /\ DirtyIsListed

\* The registered counter c of user t is on its way to a report.
OnItsWay(t, c) ==
    \/ t \in active
    \/ \E p \in Copiers : cpc[p] = "insert" /\ cctr[p] = c
    \/ \E k \in Ctrls : kpc[k] = "rInsert" /\ cur[k] = c
    \/ \E k \in Ctrls : t \in drained[k] \/ c \in todo[k]

\* A step that takes nobody off the way to a report.
KeepsWay ==
    /\ active \subseteq active'
    /\ \A p \in Copiers : cpc[p] = "insert" => cpc'[p] = "insert" /\ cctr'[p] = cctr[p]
    /\ \A k \in Ctrls : kpc[k] = "rInsert" => kpc'[k] = "rInsert" /\ cur'[k] = cur[k]
    /\ \A k \in Ctrls : drained[k] \subseteq drained'[k] /\ todo[k] \subseteq todo'[k]

LEMMA QuietKeepsWay ==
  ASSUME KeepsWay, NEW t \in Tags, NEW c \in CIds, OnItsWay(t, c)
  PROVE  OnItsWay(t, c)'
  BY Zenon DEF KeepsWay, OnItsWay

LEMMA DirtyNext == DirtyInv /\ [Next]_vars => DirtyInv'
  <1> SUFFICES ASSUME DirtyInv, [Next]_vars PROVE DirtyInv'
    OBVIOUS
  <1>T. TypeInv /\ TypeInv'
    BY TypeNext DEF DirtyInv
  <1>C. FreshClean
    BY DEF DirtyInv
  <1>F. FreshClean'
    <2>T. dirty \in [CIds -> {0, 1}] /\ tagOf \in [CIds -> Tags \union {NoTag}]
      BY <1>T, Zenon DEF TypeInv, TypeOK
    <2>M. ASSUME NEW m, Allocated(m), dirty' = [dirty EXCEPT ![m] = 1], tagOf' = tagOf PROVE FreshClean'
      BY <1>C, <2>T, <2>M, ConstantsOK DEF FreshClean, Allocated
    <2>1. ASSUME NEW p \in Copiers, NEW ch \in Chunks, NEW d \in Dirs, AddMark(p, ch, d) PROVE FreshClean'
      <3>1. cctr[p] # NoCounter /\ dirty' = [dirty EXCEPT ![cctr[p]] = 1] /\ tagOf' = tagOf
        BY <2>1 DEF AddMark
      <3>2. Allocated(cctr[p])
        BY <1>T, <3>1, Zenon DEF TypeInv, RefsOK
      <3> QED BY <3>1, <3>2, <2>M, Zenon
    <2>2. ASSUME NEW k \in Ctrls, NEW c \in CIds, TakeDirty(k, c) PROVE FreshClean'
      <3>1. dirty' = [dirty EXCEPT ![c] = 0] /\ tagOf' = tagOf
        BY <2>2 DEF TakeDirty
      <3> QED BY <3>1, <1>C, <2>T DEF FreshClean
    <2>3. ASSUME NEW k \in Ctrls, RestoreMark(k) PROVE FreshClean'
      <3>1. Working(k) /\ dirty' = [dirty EXCEPT ![cur[k]] = 1] /\ tagOf' = tagOf
        BY <2>3, Zenon DEF RestoreMark, Working
      <3>2. Allocated(cur[k])
        BY <1>T, <3>1, Zenon DEF TypeInv, RefsOK
      <3> QED BY <3>1, <3>2, <2>M, Zenon
    <2>4. ASSUME NEW p \in Copiers, NEW u \in Tags, Resolve(p, u) PROVE FreshClean'
      <3>1. dirty' = dirty
        BY <2>4, Zenon DEF Resolve
      <3>2. \/ tagOf' = tagOf
            \/ \E c \in CIds : tagOf' = [tagOf EXCEPT ![c] = u]
        BY <2>4, Zenon DEF Resolve
      <3>3. u # NoTag
        BY ConstantsOK
      <3>4. \A e \in CIds : tagOf'[e] = NoTag => tagOf[e] = NoTag
        BY <3>2, <3>3, <2>T
      <3> QED BY <3>1, <3>4, <1>C DEF FreshClean
    <2>5. CASE UNCHANGED <<tagOf, dirty>>
      BY <2>5, <1>C, Zenon DEF FreshClean
    <2> QED
      BY <2>1, <2>2, <2>3, <2>4, <2>5, ZenonT(60)
         DEF Next, vars, CopierStep, AddStep, ReportStep, PruneStep, statsVars,
             AddInsert, AddCount, Hangup, RemoveUser, Delist, Drain, Lookup, TakeUp, TakeDown,
             NothingToReport, Discard, StartReport, PostOk, PostTransportError, PostRefused,
             RestoreNext, RestoreInsert, RestoreUp, RestoreDown
  <1> SUFFICES DirtyIsListed'
    BY <1>T, <1>F DEF DirtyInv
  <1>U. \A t \in Tags : users'[t] # NoCounter => users'[t] \in CIds
    BY <1>T DEF TypeInv, TypeOK
  <1> SUFFICES ASSUME NEW t \in Tags \ Removable, NEW c \in CIds,
                      users'[t] = c, dirty'[c] = 1
               PROVE  OnItsWay(t, c)'
    BY <1>U, Zenon DEF DirtyIsListed, OnItsWay
  <1>I. users[t] = c /\ dirty[c] = 1 => OnItsWay(t, c)
    BY ConstantsOK, Zenon DEF DirtyInv, DirtyIsListed, OnItsWay
  <1>Q. ASSUME KeepsWay, users[t] = c, dirty[c] = 1 PROVE OnItsWay(t, c)'
    BY <1>Q, <1>I, QuietKeepsWay, Zenon
  <1>R. RefsOK
    BY <1>T, Zenon DEF TypeInv
  <1>S. /\ users \in [Tags -> CIds \union {NoCounter}] /\ dirty \in [CIds -> {0, 1}]
        /\ cpc = [p \in Copiers |-> cpc[p]] /\ cctr = [p \in Copiers |-> cctr[p]]
        /\ kpc = [k \in Ctrls |-> kpc[k]] /\ cur = [k \in Ctrls |-> cur[k]]
        /\ drained = [k \in Ctrls |-> drained[k]] /\ todo = [k \in Ctrls |-> todo[k]]
    BY <1>T DEF TypeInv, TypeOK
  <1>1. ASSUME NEW p \in Copiers, NEW u \in Tags, Resolve(p, u) PROVE OnItsWay(t, c)'
    <2>1. users[t] = c /\ dirty[c] = 1
      BY <1>1, <1>C, <1>S DEF Resolve, FreshClean
    <2>2. KeepsWay
      BY <1>1, <1>S, Zenon DEF Resolve, KeepsWay, ctrlVars
    <2> QED BY <2>1, <2>2, <1>Q, Zenon
  <1>2. ASSUME NEW p \in Copiers, NEW ch \in Chunks, NEW d \in Dirs, AddMark(p, ch, d)
        PROVE OnItsWay(t, c)'
    <2>1. CASE dirty[c] = 1
      <3>1. KeepsWay
        BY <1>2, <1>S, Zenon DEF AddMark, KeepsWay, ctrlVars
      <3> QED BY <1>2, <2>1, <3>1, <1>Q, Zenon DEF AddMark
    <2>2. CASE dirty[c] # 1
      <3>1. cctr[p] = c /\ dirty[c] = 0 /\ cctr' = cctr
        BY <1>2, <2>2, <1>S, Zenon DEF AddMark
      <3>2. cpc'[p] = "insert"
        BY <1>2, <3>1, <1>S, Zenon DEF AddMark
      <3> QED BY <3>1, <3>2, Zenon DEF OnItsWay
    <2> QED BY <2>1, <2>2
  <1>3. ASSUME NEW p \in Copiers, AddInsert(p) PROVE OnItsWay(t, c)'
    <2>1. users[t] = c /\ dirty[c] = 1 /\ tagOf[c] = t
      BY <1>3, ConstantsOK, <1>R, Zenon DEF AddInsert, RefsOK
    <2>2. CASE cctr[p] = c
      BY <1>3, <2>1, <2>2, Zenon DEF AddInsert, OnItsWay
    <2>3. CASE cctr[p] # c
      BY <1>3, <1>I, <2>1, <2>3, <1>S, Zenon DEF AddInsert, OnItsWay, ctrlVars
    <2> QED BY <2>2, <2>3, Zenon
  <1>4. ASSUME NEW p \in Copiers, AddCount(p) \/ Hangup(p) PROVE OnItsWay(t, c)'
    <2>1. KeepsWay
      BY <1>4, <1>S, Zenon DEF AddCount, Hangup, KeepsWay, ctrlVars, statsVars
    <2> QED BY <1>4, <2>1, <1>Q, Zenon DEF AddCount, Hangup, statsVars
  <1>5. ASSUME NEW k \in Ctrls, NEW u \in Tags, RemoveUser(k, u) PROVE OnItsWay(t, c)'
    <2>1. KeepsWay
      BY <1>5, <1>S, Zenon DEF RemoveUser, KeepsWay, copyVars
    <2>2. users[t] = c /\ dirty[c] = 1
      BY <1>5, ConstantsOK, <1>S, Zenon DEF RemoveUser
    <2> QED BY <2>1, <2>2, <1>Q
  <1>6. ASSUME NEW k \in Ctrls, Delist(k) PROVE OnItsWay(t, c)'
    <2>1. dtag[k] # t
      BY <1>6, <1>R, SMTT(30) DEF Delist, RefsOK
    <2>2. OnItsWay(t, c)
      BY <1>6, <1>I, Zenon DEF Delist
    <2> QED BY <1>6, <2>1, <2>2, <1>S, Zenon DEF Delist, OnItsWay, copyVars
  <1>7. ASSUME NEW k \in Ctrls, Drain(k) PROVE OnItsWay(t, c)'
    <2>1. OnItsWay(t, c)
      BY <1>7, <1>I, Zenon DEF Drain
    <2>2. CASE t \in active
      BY <1>7, <2>2, <1>S, SMTT(30) DEF Drain, OnItsWay
    <2>3. CASE \E p \in Copiers : cpc[p] = "insert" /\ cctr[p] = c
      BY <1>7, <2>3, Zenon DEF Drain, OnItsWay, copyVars
    <2>4. CASE \E j \in Ctrls : kpc[j] = "rInsert" /\ cur[j] = c
      BY <1>7, <2>4, <1>S, Zenon DEF Drain, OnItsWay
    <2>5. CASE \E j \in Ctrls : t \in drained[j] \/ c \in todo[j]
      <3> PICK j \in Ctrls : t \in drained[j] \/ c \in todo[j]
        BY <2>5, Zenon
      <3>1. CASE c \in todo[j]
        BY <1>7, <3>1, Zenon DEF Drain, OnItsWay
      <3>2. CASE t \in drained[j] /\ j # k
        BY <1>7, <3>2, <1>S, SMTT(30) DEF Drain, OnItsWay
      <3>3. CASE t \in drained[k]
        BY <1>7, <3>3, <1>R, Zenon DEF Drain, RefsOK
      <3> QED BY <3>1, <3>2, <3>3, Zenon
    <2> QED BY <2>1, <2>2, <2>3, <2>4, <2>5, Zenon DEF OnItsWay
  <1>8. ASSUME NEW k \in Ctrls, Lookup(k) PROVE OnItsWay(t, c)'
    <2>1. users[t] = c /\ OnItsWay(t, c)
      BY <1>8, <1>I, Zenon DEF Lookup, statsVars
    <2>2. CASE t \in drained[k]
      <3>1. c \in todo'[k]
        BY <1>8, <2>1, <2>2, ConstantsOK, <1>S DEF Lookup
      <3> QED BY <3>1 DEF OnItsWay
    <2>3. CASE c \in todo[k]
      BY <1>8, <2>3, <1>R, Zenon DEF Lookup, RefsOK
    <2>4. CASE t \notin drained[k] /\ c \notin todo[k]
      BY <1>8, <2>1, <2>4, <1>S, Zenon DEF Lookup, OnItsWay, copyVars, statsVars
    <2> QED BY <2>2, <2>3, <2>4
  <1>9. ASSUME NEW k \in Ctrls, NEW e \in CIds, TakeDirty(k, e) PROVE OnItsWay(t, c)'
    <2>1. e # c /\ users[t] = c /\ dirty[c] = 1
      BY <1>9, <1>S DEF TakeDirty
    <2>2. OnItsWay(t, c)
      BY <2>1, <1>I, Zenon
    <2> QED BY <1>9, <2>1, <2>2, <1>S, Zenon DEF TakeDirty, OnItsWay, copyVars
  <1>10. ASSUME NEW k \in Ctrls,
                \/ TakeUp(k) \/ TakeDown(k) \/ NothingToReport(k) \/ Discard(k) \/ StartReport(k)
                \/ PostOk(k) \/ PostTransportError(k) \/ PostRefused(k)
                \/ RestoreUp(k) \/ RestoreDown(k) \/ RestoreNext(k)
         PROVE OnItsWay(t, c)'
    <2> DEFINE Quiet == /\ UNCHANGED <<users, dirty, active, cpc, cctr, drained, todo>>
                        /\ kpc[k] # "rInsert"
                        /\ \A j \in Ctrls \ {k} : kpc'[j] = kpc[j] /\ cur'[j] = cur[j]
    <2>1. ASSUME TakeUp(k) PROVE Quiet
      BY <2>1, <1>S, Zenon DEF TakeUp, copyVars
    <2>2. ASSUME TakeDown(k) PROVE Quiet
      BY <2>2, <1>S, Zenon DEF TakeDown, copyVars
    <2>3. ASSUME NothingToReport(k) PROVE Quiet
      BY <2>3, <1>S, Zenon DEF NothingToReport, copyVars, statsVars
    <2>4. ASSUME Discard(k) PROVE Quiet
      BY <2>4, <1>S, Zenon DEF Discard, copyVars, statsVars
    <2>5. ASSUME StartReport(k) PROVE Quiet
      BY <2>5, <1>S, Zenon DEF StartReport, copyVars, statsVars
    <2>6. ASSUME PostOk(k) PROVE Quiet
      BY <2>6, <1>S, Zenon DEF PostOk, copyVars, statsVars
    <2>7. ASSUME PostTransportError(k) PROVE Quiet
      BY <2>7, <1>S, Zenon DEF PostTransportError, copyVars, statsVars
    <2>8. ASSUME PostRefused(k) PROVE Quiet
      BY <2>8, <1>S, Zenon DEF PostRefused, copyVars, statsVars
    <2>9. ASSUME RestoreUp(k) PROVE Quiet
      BY <2>9, <1>S, Zenon DEF RestoreUp, copyVars
    <2>10. ASSUME RestoreDown(k) PROVE Quiet
      BY <2>10, <1>S, Zenon DEF RestoreDown, copyVars
    <2>11. ASSUME RestoreNext(k) PROVE Quiet
      BY <2>11, <1>S, Zenon DEF RestoreNext, copyVars, statsVars
    <2>12. Quiet
      BY <1>10, <2>1, <2>2, <2>3, <2>4, <2>5, <2>6, <2>7, <2>8, <2>9, <2>10, <2>11, Zenon
    <2>13. KeepsWay
      BY <2>12, Zenon DEF KeepsWay
    <2> QED BY <2>12, <2>13, <1>Q
  <1>11. ASSUME NEW k \in Ctrls, RestoreMark(k) PROVE OnItsWay(t, c)'
    <2>1. CASE dirty[c] = 1
      <3>1. KeepsWay
        BY <1>11, <1>S, Zenon DEF RestoreMark, KeepsWay, copyVars
      <3> QED BY <1>11, <2>1, <3>1, <1>Q, Zenon DEF RestoreMark
    <2>2. CASE dirty[c] # 1
      <3>1. cur[k] = c /\ dirty[c] = 0 /\ cur' = cur
        BY <1>11, <2>2, <1>S, Zenon DEF RestoreMark
      <3>2. kpc'[k] = "rInsert"
        BY <1>11, <3>1, <1>S, Zenon DEF RestoreMark
      <3> QED BY <3>1, <3>2, Zenon DEF OnItsWay
    <2> QED BY <2>1, <2>2
  <1>12. ASSUME NEW k \in Ctrls, RestoreInsert(k) PROVE OnItsWay(t, c)'
    <2>1. users[t] = c /\ dirty[c] = 1 /\ tagOf[c] = t
      BY <1>12, ConstantsOK, <1>R, Zenon DEF RestoreInsert, RefsOK
    <2>2. CASE cur[k] = c
      BY <1>12, <2>1, <2>2, Zenon DEF RestoreInsert, OnItsWay
    <2>3. CASE cur[k] # c
      BY <1>12, <1>I, <2>1, <2>3, <1>S, Zenon DEF RestoreInsert, OnItsWay, copyVars
    <2> QED BY <2>2, <2>3
  <1>13. CASE UNCHANGED vars
    BY <1>13, <1>I, Zenon DEF vars, OnItsWay
  <1> QED
    BY <1>1, <1>2, <1>3, <1>4, <1>5, <1>6, <1>7, <1>8, <1>9, <1>10, <1>11, <1>12, <1>13, Zenon
       DEF Next, CopierStep, AddStep, ReportStep, PruneStep

\* A dirty counter of a user who stays on the node is always on its way to a
\* report, whatever the copy loops and the controllers interleave.
THEOREM DirtyListed == Spec => []DirtyIsListed
  <1>1. Init => DirtyInv
    BY TypeInit, ConstantsOK DEF Init, DirtyInv, FreshClean, DirtyIsListed
  <1>2. DirtyInv => DirtyIsListed
    BY DEF DirtyInv
  <1> QED BY <1>1, <1>2, DirtyNext, PTL DEF Spec
-----------------------------------------------------------------------------
(* Where a chunk is.                                                       *)

\* Taking never overwrites a count in hand: a controller's hands are empty when
\* a cycle begins, and a counter still to be taken, or being taken, has
\* nothing of it in hand.
HandsOf(k) ==
    /\ kpc[k] \in {"idle", "delist", "lookup"} => \A x \in Cells : taken[k][x] = {}
    /\ \A c \in todo[k], d \in Dirs : taken[k][<<c, d>>] = {}
    /\ Working(k) => cur[k] \notin todo[k]
    /\ kpc[k] = "takeUp" => \A d \in Dirs : taken[k][<<cur[k], d>>] = {}
    /\ kpc[k] = "takeDown" => taken[k][<<cur[k], "down">>] = {}

HandsOK == \A k \in Ctrls : HandsOf(k)

Carries(p, ch) == Adding(p) /\ cchunk[p] = ch
Somewhere(ch) == Counted(ch) \/ \E k \in Ctrls : Held(k, ch)

\* A chunk is in at most one place: CountedOnce, chunk by chunk.
OnePlace(ch) ==
    /\ ch \in unsent => ~Somewhere(ch) /\ \A p \in Copiers : ~Carries(p, ch)
    /\ \A p \in Copiers : Carries(p, ch) => ~Somewhere(ch)
    /\ \A p, q \in Copiers : Carries(p, ch) /\ Carries(q, ch) => p = q
    /\ \A x, y \in Cells : ch \in cnt[x] /\ ch \in cnt[y] => x = y
    /\ \A k \in Ctrls, x, y \in Cells : ~(ch \in cnt[x] /\ ch \in taken[k][y])
    /\ \A j, k \in Ctrls, x, y \in Cells :
          ch \in taken[j][x] /\ ch \in taken[k][y] => j = k /\ x = y

\* It is in one, unless the panel has booked it or a controller discarded it.
NotLost(ch) ==
    \/ ch \in unsent \/ ch \in dropped \/ billed[ch] > 0
    \/ Somewhere(ch) \/ \E p \in Copiers : Carries(p, ch)

\* What the panel has booked: nothing before the chunk is counted, and until
\* it leaves the controller's hands only with replies that were lost.
BookedBound(ch) ==
    /\ billed[ch] <= lost + 1
    /\ Somewhere(ch) => billed[ch] <= lost
    /\ ch \in unsent => billed[ch] = 0
    /\ \A p \in Copiers : Carries(p, ch) => billed[ch] = 0

Account(ch) == OnePlace(ch) /\ NotLost(ch) /\ BookedBound(ch)
AccountInv == TypeInv /\ HandsOK /\ \A ch \in Chunks : Account(ch)

\* A step of controller k does not touch another controller's hands.
LEMMA OtherHands ==
  ASSUME HandsOK, NEW k \in Ctrls, HandsOf(k)',
         \A j \in Ctrls \ {k} : /\ kpc'[j] = kpc[j] /\ todo'[j] = todo[j]
                               /\ cur'[j] = cur[j] /\ taken'[j] = taken[j]
  PROVE  HandsOK'
  <1>1. ASSUME NEW j \in Ctrls \ {k} PROVE HandsOf(j)'
    <2>1. HandsOf(j) /\ kpc'[j] = kpc[j] /\ todo'[j] = todo[j] /\ cur'[j] = cur[j] /\ taken'[j] = taken[j]
      BY <1>1, Zenon DEF HandsOK
    <2> QED
      BY <2>1, Zenon DEF HandsOf, Working
  <1> QED
    BY <1>1, Zenon DEF HandsOK

LEMMA HandsNext ==
  ASSUME TypeInv, HandsOK, [Next]_vars
  PROVE  HandsOK'
  <1> USE DEF Working
  <1>T. /\ kpc \in [Ctrls -> {"idle", "delist", "lookup", "next", "takeUp", "takeDown",
                              "post", "failed", "restore", "rInsert", "rUp", "rDown"}]
        /\ todo \in [Ctrls -> SUBSET CIds] /\ cur \in [Ctrls -> CIds \union {NoCounter}]
        /\ back \in [Ctrls -> {"next", "failed"}]
        /\ taken \in [Ctrls -> [Cells -> SUBSET Chunks]]
    BY Zenon DEF TypeInv, TypeOK
  <1>R. /\ \A k \in Ctrls : kpc[k] \in {"idle", "delist", "lookup", "post", "failed"} => todo[k] = {}
        /\ \A k \in Ctrls : Working(k) => cur[k] \in CIds
        /\ \A k \in Ctrls : back[k] = "failed" => todo[k] = {}
    BY Zenon DEF TypeInv, RefsOK, Allocated
  <1>C. \A c \in CIds, d \in Dirs : <<c, d>> \in Cells
    BY DEF Cells
  <1>D. Dirs = {"up", "down"}
    BY DEF Dirs
  <1>0. CASE UNCHANGED <<kpc, todo, cur, taken>>
    BY <1>0, Zenon DEF HandsOK, HandsOf
  <1>1. ASSUME NEW k \in Ctrls, NEW t \in Tags, RemoveUser(k, t) PROVE HandsOK'
    <2>1. /\ kpc[k] = "idle" /\ kpc'[k] = "delist" /\ UNCHANGED <<todo, cur, taken>>
          /\ \A j \in Ctrls \ {k} : kpc'[j] = kpc[j]
      BY <1>1, <1>T, Zenon DEF RemoveUser
    <2>2. HandsOf(k)'
      BY <2>1, Zenon DEF HandsOK, HandsOf
    <2> QED
      BY <2>1, <2>2, OtherHands, Zenon
  <1>2. ASSUME NEW k \in Ctrls, Delist(k) PROVE HandsOK'
    BY <1>2, <1>T, <1>R, Zenon DEF Delist, HandsOK, HandsOf
  <1>3. ASSUME NEW k \in Ctrls, Drain(k) PROVE HandsOK'
    BY <1>3, <1>T, <1>R, Zenon DEF Drain, HandsOK, HandsOf
  <1>4. ASSUME NEW k \in Ctrls, Lookup(k) PROVE HandsOK'
    <2>1. todo' \in [Ctrls -> SUBSET CIds]
      BY <1>4, TypeNext, Zenon DEF TypeInv, TypeOK
    <2>2. /\ kpc'[k] = "next" /\ kpc[k] = "lookup" /\ UNCHANGED <<taken, cur>>
          /\ \A j \in Ctrls \ {k} : kpc'[j] = kpc[j] /\ todo'[j] = todo[j]
      BY <1>4, <1>T, Zenon DEF Lookup
    <2>3. \A c \in todo'[k], d \in Dirs : taken[k][<<c, d>>] = {}
      BY <2>1, <2>2, <1>C, Zenon DEF HandsOK, HandsOf
    <2>4. HandsOf(k)'
      BY <2>2, <2>3, Zenon DEF HandsOf
    <2> QED
      BY <2>2, <2>4, OtherHands, Zenon
  <1>5. ASSUME NEW k \in Ctrls, NEW c \in CIds, TakeDirty(k, c) PROVE HandsOK'
    <2>1. /\ kpc[k] = "next" /\ c \in todo[k] /\ kpc'[k] \in {"next", "restore", "takeUp"}
          /\ todo'[k] = todo[k] \ {c} /\ cur'[k] = c /\ UNCHANGED taken
          /\ \A j \in Ctrls \ {k} : kpc'[j] = kpc[j] /\ todo'[j] = todo[j] /\ cur'[j] = cur[j]
      BY <1>5, <1>T, Zenon DEF TakeDirty
    <2>2. HandsOf(k)'
      BY <2>1, Zenon DEF HandsOK, HandsOf
    <2> QED
      BY <2>1, <2>2, OtherHands, Zenon
  <1>6. ASSUME NEW k \in Ctrls, TakeUp(k) PROVE HandsOK'
    <2> DEFINE x == <<cur[k], "up">>
    <2>1. kpc[k] = "takeUp" /\ cur[k] \in CIds /\ x \in Cells /\ cur[k] \notin todo[k]
      BY <1>6, <1>R, <1>C, <1>D, Zenon DEF TakeUp, HandsOK, HandsOf
    <2>2. /\ \A j \in Ctrls \ {k} : taken'[j] = taken[j] /\ kpc'[j] = kpc[j]
          /\ \A y \in Cells \ {x} : taken'[k][y] = taken[k][y]
          /\ kpc'[k] = "takeDown" /\ UNCHANGED <<todo, cur>>
      BY <1>6, <2>1, <1>T, Zenon DEF TakeUp, Swap
    <2>3. \A c \in CIds, d \in Dirs : c # cur[k] \/ d # "up" => <<c, d>> \in Cells \ {x}
      BY <1>C
    <2>5. \A c \in todo[k], d \in Dirs : taken'[k][<<c, d>>] = {}
      BY <2>1, <2>2, <2>3, <1>T, Zenon DEF HandsOK, HandsOf
    <2>6. taken'[k][<<cur[k], "down">>] = {}
      BY <2>1, <2>2, <2>3, <1>D, Zenon DEF HandsOK, HandsOf
    <2>7. HandsOf(k)'
      BY <2>1, <2>2, <2>5, <2>6, Zenon DEF HandsOf
    <2> QED
      BY <2>2, <2>7, OtherHands, Zenon
  <1>7. ASSUME NEW k \in Ctrls, TakeDown(k) PROVE HandsOK'
    <2> DEFINE x == <<cur[k], "down">>
    <2>1. kpc[k] = "takeDown" /\ cur[k] \in CIds /\ x \in Cells /\ cur[k] \notin todo[k]
      BY <1>7, <1>R, <1>C, <1>D, Zenon DEF TakeDown, HandsOK, HandsOf
    <2>2. /\ \A j \in Ctrls \ {k} : taken'[j] = taken[j] /\ kpc'[j] = kpc[j]
          /\ \A y \in Cells \ {x} : taken'[k][y] = taken[k][y]
          /\ kpc'[k] \in {"next", "restore"} /\ UNCHANGED <<todo, cur>>
      BY <1>7, <2>1, <1>T, Zenon DEF TakeDown, Swap
    <2>3. \A c \in CIds, d \in Dirs : c # cur[k] => <<c, d>> \in Cells \ {x}
      BY <1>C
    <2>5. \A c \in todo[k], d \in Dirs : taken'[k][<<c, d>>] = {}
      BY <2>1, <2>2, <2>3, <1>T, Zenon DEF HandsOK, HandsOf
    <2>6. HandsOf(k)'
      BY <2>1, <2>2, <2>5, Zenon DEF HandsOf
    <2> QED
      BY <2>2, <2>6, OtherHands, Zenon
  <1>8. ASSUME NEW k \in Ctrls, NothingToReport(k) PROVE HandsOK'
    <2>1. \A x \in Cells : taken[k][x] = {}
      BY <1>8, Zenon DEF NothingToReport, InHand
    <2>2. /\ UNCHANGED <<todo, cur, taken>> /\ kpc'[k] = "idle"
          /\ \A j \in Ctrls \ {k} : kpc'[j] = kpc[j]
      BY <1>8, <1>T, Zenon DEF NothingToReport
    <2>3. kpc[k] = "next" /\ todo[k] = {}
      BY <1>8, Zenon DEF NothingToReport
    <2>4. HandsOf(k)'
      BY <2>1, <2>2, <2>3, Zenon DEF HandsOf
    <2> QED
      BY <2>2, <2>4, OtherHands, Zenon
  <1>9. ASSUME NEW k \in Ctrls, Discard(k) \/ PostOk(k) PROVE HandsOK'
    <2>1. /\ UNCHANGED <<todo, cur>> /\ kpc'[k] = "idle" /\ taken' \in [Ctrls -> [Cells -> SUBSET Chunks]]
          /\ \A x \in Cells : taken'[k][x] = {}
          /\ \A j \in Ctrls \ {k} : kpc'[j] = kpc[j] /\ taken'[j] = taken[j]
      BY <1>9, <1>T DEF Discard, PostOk, EmptyHands
    <2>2. \A c \in todo'[k], d \in Dirs : taken'[k][<<c, d>>] = {}
      BY <2>1, <1>T, <1>C, Zenon
    <2>3. HandsOf(k)'
      BY <2>1, <2>2, Zenon DEF HandsOf
    <2> QED
      BY <2>1, <2>3, OtherHands, Zenon
  <1>10. ASSUME NEW k \in Ctrls, StartReport(k) \/ PostTransportError(k) \/ PostRefused(k) PROVE HandsOK'
    <2>1. /\ UNCHANGED <<todo, cur, taken>> /\ kpc'[k] \in {"post", "failed"}
          /\ \A j \in Ctrls \ {k} : kpc'[j] = kpc[j]
      BY <1>10, <1>T, Zenon DEF StartReport, PostTransportError, PostRefused
    <2>2. HandsOf(k)'
      BY <2>1, Zenon DEF HandsOK, HandsOf
    <2> QED
      BY <2>1, <2>2, OtherHands, Zenon
  <1>11. ASSUME NEW k \in Ctrls, RestoreNext(k) PROVE HandsOK'
    <2>1. kpc[k] = "failed" /\ todo[k] = {} /\ UNCHANGED <<todo, taken>>
      BY <1>11, <1>R, Zenon DEF RestoreNext
    <2>2. /\ kpc'[k] = "restore" \/ (kpc'[k] = "idle" /\ InHand(k) = {})
          /\ \A j \in Ctrls \ {k} : kpc'[j] = kpc[j] /\ cur'[j] = cur[j]
      BY <1>11, <1>T, Zenon DEF RestoreNext
    <2>3. InHand(k) = {} => \A x \in Cells : taken[k][x] = {}
      BY DEF InHand
    <2>4. HandsOf(k)'
      BY <2>1, <2>2, <2>3, Zenon DEF HandsOf
    <2> QED
      BY <2>1, <2>2, <2>4, OtherHands, Zenon
  <1>12. ASSUME NEW k \in Ctrls, RestoreMark(k) \/ RestoreInsert(k) PROVE HandsOK'
    <2>1. /\ kpc[k] \in {"restore", "rInsert"} /\ kpc'[k] \in {"rInsert", "rUp"}
          /\ UNCHANGED <<todo, cur, taken>> /\ \A j \in Ctrls \ {k} : kpc'[j] = kpc[j]
      BY <1>12, <1>T, Zenon DEF RestoreMark, RestoreInsert
    <2>2. HandsOf(k)'
      BY <2>1, Zenon DEF HandsOK, HandsOf
    <2> QED
      BY <2>1, <2>2, OtherHands, Zenon
  <1>13. ASSUME NEW k \in Ctrls, RestoreUp(k) PROVE HandsOK'
    <2> DEFINE x == <<cur[k], "up">>
    <2>1. kpc[k] = "rUp" /\ cur[k] \in CIds /\ x \in Cells
      BY <1>13, <1>R, <1>C, <1>D, Zenon DEF RestoreUp
    <2>2. /\ \A j \in Ctrls \ {k} : taken'[j] = taken[j] /\ kpc'[j] = kpc[j]
          /\ \A y \in Cells : taken'[k][y] \subseteq taken[k][y]
          /\ kpc'[k] \in {"rDown"} /\ UNCHANGED <<todo, cur>>
      BY <1>13, <2>1, <1>T, Zenon DEF RestoreUp, GiveBack
    <2>4. HandsOf(k)'
      <3>1. cur[k] \notin todo[k]
        BY <2>1, Zenon DEF HandsOK, HandsOf
      <3>2. \A c \in todo[k], d \in Dirs : taken'[k][<<c, d>>] = {}
        <4> TAKE c \in todo[k], d \in Dirs
        <4>1. <<c, d>> \in Cells /\ taken[k][<<c, d>>] = {}
          BY <1>T, <1>C, Zenon DEF HandsOK, HandsOf
        <4> QED
          BY <4>1, <2>2
      <3> QED
        BY <2>2, <3>1, <3>2, Zenon DEF HandsOf
    <2> QED
      BY <2>2, <2>4, OtherHands, Zenon
  <1>14. ASSUME NEW k \in Ctrls, RestoreDown(k) PROVE HandsOK'
    <2> DEFINE x == <<cur[k], "down">>
    <2>1. kpc[k] = "rDown" /\ cur[k] \in CIds /\ x \in Cells
      BY <1>14, <1>R, <1>C, <1>D, Zenon DEF RestoreDown
    <2>2. /\ \A j \in Ctrls \ {k} : taken'[j] = taken[j] /\ kpc'[j] = kpc[j] /\ cur'[j] = cur[j]
          /\ \A y \in Cells : taken'[k][y] \subseteq taken[k][y]
          /\ kpc'[k] \in {"next", "failed"} /\ UNCHANGED todo
      BY <1>14, <2>1, <1>T, Zenon DEF RestoreDown, GiveBack
    <2>4. HandsOf(k)'
      <3>1. \A c \in todo[k], d \in Dirs : taken'[k][<<c, d>>] = {}
        <4> TAKE c \in todo[k], d \in Dirs
        <4>1. <<c, d>> \in Cells /\ taken[k][<<c, d>>] = {}
          BY <1>T, <1>C, Zenon DEF HandsOK, HandsOf
        <4> QED
          BY <4>1, <2>2
      <3> QED
        BY <2>2, <3>1, Zenon DEF HandsOf
    <2> QED
      BY <2>2, <2>4, OtherHands, Zenon
  <1> QED
    BY <1>0, <1>1, <1>2, <1>3, <1>4, <1>5, <1>6, <1>7, <1>8, <1>9, <1>10, <1>11, <1>12, <1>13, <1>14, Zenon
       DEF Next, vars, CopierStep, AddStep, ReportStep, PruneStep, ctrlVars,
           Resolve, AddMark, AddInsert, AddCount, Hangup


\* A chunk that moves to no new place is still in at most one.
LEMMA PlacesShrink ==
  ASSUME NEW ch \in Chunks, OnePlace(ch), ch \in unsent' => ch \in unsent,
         \A p \in Copiers : Carries(p, ch)' => Carries(p, ch),
         \A x \in Cells : ch \in cnt'[x] => ch \in cnt[x],
         \A k \in Ctrls, x \in Cells : ch \in taken'[k][x] => ch \in taken[k][x]
  PROVE  OnePlace(ch)'
  <1>1. Somewhere(ch)' => Somewhere(ch)
    BY Zenon DEF Somewhere, Counted, Held
  <1>2. /\ ch \in unsent' => ~Somewhere(ch)' /\ \A p \in Copiers : ~Carries(p, ch)'
        /\ \A p \in Copiers : Carries(p, ch)' => ~Somewhere(ch)'
        /\ \A p, q \in Copiers : Carries(p, ch)' /\ Carries(q, ch)' => p = q
    BY <1>1, Zenon DEF OnePlace
  <1>3. /\ \A x, y \in Cells : ch \in cnt'[x] /\ ch \in cnt'[y] => x = y
        /\ \A k \in Ctrls, x, y \in Cells : ~(ch \in cnt'[x] /\ ch \in taken'[k][y])
    BY Zenon DEF OnePlace
  <1>4. \A j, k \in Ctrls, x, y \in Cells :
           ch \in taken'[j][x] /\ ch \in taken'[k][y] => j = k /\ x = y
    BY Zenon DEF OnePlace
  <1> QED
    BY <1>2, <1>3, <1>4, Zenon DEF OnePlace

\* A step that moves no chunk and books nothing.
LEMMA AccountStays ==
  ASSUME NEW ch \in Chunks, Account(ch), UNCHANGED <<cnt, taken, unsent, dropped, billed, lost>>,
         \A p \in Copiers : Carries(p, ch)' <=> Carries(p, ch)
  PROVE  Account(ch)'
  <1>1. Somewhere(ch)' <=> Somewhere(ch)
    BY Zenon DEF Somewhere, Counted, Held
  <1>2. OnePlace(ch)'
    BY PlacesShrink, Zenon DEF Account
  <1>3. NotLost(ch)' /\ BookedBound(ch)'
    BY <1>1, Zenon DEF Account, NotLost, BookedBound
  <1> QED
    BY <1>2, <1>3, Zenon DEF Account

\* add_up / add_down: from the reader to the copy loop, from there to a counter.
LEMMA AccountAdd ==
  ASSUME TypeInv, NEW ch \in Chunks, Account(ch), NEW p \in Copiers,
         AddCount(p) \/ \E b \in Chunks, d \in Dirs : AddMark(p, b, d)
  PROVE  Account(ch)'
  <1>T. /\ cnt \in [Cells -> SUBSET Chunks] /\ cpc \in [Copiers -> {"idle", "insert", "add"}]
        /\ cchunk \in [Copiers -> Chunks \union {NoChunk}] /\ billed \in [Chunks -> Nat] /\ lost \in Nat
        /\ cdir \in [Copiers -> Dirs]
    BY DEF TypeInv, TypeOK
  <1>1. ASSUME NEW b \in Chunks, NEW d \in Dirs, AddMark(p, b, d) PROVE Account(ch)'
    <2>1. /\ UNCHANGED <<cnt, taken, billed, dropped, lost>>
          /\ b \in unsent /\ unsent' = unsent \ {b} /\ ~Adding(p) /\ Carries(p, b)'
          /\ \A q \in Copiers \ {p} : Carries(q, ch)' <=> Carries(q, ch)
          /\ Carries(p, ch)' <=> ch = b
      BY <1>1, <1>T, Zenon DEF AddMark, Carries, Adding, ctrlVars, panelVars
    <2>2. ~Carries(p, ch) /\ (Somewhere(ch)' <=> Somewhere(ch))
      BY <2>1, Zenon DEF Carries, Somewhere, Counted, Held
    <2>3. OnePlace(ch)'
      BY <2>1, <2>2, Zenon DEF Account, OnePlace
    <2>4. NotLost(ch)' /\ BookedBound(ch)'
      BY <2>1, <2>2, Zenon DEF Account, NotLost, BookedBound
    <2> QED BY <2>3, <2>4 DEF Account
  <1>2. ASSUME AddCount(p) PROVE Account(ch)'
    <2> DEFINE x == <<cctr[p], cdir[p]>>
    <2>1. cctr[p] \in CIds /\ x \in Cells
      BY <1>2, <1>T, Zenon DEF AddCount, TypeInv, RefsOK, Adding, Allocated, Cells
    <2>2. /\ UNCHANGED <<unsent, taken, billed, dropped, lost>>
          /\ \A y \in Cells \ {x} : cnt'[y] = cnt[y]
          /\ cnt'[x] = cnt[x] \union {cchunk[p]}
          /\ \A q \in Copiers \ {p} : Carries(q, ch)' <=> Carries(q, ch)
          /\ ~Carries(p, ch)' /\ (Carries(p, ch) <=> ch = cchunk[p])
      BY <1>2, <2>1, <1>T, Zenon DEF AddCount, Carries, Adding, ctrlVars, panelVars
    <2>3. CASE ch # cchunk[p]
      <3>1. \A y \in Cells : ch \in cnt'[y] <=> ch \in cnt[y]
        BY <2>1, <2>2, <2>3, Zenon
      <3>2. \A q \in Copiers : Carries(q, ch)' <=> Carries(q, ch)
        BY <2>2, <2>3, Zenon
      <3>3. Somewhere(ch)' <=> Somewhere(ch)
        BY <2>2, <3>1, Zenon DEF Somewhere, Counted, Held
      <3>4. OnePlace(ch)'
        BY <2>2, <3>1, <3>2, PlacesShrink, Zenon DEF Account
      <3>5. NotLost(ch)' /\ BookedBound(ch)'
        BY <2>2, <3>2, <3>3, Zenon DEF Account, NotLost, BookedBound
      <3> QED
        BY <3>4, <3>5, Zenon DEF Account
    <2>4. CASE ch = cchunk[p]
      <3>1. Carries(p, ch) /\ ~Somewhere(ch) /\ ch \notin unsent /\ billed[ch] = 0
        BY <2>2, <2>4, Zenon DEF Account, OnePlace, BookedBound
      <3>2. \A q \in Copiers : ~Carries(q, ch)'
        BY <2>2, <3>1, Zenon DEF Account, OnePlace
      <3>3. /\ \A y \in Cells : ch \in cnt'[y] <=> y = x
            /\ \A k \in Ctrls, y \in Cells : ch \notin taken'[k][y]
        BY <2>1, <2>2, <2>4, <3>1, Zenon DEF Somewhere, Counted, Held
      <3>4. Somewhere(ch)'
        BY <2>1, <3>3, Zenon DEF Somewhere, Counted
      <3>5. OnePlace(ch)'
        BY <2>2, <3>1, <3>2, <3>3, Zenon DEF OnePlace
      <3>6. billed'[ch] <= lost' /\ billed'[ch] <= lost' + 1
        <4>1. \A n \in Nat : 0 <= n /\ 0 <= n + 1
          OBVIOUS
        <4> QED
          BY <4>1, <2>2, <3>1, <1>T, Zenon
      <3>7. BookedBound(ch)'
        BY <2>2, <3>1, <3>2, <3>6, Zenon DEF BookedBound
      <3> QED
        BY <3>4, <3>5, <3>7, Zenon DEF Account, NotLost
    <2> QED BY <2>3, <2>4
  <1> QED BY <1>1, <1>2

\* take: from a cell of a counter to empty hands.
LEMMA AccountSwap ==
  ASSUME TypeInv, NEW ch \in Chunks, Account(ch), NEW k \in Ctrls, NEW x \in Cells,
         taken[k][x] = {}, Swap(k, x), UNCHANGED <<cpc, cchunk, unsent, dropped, billed, lost>>
  PROVE  Account(ch)'
  <1>T. cnt \in [Cells -> SUBSET Chunks] /\ taken \in [Ctrls -> [Cells -> SUBSET Chunks]]
    BY Zenon DEF TypeInv, TypeOK
  <1>1. /\ cnt'[x] = {} /\ \A y \in Cells \ {x} : cnt'[y] = cnt[y]
        /\ taken'[k][x] = cnt[x] /\ \A y \in Cells \ {x} : taken'[k][y] = taken[k][y]
        /\ \A j \in Ctrls \ {k} : taken'[j] = taken[j]
    BY <1>T, Zenon DEF Swap
  <1>2. \A p \in Copiers : Carries(p, ch)' <=> Carries(p, ch)
    BY Zenon DEF Carries, Adding
  <1>3. Somewhere(ch)' <=> Somewhere(ch)
    BY <1>1, Zenon DEF Somewhere, Counted, Held
  <1>4. OnePlace(ch)'
    <2>1. \A y \in Cells : ch \in cnt'[y] <=> ch \in cnt[y] /\ y # x
      BY <1>1, Zenon
    <2>2. \A j \in Ctrls, y \in Cells :
             ch \in taken'[j][y] <=> IF j = k /\ y = x THEN ch \in cnt[x] ELSE ch \in taken[j][y]
      BY <1>1, Zenon
    <2>3. /\ \A y, z \in Cells : ch \in cnt[y] /\ ch \in cnt[z] => y = z
          /\ \A j \in Ctrls, y, z \in Cells : ~(ch \in cnt[y] /\ ch \in taken[j][z])
          /\ \A i, j \in Ctrls, y, z \in Cells :
                ch \in taken[i][y] /\ ch \in taken[j][z] => i = j /\ y = z
      BY Zenon DEF Account, OnePlace
    <2>4. \A y, z \in Cells : ch \in cnt'[y] /\ ch \in cnt'[z] => y = z
      BY <2>1, <2>3, Zenon
    <2>5. \A j \in Ctrls, y, z \in Cells : ~(ch \in cnt'[y] /\ ch \in taken'[j][z])
      BY <2>1, <2>2, <2>3, Zenon
    <2>6. \A i, j \in Ctrls, y, z \in Cells :
             ch \in taken'[i][y] /\ ch \in taken'[j][z] => i = j /\ y = z
      BY <2>2, <2>3
    <2> QED
      BY <1>2, <1>3, <2>4, <2>5, <2>6, Zenon DEF Account, OnePlace
  <1> QED
    BY <1>2, <1>3, <1>4, Zenon DEF Account, NotLost, BookedBound

\* restore: from a controller's hands back to the cell it was taken from.
LEMMA AccountGiveBack ==
  ASSUME TypeInv, NEW ch \in Chunks, Account(ch), NEW k \in Ctrls, NEW x \in Cells,
         GiveBack(k, x), UNCHANGED <<cpc, cchunk, unsent, dropped, billed, lost>>
  PROVE  Account(ch)'
  <1>T. cnt \in [Cells -> SUBSET Chunks] /\ taken \in [Ctrls -> [Cells -> SUBSET Chunks]]
    BY Zenon DEF TypeInv, TypeOK
  <1>1. /\ cnt'[x] = cnt[x] \union taken[k][x] /\ \A y \in Cells \ {x} : cnt'[y] = cnt[y]
        /\ taken'[k][x] = {} /\ \A y \in Cells \ {x} : taken'[k][y] = taken[k][y]
        /\ \A j \in Ctrls \ {k} : taken'[j] = taken[j]
    BY <1>T, Zenon DEF GiveBack
  <1>2. \A p \in Copiers : Carries(p, ch)' <=> Carries(p, ch)
    BY Zenon DEF Carries, Adding
  <1>3. Somewhere(ch)' <=> Somewhere(ch)
    BY <1>1, Zenon DEF Somewhere, Counted, Held
  <1>4. OnePlace(ch)'
    <2>1. \A y \in Cells : ch \in cnt'[y] <=> ch \in cnt[y] \/ (y = x /\ ch \in taken[k][x])
      BY <1>1, Zenon
    <2>2. \A j \in Ctrls, y \in Cells :
             ch \in taken'[j][y] <=> ch \in taken[j][y] /\ ~(j = k /\ y = x)
      BY <1>1, Zenon
    <2>3. /\ \A y, z \in Cells : ch \in cnt[y] /\ ch \in cnt[z] => y = z
          /\ \A j \in Ctrls, y, z \in Cells : ~(ch \in cnt[y] /\ ch \in taken[j][z])
          /\ \A i, j \in Ctrls, y, z \in Cells :
                ch \in taken[i][y] /\ ch \in taken[j][z] => i = j /\ y = z
      BY Zenon DEF Account, OnePlace
    <2>4. \A y, z \in Cells : ch \in cnt'[y] /\ ch \in cnt'[z] => y = z
      BY <2>1, <2>3, Zenon
    <2>5. \A j \in Ctrls, y, z \in Cells : ~(ch \in cnt'[y] /\ ch \in taken'[j][z])
      BY <2>1, <2>2, <2>3, Zenon
    <2>6. \A i, j \in Ctrls, y, z \in Cells :
             ch \in taken'[i][y] /\ ch \in taken'[j][z] => i = j /\ y = z
      BY <2>2, <2>3, Zenon
    <2> QED
      BY <1>2, <1>3, <2>4, <2>5, <2>6, Zenon DEF Account, OnePlace
  <1> QED
    BY <1>2, <1>3, <1>4, Zenon DEF Account, NotLost, BookedBound

\* A report the panel has accepted, or counts that are discarded: the hands are
\* emptied of chunks that are in no other place.
LEMMA AccountHandsOff ==
  ASSUME TypeInv, NEW ch \in Chunks, Account(ch), NEW k \in Ctrls, Discard(k) \/ PostOk(k)
  PROVE  Account(ch)'
  <1>T. /\ taken \in [Ctrls -> [Cells -> SUBSET Chunks]] /\ billed \in [Chunks -> Nat] /\ lost \in Nat
    BY DEF TypeInv, TypeOK
  <1>1. /\ UNCHANGED <<cnt, cpc, cchunk, unsent, lost>>
        /\ \A y \in Cells : taken'[k][y] = {}
        /\ \A j \in Ctrls \ {k} : taken'[j] = taken[j]
    BY <1>T, Zenon DEF Discard, PostOk, EmptyHands, copyVars, statsVars
  <1>2. ch \in InHand(k) <=> Held(k, ch)
    BY Zenon DEF InHand, Held
  <1>3. \/ dropped' = dropped \union InHand(k) /\ billed' = billed
        \/ dropped' = dropped /\ billed'[ch] = IF ch \in InHand(k) THEN billed[ch] + 1 ELSE billed[ch]
    BY Zenon DEF Discard, PostOk, Book
  <1>4. \A p \in Copiers : Carries(p, ch)' <=> Carries(p, ch)
    BY <1>1, Zenon DEF Carries, Adding
  <1>5. OnePlace(ch)'
    <2>1. \A y \in Cells, j \in Ctrls : ch \in taken'[j][y] => ch \in taken[j][y]
      BY <1>1, Zenon
    <2> QED
      BY <1>1, <1>4, <2>1, PlacesShrink, Zenon DEF Account
  <1>6. CASE Held(k, ch)
    <2>1. ~Counted(ch) /\ (\A j \in Ctrls \ {k} : ~Held(j, ch)) /\ Somewhere(ch)
      BY <1>6, Zenon DEF Account, OnePlace, Counted, Held, Somewhere
    <2>2. ch \notin unsent /\ \A p \in Copiers : ~Carries(p, ch)
      BY <2>1, Zenon DEF Account, OnePlace
    <2>3. ~Somewhere(ch)'
      BY <1>1, <2>1, Zenon DEF Somewhere, Counted, Held
    <2>4. billed[ch] <= lost /\ billed[ch] \in Nat
      BY <2>1, <1>T, Zenon DEF Account, BookedBound
    <2>5. BookedBound(ch)'
      <3>1. billed'[ch] = billed[ch] \/ billed'[ch] = billed[ch] + 1
        BY <1>3, Zenon
      <3>2. billed'[ch] <= lost + 1
        BY <3>1, <2>4, <1>T
      <3> QED
        BY <3>2, <1>1, <1>4, <2>2, <2>3, Zenon DEF BookedBound
    <2>6. NotLost(ch)'
      BY <1>2, <1>3, <1>6, <2>4 DEF NotLost
    <2> QED BY <1>5, <2>5, <2>6 DEF Account
  <1>7. CASE ~Held(k, ch)
    <2>1. Somewhere(ch)' <=> Somewhere(ch)
      BY <1>1, <1>7, Zenon DEF Somewhere, Counted, Held
    <2>2. billed'[ch] = billed[ch] /\ (ch \in dropped' <=> ch \in dropped)
      BY <1>2, <1>3, <1>7, Zenon
    <2> QED
      BY <1>1, <1>4, <1>5, <2>1, <2>2, Zenon DEF Account, NotLost, BookedBound
  <1> QED BY <1>6, <1>7

\* A report that failed: the panel may have booked what the controller holds.
LEMMA AccountUnseen ==
  ASSUME TypeInv, NEW ch \in Chunks, Account(ch), NEW k \in Ctrls,
         PostTransportError(k) \/ PostRefused(k)
  PROVE  Account(ch)'
  <1>T. billed \in [Chunks -> Nat] /\ lost \in Nat
    BY DEF TypeInv, TypeOK
  <1>1. UNCHANGED <<cnt, taken, cpc, cchunk, unsent, dropped>> /\ BookUnseen(k)
    BY Zenon DEF PostTransportError, PostRefused, copyVars, statsVars
  <1>2. CASE UNCHANGED <<billed, lost>>
    BY <1>1, <1>2, AccountStays, Zenon DEF Carries, Adding
  <1>3. CASE lost' = lost + 1 /\ Book(k)
    <2>1. /\ \A p \in Copiers : Carries(p, ch)' <=> Carries(p, ch)
          /\ Somewhere(ch)' <=> Somewhere(ch)
          /\ OnePlace(ch)'
      BY <1>1, Zenon DEF Account, OnePlace, Carries, Adding, Somewhere, Counted, Held
    <2>2. billed'[ch] = IF Held(k, ch) THEN billed[ch] + 1 ELSE billed[ch]
      BY <1>3, Zenon DEF Book, InHand, Held
    <2>3. Held(k, ch) => /\ Somewhere(ch) /\ ch \notin unsent
                         /\ \A p \in Copiers : ~Carries(p, ch)
      BY Zenon DEF Account, OnePlace, Somewhere
    <2>4. BookedBound(ch)'
      BY <1>1, <1>3, <1>T, <2>1, <2>2, <2>3 DEF Account, BookedBound
    <2>5. NotLost(ch)'
      BY <1>1, <1>T, <2>1, <2>2 DEF Account, NotLost
    <2> QED BY <2>1, <2>4, <2>5, Zenon DEF Account
  <1> QED BY <1>1, <1>2, <1>3 DEF BookUnseen

LEMMA AccountNext == AccountInv /\ [Next]_vars => AccountInv'
  <1> SUFFICES ASSUME AccountInv, [Next]_vars PROVE AccountInv'
    OBVIOUS
  <1>T. TypeInv /\ HandsOK /\ TypeInv' /\ HandsOK'
    BY TypeNext, HandsNext DEF AccountInv
  <1> SUFFICES ASSUME NEW ch \in Chunks PROVE Account(ch)'
    BY <1>T, Zenon DEF AccountInv
  <1>A. Account(ch)
    BY DEF AccountInv
  <1>C. ASSUME NEW k \in Ctrls, Working(k), NEW d \in Dirs PROVE <<cur[k], d>> \in Cells
    BY <1>C, <1>T, Zenon DEF TypeInv, RefsOK, Allocated, Cells
  <1>1. ASSUME NEW p \in Copiers, AddCount(p) \/ \E b \in Chunks, d \in Dirs : AddMark(p, b, d)
        PROVE  Account(ch)'
    BY <1>1, <1>A, <1>T, AccountAdd, Zenon
  <1>2. ASSUME NEW k \in Ctrls, TakeUp(k) PROVE Account(ch)'
    <2>1. <<cur[k], "up">> \in Cells /\ taken[k][<<cur[k], "up">>] = {}
      BY <1>2, <1>C, <1>T, Zenon DEF TakeUp, Working, HandsOK, HandsOf, Dirs
    <2> QED BY <1>2, <2>1, <1>A, <1>T, AccountSwap, Zenon DEF TakeUp, copyVars, panelVars
  <1>3. ASSUME NEW k \in Ctrls, TakeDown(k) PROVE Account(ch)'
    <2>1. <<cur[k], "down">> \in Cells /\ taken[k][<<cur[k], "down">>] = {}
      BY <1>3, <1>C, <1>T, Zenon DEF TakeDown, Working, HandsOK, HandsOf, Dirs
    <2> QED BY <1>3, <2>1, <1>A, <1>T, AccountSwap, Zenon DEF TakeDown, copyVars, panelVars
  <1>4. ASSUME NEW k \in Ctrls, RestoreUp(k) PROVE Account(ch)'
    <2>1. <<cur[k], "up">> \in Cells
      BY <1>4, <1>C, Zenon DEF RestoreUp, Working, Dirs
    <2> QED BY <1>4, <2>1, <1>A, <1>T, AccountGiveBack, Zenon DEF RestoreUp, copyVars, panelVars
  <1>5. ASSUME NEW k \in Ctrls, RestoreDown(k) PROVE Account(ch)'
    <2>1. <<cur[k], "down">> \in Cells
      BY <1>5, <1>C, Zenon DEF RestoreDown, Working, Dirs
    <2> QED BY <1>5, <2>1, <1>A, <1>T, AccountGiveBack, Zenon DEF RestoreDown, copyVars, panelVars
  <1>6. ASSUME NEW k \in Ctrls, Discard(k) \/ PostOk(k) PROVE Account(ch)'
    BY <1>6, <1>A, <1>T, AccountHandsOff, Zenon
  <1>7. ASSUME NEW k \in Ctrls, PostTransportError(k) \/ PostRefused(k) PROVE Account(ch)'
    BY <1>7, <1>A, <1>T, AccountUnseen
  <1>8. ASSUME NEW p \in Copiers, AddInsert(p) PROVE Account(ch)'
    <2>1. cpc \in [Copiers -> {"idle", "insert", "add"}]
      BY <1>T, Zenon DEF TypeInv, TypeOK
    <2>2. \A q \in Copiers : Carries(q, ch)' <=> Carries(q, ch)
      BY <1>8, <2>1, Zenon DEF AddInsert, Carries, Adding
    <2> QED BY <1>8, <2>2, <1>A, AccountStays, Zenon DEF AddInsert, ctrlVars, panelVars
  <1>9. CASE UNCHANGED <<cpc, cchunk, cnt, taken, unsent, dropped, billed, lost>>
    BY <1>9, <1>A, AccountStays, Zenon DEF Carries, Adding
  <1> QED
    BY <1>1, <1>2, <1>3, <1>4, <1>5, <1>6, <1>7, <1>8, <1>9, ZenonT(60)
       DEF Next, vars, CopierStep, AddStep, ReportStep, PruneStep,
           statsVars, copyVars, ctrlVars, panelVars, Resolve, Hangup, RemoveUser, Delist, Drain,
           Lookup, TakeDirty, NothingToReport, StartReport, RestoreNext, RestoreMark, RestoreInsert

LEMMA AccountAlways == Spec => []AccountInv
  <1>1. Init => AccountInv
    <2> SUFFICES ASSUME Init PROVE AccountInv
      OBVIOUS
    <2>1. \A c \in CIds, d \in Dirs : <<c, d>> \in Cells
      BY DEF Cells
    <2>2. HandsOK
      BY <2>1, Zenon DEF Init, HandsOK, HandsOf, Working
    <2>3. ASSUME NEW ch \in Chunks PROVE Account(ch)
      <3>1. /\ \A x \in Cells : ch \notin cnt[x]
            /\ \A k \in Ctrls, x \in Cells : ch \notin taken[k][x]
            /\ \A p \in Copiers : ~Carries(p, ch)
            /\ ch \in unsent /\ billed[ch] = 0 /\ lost = 0
        BY Zenon DEF Init, Carries, Adding
      <3>2. ~Somewhere(ch)
        BY <3>1, Zenon DEF Somewhere, Counted, Held
      <3>3. OnePlace(ch) /\ NotLost(ch)
        BY <3>1, <3>2, Zenon DEF OnePlace, NotLost
      <3>4. BookedBound(ch)
        <4>1. 0 <= 0 + 1
          OBVIOUS
        <4> QED
          BY <3>1, <3>2, <4>1, Zenon DEF BookedBound
      <3> QED
        BY <3>3, <3>4, Zenon DEF Account
    <2> QED
      BY TypeInit, <2>2, <2>3, Zenon DEF AccountInv
  <1> QED BY <1>1, AccountNext, PTL DEF Spec

\* No byte is counted twice, for any number of users, nodes, connections and
\* chunks, however adds, takes, reports and restores interleave.
THEOREM NeverCountedTwice == Spec => []CountedOnce
  <1>1. AccountInv => CountedOnce
    <2> SUFFICES ASSUME AccountInv PROVE CountedOnce
      OBVIOUS
    <2>T. /\ unsent \subseteq Chunks /\ cnt \in [Cells -> SUBSET Chunks]
          /\ taken \in [Ctrls -> [Cells -> SUBSET Chunks]]
          /\ \A p \in Copiers : Adding(p) => cchunk[p] \in Chunks
      BY Zenon DEF AccountInv, TypeInv, TypeOK, RefsOK
    <2>A. \A ch \in Chunks : OnePlace(ch)
      BY DEF AccountInv, Account
    <2>1. ASSUME NEW p \in Copiers, Adding(p)
          PROVE  /\ cchunk[p] \notin unsent
                 /\ ~Counted(cchunk[p])
                 /\ \A k \in Ctrls : ~Held(k, cchunk[p])
                 /\ \A q \in Copiers \ {p} : Adding(q) => cchunk[q] # cchunk[p]
      <3>1. cchunk[p] \in Chunks /\ Carries(p, cchunk[p])
        BY <2>1, <2>T, Zenon DEF Carries
      <3>2. OnePlace(cchunk[p])
        BY <3>1, <2>A
      <3> QED BY <3>1, <3>2, Zenon DEF OnePlace, Somewhere, Carries
    <2>2. ASSUME NEW x \in Cells
          PROVE  /\ cnt[x] \intersect unsent = {}
                 /\ \A y \in Cells \ {x} : cnt[x] \intersect cnt[y] = {}
      BY <2>A, <2>T, Zenon DEF OnePlace, Somewhere, Counted
    <2>3. ASSUME NEW k \in Ctrls, NEW x \in Cells
          PROVE  /\ taken[k][x] \intersect unsent = {}
                 /\ \A y \in Cells : taken[k][x] \intersect cnt[y] = {}
                 /\ \A j \in Ctrls, y \in Cells :
                       <<j, y>> # <<k, x>> => taken[k][x] \intersect taken[j][y] = {}
      BY <2>A, <2>T DEF OnePlace, Somewhere, Held
    <2> QED BY <2>1, <2>2, <2>3, Zenon DEF CountedOnce
  <1> QED BY <1>1, AccountAlways, PTL

\* No byte disappears before the panel has booked it, or a controller that may
\* not upload has discarded it.
THEOREM NeverLost == Spec => []NoTrafficLost
  <1>1. AccountInv => NoTrafficLost
    BY Zenon DEF AccountInv, Account, NotLost, NoTrafficLost, Somewhere, Carries
  <1> QED BY <1>1, AccountAlways, PTL

\* Every booking of a chunk beyond the first costs a lost reply.
THEOREM BookedOnce == Spec => []BookedOncePerLostReply
  <1>1. AccountInv => BookedOncePerLostReply
    <2> SUFFICES ASSUME AccountInv, NEW ch \in Chunks
                 PROVE  billed[ch] <= IF ch \in unsent \/ Counted(ch) \/ (\E k \in Ctrls : Held(k, ch))
                                      THEN lost ELSE lost + 1
      BY Zenon DEF BookedOncePerLostReply
    <2>1. billed[ch] \in Nat /\ lost \in Nat /\ BookedBound(ch)
      BY DEF AccountInv, Account, TypeInv, TypeOK
    <2> QED BY <2>1 DEF BookedBound, Somewhere
  <1> QED BY <1>1, AccountAlways, PTL
=============================================================================
