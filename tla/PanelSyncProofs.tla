-------------------------- MODULE PanelSyncProofs ---------------------------
(***************************************************************************)
(* Proofs about PanelSync for every deployment, whatever the client makes  *)
(* of the panel's responses and the builder of the result, and every bound *)
(* on panel edits and failed requests.                                     *)
(***************************************************************************)
EXTENDS PanelSync, TLAPS

Starting == {"startNode", "startPort", "startUsers", "startBind"}
Ended == {"dead", "stopped"}
Serving == {"sleep", "getNode", "getPort", "getUsers", "decide", "rebuild", "synced", "stopped"}

\* Every live inbound is the recorded one, with the recorded users -- or, in
\* the window between apply_users and the assignment of user_list, the new.
LiveIsRecorded ==
    \A t \in Tags : running[t] # None =>
        /\ t = nodeTag
        /\ pc \notin Starting \union Ended \union {"rebuild"}
        /\ running[t] \in Handlers /\ running[t].conf = nodeInfo
        /\ running[t].users = IF pc = "synced" THEN newUsers ELSE userList

\* What the controller holds at each point of its program.
LocalsOK ==
    /\ pc \in {"startNode", "startPort", "startUsers"} => etagUsers = None
    /\ pc \in {"startPort", "getPort"} => body \in Bodies[site]
    /\ pc \in Serving => nodeTag \in Tags /\ nodeInfo \in Confs /\ userList \in UserLists
    /\ pc \in {"startBind", "rebuild"} => newNode \in Confs
    /\ pc \in {"startBind", "rebuild", "synced"} => newUsers \in UserLists

Inv == TypeOK /\ LiveIsRecorded /\ LocalsOK

\* The invariant holds before Controller::start.
LEMMA InvInit == Init => Inv
  BY PanelConstants DEF Init, Inv, TypeOK, LiveIsRecorded, LocalsOK, Starting, Ended, Serving,
     Handlers

\* InboundManager::remove on the controller's own tag leaves nothing running.
LEMMA RemoveAll ==
  ASSUME Inv, Remove(nodeTag), nodeTag \in Tags
  PROVE  /\ running' \in [Tags -> Handlers \union {None}]
         /\ \A t \in Tags : running'[t] = None
         /\ closing' \subseteq Nat
  <1>1. CASE running[nodeTag] # None
    <2>1. running[nodeTag] \in Handlers
      BY <1>1 DEF Inv, TypeOK
    <2>2. Port(running[nodeTag].conf) \in Nat
      BY <2>1, PanelConstants DEF Handlers
    <2> QED
      BY <1>1, <2>2, PanelConstants DEF Remove, Inv, TypeOK, LiveIsRecorded
  <1>2. CASE running[nodeTag] = None
    BY <1>2, PanelConstants DEF Remove, Inv, TypeOK, LiveIsRecorded
  <1> QED
    BY <1>1, <1>2

\* InboundManager::add of a built inbound when nothing is running.
LEMMA AddOne ==
  ASSUME Inv, NEW n \in Confs, NEW u \in UserLists, \A t \in Tags : running[t] = None,
         running' = Added(n, u)
  PROVE  /\ running' \in [Tags -> Handlers \union {None}]
         /\ \A t \in Tags : running'[t] # None =>
               /\ t = Tag(n) /\ running'[t] \in Handlers
               /\ running'[t].conf = n /\ running'[t].users = u
         /\ Tag(n) \in Tags
  <1>1. Tag(n) \in Tags
    BY PanelConstants
  <1>2. [conf |-> n, first |-> u, users |-> u] \in Handlers
    BY DEF Handlers
  <1> QED
    BY <1>1, <1>2 DEF Inv, TypeOK, Added

\* Every step of the controller, the panel and the runtime keeps the invariant.
LEMMA InvNext == Inv /\ [Next]_vars => Inv'
  <1> SUFFICES ASSUME Inv, [Next]_vars PROVE Inv'
    OBVIOUS
  <1> USE DEF Starting, Ended, Serving
  <1>1. CASE StartNode
    BY <1>1, PanelConstants DEF StartNode, GetNode, Parsed, Remember, Inv, TypeOK, LiveIsRecorded, LocalsOK, panelVars, ctrlVars
  <1>2. CASE StartUsers
    BY <1>2, PanelConstants DEF StartUsers, GetUsers, Remember, Inv, TypeOK, LiveIsRecorded, LocalsOK, panelVars, ctrlVars
  <1>3. CASE StartBind
    <2> USE <1>3 DEF StartBind, panelVars, ctrlVars
    <2>0. newNode \in Confs /\ newUsers \in UserLists /\ \A t \in Tags : running[t] = None
      BY DEF Inv, LiveIsRecorded, LocalsOK
    <2>1. CASE Builds(site, newNode, newUsers) /\ CanAdd(newNode)
      <3>1. /\ running' \in [Tags -> Handlers \union {None}]
            /\ \A t \in Tags : running'[t] # None =>
                  /\ t = Tag(newNode) /\ running'[t] \in Handlers
                  /\ running'[t].conf = newNode /\ running'[t].users = newUsers
            /\ Tag(newNode) \in Tags
        BY <2>0, <2>1, AddOne
      <3> QED
        BY <2>0, <2>1, <3>1, PanelConstants DEF Inv, TypeOK, LiveIsRecorded, LocalsOK
    <2>2. CASE ~(Builds(site, newNode, newUsers) /\ CanAdd(newNode))
      BY <2>0, <2>2 DEF Inv, TypeOK, LiveIsRecorded, LocalsOK
    <2> QED
      BY <2>1, <2>2
  <1>4. CASE Tick
    BY <1>4 DEF Tick, Inv, TypeOK, LiveIsRecorded, LocalsOK, panelVars, ctrlVars
  <1>5. CASE FetchNode
    BY <1>5, PanelConstants DEF FetchNode, GetNode, Parsed, Remember, Inv, TypeOK, LiveIsRecorded, LocalsOK, panelVars, ctrlVars
  <1>6. CASE FetchUsers
    BY <1>6, PanelConstants DEF FetchUsers, GetUsers, Remember, Inv, TypeOK, LiveIsRecorded, LocalsOK, panelVars, ctrlVars
  <1>7. CASE IgnorePortZero
    BY <1>7 DEF IgnorePortZero, EndTick, Inv, TypeOK, LiveIsRecorded, LocalsOK, panelVars, ctrlVars
  <1>8. CASE RemoveOld
    <2>1. nodeTag \in Tags
      BY <1>8 DEF RemoveOld, Inv, LocalsOK
    <2>2. Remove(nodeTag)
      BY <1>8 DEF RemoveOld
    <2>3. /\ running' \in [Tags -> Handlers \union {None}]
          /\ \A t \in Tags : running'[t] = None
          /\ closing' \subseteq Nat
      BY <2>1, <2>2, RemoveAll
    <2>4. newNode \in Confs
      BY <1>8 DEF RemoveOld, NodeChanged, Inv, TypeOK
    <2> QED
      BY <1>8, <2>1, <2>3, <2>4 DEF RemoveOld, Inv, TypeOK, LiveIsRecorded, LocalsOK, panelVars, ctrlVars
  <1>9. CASE Rebuild
    <2> USE <1>9 DEF Rebuild, EndTick, panelVars, ctrlVars
    <2>0. newNode \in Confs /\ newUsers \in UserLists /\ \A t \in Tags : running[t] = None
      BY DEF Inv, LiveIsRecorded, LocalsOK
    <2>1. CASE Builds(site, newNode, newUsers) /\ CanAdd(newNode)
      <3>1. /\ running' \in [Tags -> Handlers \union {None}]
            /\ \A t \in Tags : running'[t] # None =>
                  /\ t = Tag(newNode) /\ running'[t] \in Handlers
                  /\ running'[t].conf = newNode /\ running'[t].users = newUsers
            /\ Tag(newNode) \in Tags
        BY <2>0, <2>1, AddOne
      <3> QED
        BY <2>0, <2>1, <3>1, PanelConstants DEF Inv, TypeOK, LiveIsRecorded, LocalsOK
    <2>2. CASE ~(Builds(site, newNode, newUsers) /\ CanAdd(newNode))
      BY <2>0, <2>2 DEF Inv, TypeOK, LiveIsRecorded, LocalsOK
    <2> QED
      BY <2>1, <2>2
  <1>10. CASE SkipUsers
    BY <1>10 DEF SkipUsers, EndTick, Inv, TypeOK, LiveIsRecorded, LocalsOK, panelVars, ctrlVars
  <1>11. CASE ApplyUsers
    <2> USE <1>11 DEF ApplyUsers, UsersApply, panelVars, ctrlVars
    <2>1. /\ nodeTag \in Tags /\ newUsers \in UserLists /\ nodeInfo \in Confs
          /\ running[nodeTag] \in Handlers /\ running[nodeTag].conf = nodeInfo
      BY DEF Inv, TypeOK, LiveIsRecorded, LocalsOK
    <2>2. /\ running'[nodeTag] \in Handlers
          /\ running'[nodeTag].conf = nodeInfo /\ running'[nodeTag].users = newUsers
      BY <2>1 DEF Inv, TypeOK, Handlers
    <2>3. running' \in [Tags -> Handlers \union {None}] /\ \A t \in Tags \ {nodeTag} : running'[t] = running[t]
      BY <2>1, <2>2 DEF Inv, TypeOK, Handlers
    <2> QED
      BY <2>1, <2>2, <2>3 DEF Inv, TypeOK, LiveIsRecorded, LocalsOK
  <1>12. CASE RecordUsers
    BY <1>12 DEF RecordUsers, EndTick, Inv, TypeOK, LiveIsRecorded, LocalsOK, panelVars
  <1>13. CASE PanelChange
    BY <1>13, PanelConstants DEF PanelChange, Inv, TypeOK, LiveIsRecorded, LocalsOK, ctrlVars
  <1>14. CASE ListenerDropped
    BY <1>14 DEF ListenerDropped, Inv, TypeOK, LiveIsRecorded, LocalsOK, panelVars, ctrlVars
  <1>15. CASE Shutdown
    <2>1. nodeTag \in Tags /\ Remove(nodeTag)
      BY <1>15 DEF Shutdown, Inv, LocalsOK
    <2>2. /\ running' \in [Tags -> Handlers \union {None}]
          /\ \A t \in Tags : running'[t] = None
          /\ closing' \subseteq Nat
      BY <2>1, RemoveAll
    <2> QED
      BY <1>15, <2>2 DEF Shutdown, Inv, TypeOK, LiveIsRecorded, LocalsOK, panelVars, ctrlVars
  <1>16. CASE UNCHANGED vars
    BY <1>16 DEF vars, Inv, TypeOK, LiveIsRecorded, LocalsOK
  <1>17. CASE StartPort
    BY <1>17, PanelConstants DEF StartPort, GetPort, Parsed, Inv, TypeOK, LiveIsRecorded, LocalsOK, panelVars, ctrlVars
  <1>18. CASE FetchPort
    BY <1>18, PanelConstants DEF FetchPort, GetPort, Parsed, Inv, TypeOK, LiveIsRecorded, LocalsOK, panelVars, ctrlVars
  <1> QED
    BY <1>1, <1>2, <1>3, <1>4, <1>5, <1>6, <1>7, <1>8, <1>9, <1>10, <1>11, <1>12, <1>13, <1>14,
       <1>15, <1>16, <1>17, <1>18 DEF Next, ControllerStep

\* The invariant holds in every behaviour.
LEMMA InvAlways == Spec => []Inv
  BY InvInit, InvNext, PTL DEF Spec

\* The types of PanelSync, for every instance.
THEOREM PanelTypes == Spec => []TypeOK
  <1>1. Inv => TypeOK
    BY DEF Inv
  <1> QED
    BY <1>1, InvAlways, PTL

\* Controller::node_info_monitor: the controller's record of its node never
\* drifts from the inbound it serves, through every failed poll and rebuild.
THEOREM ViewAgrees == Spec => []ViewMatchesHandler
  <1>1. Inv => ViewMatchesHandler
    BY DEF Inv, LiveIsRecorded, LocalsOK, ViewMatchesHandler, Serving
  <1> QED
    BY <1>1, InvAlways, PTL

\* InboundManager: no inbound is left running that the controller does not
\* know of, and none outlives it.
THEOREM NothingLeaks == Spec => []NoLeakedInbound
  <1>1. Inv => NoLeakedInbound
    BY DEF Inv, LiveIsRecorded, NoLeakedInbound, Ended
  <1> QED
    BY <1>1, InvAlways, PTL
=============================================================================
