----------------------------- MODULE PanelSync ------------------------------
(***************************************************************************)
(* How a node follows its panel: the polling controller                    *)
(* (saas::controller), the conditional GETs of the SSPanel client          *)
(* (saas::sspanel), the inbound it builds (saas::builder) and the listener *)
(* table (saas::inbound_manager).  One controller; every await of the code *)
(* is a step boundary.                                                     *)
(*                                                                         *)
(* What the panel serves (a node response, a user response) and what the   *)
(* client and the builder make of it are left open here; PanelNode defines *)
(* them.  The panel derives an ETag from the content, so an ETag is the    *)
(* response itself.                                                        *)
(***************************************************************************)
EXTENDS Naturals, FiniteSets, Sequences

CONSTANTS
    Sites,       \* deployments: a node's section of the configuration and its panel
    Etags,       \* Sites -> whether the panel sends ETag headers
    Bodies,      \* Sites -> the node responses the panel may serve
    Lists,       \* Sites -> the user responses it may serve
    Confs, UserLists,  \* the values of NodeInfo and of Vec<UserInfo>
    NeedsPort(_, _),   \* (site, body): the port is that of the first user listed
    NodeOf(_, _, _),   \* (site, body, list): what get_node_info parses, or None
    UsersOf(_, _),     \* (site, list): what get_user_list parses
    Builds(_, _, _),   \* (site, conf, users): build_inbound succeeds
    Tags,              \* the node tags
    Port(_), Tag(_),   \* of a NodeInfo: its port, build_node_tag
    MaxChanges,  \* bound on panel edits
    MaxFaults,   \* bound on failed requests
    None         \* Option::None

ASSUME PanelConstants ==
    /\ Etags \in [Sites -> BOOLEAN]
    /\ \A s \in Sites : \A l \in Lists[s] :
          /\ UsersOf(s, l) \in UserLists
          /\ \A b \in Bodies[s] : NodeOf(s, b, l) \in Confs \union {None}
    /\ \A n \in Confs : Tag(n) \in Tags /\ Port(n) \in Nat
    /\ MaxChanges \in Nat /\ MaxFaults \in Nat
    /\ None \notin Confs /\ None \notin UserLists /\ None \notin Tags
    /\ \A s \in Sites : None \notin Bodies[s] /\ None \notin Lists[s]

VARIABLES
    site,                   \* the deployment; never changes
    panelNode, panelUsers,  \* what the panel serves now
    changes, faults,        \* bounded counts of panel edits and failed requests
    etagNode, etagUsers,    \* SspanelClient.etags
    pc,                     \* where the controller is
    body,                   \* get_node_info's: a response that lacks its port
    newNode, newUsers,      \* node_info_monitor's locals
    nodeInfo, nodeTag, userList,  \* Controller fields
    running,                \* InboundManager.running: tag -> handler
    closing                 \* ports whose aborted accept loop is not dropped yet

panelVars == <<site, panelNode, panelUsers, changes>>
ctrlVars  == <<nodeInfo, nodeTag, userList>>
vars == <<site, panelNode, panelUsers, changes, faults, etagNode, etagUsers, pc, body,
          newNode, newUsers, nodeInfo, nodeTag, userList, running, closing>>

\* A live handler: the node, the users it was built with and those it has now.
Handlers == [conf : Confs, first : UserLists, users : UserLists]

Init ==
    /\ site \in Sites
    /\ panelNode \in Bodies[site] /\ panelUsers \in Lists[site]
    /\ changes = 0 /\ faults = 0
    /\ etagNode = None /\ etagUsers = None
    /\ pc = "startNode"
    /\ body = None /\ newNode = None /\ newUsers = None
    /\ nodeInfo = None /\ nodeTag = None /\ userList = None
    /\ running = [t \in Tags |-> None]
    /\ closing = {}

\* An operator edits the node or the user list.
PanelChange ==
    /\ changes < MaxChanges
    /\ changes' = changes + 1
    /\ \/ \E n \in Bodies[site] \ {panelNode} : panelNode' = n /\ UNCHANGED panelUsers
       \/ \E u \in Lists[site] \ {panelUsers} : panelUsers' = u /\ UNCHANGED panelNode
    /\ UNCHANGED <<site, faults, etagNode, etagUsers, pc, body, newNode, newUsers, ctrlVars, running, closing>>

-----------------------------------------------------------------------------
(* InboundManager.                                                         *)

\* A listening socket exists on port p.
Listening(p) == p \in closing \/ \E t \in Tags : running[t] # None /\ Port(running[t].conf) = p

\* InboundManager::add succeeds: no inbound has the tag and bind succeeds.
CanAdd(n) == running[Tag(n)] = None /\ ~Listening(Port(n))

\* InboundManager::remove: forget the inbound, cancel its token, abort its
\* tasks.  The listener goes when the runtime drops the aborted task.
Remove(t) ==
    IF t # None /\ running[t] # None
    THEN /\ running' = [running EXCEPT ![t] = None]
         /\ closing' = closing \union {Port(running[t].conf)}
    ELSE UNCHANGED <<running, closing>>

ListenerDropped ==
    /\ \E p \in closing : closing' = closing \ {p}
    /\ UNCHANGED <<panelVars, faults, etagNode, etagUsers, pc, body, newNode, newUsers, ctrlVars, running>>

\* A fresh inbound for n with the users u, under its tag.
Added(n, u) == [running EXCEPT ![Tag(n)] = [conf |-> n, first |-> u, users |-> u]]

-----------------------------------------------------------------------------
(* The conditional GETs: newNode, newUsers are None for 304.               *)

\* set_etag ignores a missing header.
Remember(etag, value) == IF Etags[site] THEN value ELSE etag

\* The response is parsed, which may fail.
Parsed(b, ok, failed) ==
    LET n == NodeOf(site, b, panelUsers) IN newNode' = n /\ pc' = IF n = None THEN failed ELSE ok

GetNode(ok, port, failed) ==
    \/ \* 304 Not Modified
       /\ etagNode = panelNode
       /\ newNode' = None /\ pc' = ok
       /\ UNCHANGED <<etagNode, faults, body>>
    \/ \* 200 with a body that decodes
       /\ etagNode # panelNode
       /\ etagNode' = Remember(etagNode, panelNode)
       /\ IF NeedsPort(site, panelNode) THEN body' = panelNode /\ newNode' = None /\ pc' = port
          ELSE Parsed(panelNode, ok, failed) /\ UNCHANGED body
       /\ UNCHANGED faults
    \/ \* no response after the retries
       /\ faults < MaxFaults /\ faults' = faults + 1
       /\ newNode' = None /\ pc' = failed
       /\ UNCHANGED <<etagNode, body>>
    \/ \* the ETag is stored, then the body cannot be read or decoded
       /\ faults < MaxFaults /\ faults' = faults + 1
       /\ etagNode # panelNode
       /\ etagNode' = Remember(etagNode, panelNode)
       /\ newNode' = None /\ pc' = failed
       /\ UNCHANGED body

\* fetch_first_user_port: an unconditional GET of the user list.
GetPort(ok, failed) ==
    /\ body' = None
    /\ \/ Parsed(body, ok, failed) /\ UNCHANGED faults
       \/ faults < MaxFaults /\ faults' = faults + 1 /\ newNode' = None /\ pc' = failed

GetUsers(ok, failed) ==
    \/ /\ etagUsers = panelUsers
       /\ newUsers' = None /\ pc' = ok
       /\ UNCHANGED <<etagUsers, faults, newNode>>
    \/ /\ etagUsers # panelUsers
       /\ etagUsers' = Remember(etagUsers, panelUsers)
       /\ newUsers' = UsersOf(site, panelUsers) /\ pc' = ok
       /\ UNCHANGED <<faults, newNode>>
    \/ /\ faults < MaxFaults /\ faults' = faults + 1
       /\ newUsers' = None /\ newNode' = None /\ pc' = failed
       /\ UNCHANGED etagUsers
    \/ /\ faults < MaxFaults /\ faults' = faults + 1
       /\ etagUsers # panelUsers
       /\ etagUsers' = Remember(etagUsers, panelUsers)
       /\ newUsers' = None /\ newNode' = None /\ pc' = failed

-----------------------------------------------------------------------------
(* Controller::start.  An error ends the process (panel::run).             *)

StartNode ==
    /\ pc = "startNode"
    /\ GetNode("startUsers", "startPort", "dead")
    /\ UNCHANGED <<panelVars, etagUsers, newUsers, ctrlVars, running, closing>>

StartPort ==
    /\ pc = "startPort"
    /\ GetPort("startUsers", "dead")
    /\ UNCHANGED <<panelVars, etagNode, etagUsers, newUsers, ctrlVars, running, closing>>

StartUsers ==
    /\ pc = "startUsers"
    /\ IF newNode = None \/ Port(newNode) = 0
       THEN pc' = "dead" /\ UNCHANGED <<etagUsers, newNode, newUsers, faults>>
       ELSE GetUsers("startBind", "dead")
    /\ UNCHANGED <<panelVars, etagNode, body, ctrlVars, running, closing>>

StartBind ==
    /\ pc = "startBind"
    /\ IF Builds(site, newNode, newUsers) /\ CanAdd(newNode)
       THEN /\ running' = Added(newNode, newUsers)
            /\ nodeTag' = Tag(newNode) /\ nodeInfo' = newNode /\ userList' = newUsers
            /\ pc' = "sleep"
       ELSE pc' = "dead" /\ UNCHANGED <<running, ctrlVars>>
    /\ newNode' = None /\ newUsers' = None
    /\ UNCHANGED <<panelVars, faults, etagNode, etagUsers, body, closing>>

-----------------------------------------------------------------------------
(* Controller::run and node_info_monitor.                                  *)

\* The interval (at least one second) passes; an aborted task is dropped
\* well within it.
Tick ==
    /\ pc = "sleep" /\ closing = {}
    /\ pc' = "getNode"
    /\ UNCHANGED <<panelVars, faults, etagNode, etagUsers, body, newNode, newUsers, ctrlVars, running, closing>>

\* The shutdown token, seen only between two ticks.
Shutdown ==
    /\ pc = "sleep"
    /\ Remove(nodeTag)
    /\ pc' = "stopped"
    /\ UNCHANGED <<panelVars, faults, etagNode, etagUsers, body, newNode, newUsers, ctrlVars>>

FetchNode ==
    /\ pc = "getNode"
    /\ GetNode("getUsers", "getPort", "sleep")
    /\ UNCHANGED <<panelVars, etagUsers, newUsers, ctrlVars, running, closing>>

FetchPort ==
    /\ pc = "getPort"
    /\ GetPort("getUsers", "sleep")
    /\ UNCHANGED <<panelVars, etagNode, etagUsers, newUsers, ctrlVars, running, closing>>

FetchUsers ==
    /\ pc = "getUsers"
    /\ GetUsers("decide", "sleep")
    /\ UNCHANGED <<panelVars, etagNode, body, ctrlVars, running, closing>>

\* Mutant: only the port is compared.
PortChanged == newNode # None /\ Port(newNode) # Port(nodeInfo)

NodeChanged == newNode # None /\ newNode # nodeInfo

EndTick == pc' = "sleep" /\ newNode' = None /\ newUsers' = None

\* Port 0 is ignored.
IgnorePortZero ==
    /\ pc = "decide" /\ NodeChanged /\ Port(newNode) = 0
    /\ EndTick
    /\ UNCHANGED <<panelVars, faults, etagNode, etagUsers, body, ctrlVars, running, closing>>

\* Mutant: the old inbound is not unbound before the rebuild.
KeepOld ==
    /\ pc = "decide" /\ NodeChanged /\ Port(newNode) # 0
    /\ newUsers' = IF newUsers = None THEN userList ELSE newUsers
    /\ pc' = "rebuild"
    /\ UNCHANGED <<panelVars, faults, etagNode, etagUsers, body, newNode, ctrlVars, running, closing>>

\* The node changed: unbind the old inbound, then (after prune_all_stats,
\* which awaits) build and bind the new one.
RemoveOld ==
    /\ pc = "decide" /\ NodeChanged /\ Port(newNode) # 0
    /\ Remove(nodeTag)
    /\ newUsers' = IF newUsers = None THEN userList ELSE newUsers
    /\ pc' = "rebuild"
    /\ UNCHANGED <<panelVars, faults, etagNode, etagUsers, body, newNode, ctrlVars>>

Rebuild ==
    /\ pc = "rebuild"
    /\ IF Builds(site, newNode, newUsers) /\ CanAdd(newNode)
       THEN /\ running' = Added(newNode, newUsers)
            /\ nodeTag' = Tag(newNode) /\ nodeInfo' = newNode /\ userList' = newUsers
       ELSE UNCHANGED <<running, ctrlVars>>
    /\ EndTick
    /\ UNCHANGED <<panelVars, faults, etagNode, etagUsers, body, closing>>

\* users_differ: the order does not matter.
UsersDiffer(old, new) ==
    Len(old) # Len(new) \/ \E i \in DOMAIN new : \A j \in DOMAIN old : new[i] # old[j]

\* Only the users changed, or nothing did.  An absent handler leaves
\* everything alone; for a handler the builder made, apply_users succeeds.
UsersApply == newUsers # None /\ UsersDiffer(userList, newUsers) /\ running[nodeTag] # None

SkipUsers ==
    /\ pc = "decide" /\ ~NodeChanged /\ ~UsersApply
    /\ EndTick
    /\ UNCHANGED <<panelVars, faults, etagNode, etagUsers, body, ctrlVars, running, closing>>

\* apply_users swaps the live handler's table; prune_removed_stats awaits
\* before the controller records the list.
ApplyUsers ==
    /\ pc = "decide" /\ ~NodeChanged /\ UsersApply
    /\ running' = [running EXCEPT ![nodeTag].users = newUsers]
    /\ pc' = "synced"
    /\ UNCHANGED <<panelVars, faults, etagNode, etagUsers, body, newNode, newUsers, ctrlVars, closing>>

\* Mutant: the applied list is not recorded.
ForgetUsers ==
    /\ pc = "synced"
    /\ EndTick
    /\ UNCHANGED <<panelVars, faults, etagNode, etagUsers, body, ctrlVars, running, closing>>

RecordUsers ==
    /\ pc = "synced"
    /\ userList' = newUsers
    /\ EndTick
    /\ UNCHANGED <<panelVars, faults, etagNode, etagUsers, body, nodeInfo, nodeTag, running, closing>>

-----------------------------------------------------------------------------
ControllerStep ==
    \/ StartNode \/ StartPort \/ StartUsers \/ StartBind
    \/ Tick \/ FetchNode \/ FetchPort \/ FetchUsers
    \/ IgnorePortZero \/ RemoveOld \/ Rebuild
    \/ SkipUsers \/ ApplyUsers \/ RecordUsers

Next == ControllerStep \/ PanelChange \/ ListenerDropped \/ Shutdown

Spec == Init /\ [][Next]_vars

\* The controller keeps polling and the runtime drops aborted tasks.
FairSpec == Spec /\ WF_vars(ControllerStep) /\ WF_vars(ListenerDropped)

-----------------------------------------------------------------------------
(* Properties.                                                             *)

\* The types of the panel's, the client's and the controller's state.
TypeOK ==
    /\ site \in Sites
    /\ panelNode \in Bodies[site] /\ panelUsers \in Lists[site]
    /\ changes \in 0..MaxChanges /\ faults \in 0..MaxFaults
    /\ etagNode \in Bodies[site] \union {None} /\ etagUsers \in Lists[site] \union {None}
    /\ pc \in {"startNode", "startPort", "startUsers", "startBind", "dead", "sleep", "stopped",
               "getNode", "getPort", "getUsers", "decide", "rebuild", "synced"}
    /\ body \in Bodies[site] \union {None}
    /\ newNode \in Confs \union {None} /\ newUsers \in UserLists \union {None}
    /\ nodeInfo \in Confs \union {None} /\ nodeTag \in Tags \union {None}
    /\ userList \in UserLists \union {None}
    /\ running \in [Tags -> Handlers \union {None}]
    /\ closing \subseteq Nat

\* The controller's record of its node never drifts from what is served: when
\* it sleeps, a live inbound under its tag runs the recorded configuration
\* and admits exactly the recorded users, whatever failed in between.
ViewMatchesHandler ==
    pc = "sleep" /\ running[nodeTag] # None =>
        running[nodeTag].conf = nodeInfo /\ running[nodeTag].users = userList

\* No listener leaks: every live inbound is the one under the controller's
\* tag, so the next rebuild or the shutdown unbinds it; none outlives the
\* controller.
NoLeakedInbound ==
    \A t \in Tags : running[t] # None => t = nodeTag /\ pc \notin {"dead", "stopped"}

PanelConf == NodeOf(site, panelNode, panelUsers)
InSync ==
    \E t \in Tags : /\ running[t] # None /\ running[t].conf = PanelConf
                     /\ ~UsersDiffer(running[t].users, UsersOf(site, panelUsers))

\* The panel serves something that does not parse, or build_inbound rejects.
Unservable ==
    \/ PanelConf = None \/ Port(PanelConf) = 0
    \/ ~Builds(site, PanelConf, UsersOf(site, panelUsers))
\* The client remembers an ETag the controller has not applied: every later
\* poll is answered 304.  A node whose port is that of its first user is
\* unmodified even when that port is another.
Hidden ==
    /\ nodeInfo # None
    /\ \/ etagNode = panelNode /\ nodeInfo # PanelConf
       \/ etagUsers = panelUsers /\ UsersDiffer(userList, UsersOf(site, panelUsers))
\* A failed rebuild left no inbound, and the panel is back at the recorded
\* node, which the controller takes for unchanged.
Reverted == nodeInfo # None /\ nodeInfo = PanelConf /\ running[nodeTag] = None

\* Polling repairs every failure but three kinds: once the panel stops
\* changing, the node ends up serving the panel's configuration and users,
\* unless it was stopped, or they cannot be served, or their ETag was stored
\* without being applied (get_json stores it first), or the panel went back
\* to the node whose rebuild had failed.  Lost answers, same-port rebuilds
\* and rejected edits are otherwise made good by a later poll.
ConvergesOrStuck ==
    <>[](InSync \/ pc \in {"stopped", "dead"} \/ Unservable \/ Hidden \/ Reverted)

\* "Poll node info + user list; rebuild the inbound on node change, swap the
\* user table on user change": once the panel stops changing, the node ends up
\* serving the panel's configuration and users (unless it is shut down).
Converges == <>[](InSync \/ pc \in {"stopped", "dead"})
=============================================================================
