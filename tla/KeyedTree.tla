----------------------------- MODULE KeyedTree ------------------------------
(***************************************************************************)
(* The hot-swappable service tree of kernel::runtime::service: a KeyedTree *)
(* of Nodes, each publishing its service over a watch channel (SwapHandle) *)
(* to the SwappableService clones that consumers poll and call.            *)
(*                                                                         *)
(* The service built from a configuration is identified with it.  The      *)
(* owner's reconcile and the consumers' polls interleave between any two   *)
(* watch sends; reconcile itself holds &mut self, so it never overlaps     *)
(* another owner operation.                                                *)
(***************************************************************************)
EXTENDS Naturals, FiniteSets

CONSTANTS
    Keys, Configs, Consumers,
    MaxChans,     \* watch channels that may be created, one per Node::new
    Policies,     \* the UpdatePolicy values to explore: "abort", "drain"
    MaxReconciles,
    None

Updating == "updating"  \* Slot::Updating; any other slot value is Slot::Ready

Chans == 1..MaxChans  \* in the order of creation

ASSUME TreeConstants ==
    /\ Policies \subseteq {"abort", "drain"} /\ MaxReconciles \in Nat /\ MaxChans \in Nat
    /\ None \notin Configs /\ Updating \notin Configs /\ None \notin Chans

VARIABLES
    policy,     \* the tree's UpdatePolicy
    chan,       \* Keys -> the channel of the key's node, or None
    config,     \* Keys -> Node.config (None without a node)
    slot,       \* Chans -> the value in the watch
    ver,        \* Chans -> its version
    open,       \* channels whose sender is alive
    gen,        \* Chans -> generation of the handle's current token
    cancelled,  \* <<channel, generation>> tokens that have been cancelled
    used,       \* channels created so far
    \* the owner's reconcile
    opc,        \* "idle", "next", "send"
    goal,       \* the configs of the reconcile under way, or the last one
    todo,       \* its keys still to visit
    key,        \* the key being reconfigured
    rounds,
    \* the consumers
    cchan,      \* the channel subscribed to
    cver,       \* the version last seen (0: nothing yet)
    ready,      \* SwappableService.ready
    cpc         \* "none", "idle", "ready" (poll_ready returned Ready), "busy"

nodeVars  == <<policy, chan, config, slot, ver, open, gen, cancelled, used>>
ownerVars == <<opc, goal, todo, key, rounds>>
consVars  == <<cchan, cver, ready, cpc>>
vars == <<policy, chan, config, slot, ver, open, gen, cancelled, used,
          opc, goal, todo, key, rounds, cchan, cver, ready, cpc>>

Init ==
    /\ policy \in Policies
    /\ chan = [k \in Keys |-> None] /\ config = [k \in Keys |-> None]
    /\ slot = [h \in Chans |-> Updating] /\ ver = [h \in Chans |-> 0]
    /\ open = {} /\ gen = [h \in Chans |-> 0] /\ cancelled = {} /\ used = {}
    /\ opc = "idle" /\ goal = [k \in Keys |-> None] /\ todo = {} /\ key = None /\ rounds = 0
    /\ cchan = [c \in Consumers |-> None] /\ cver = [c \in Consumers |-> 0]
    /\ ready = [c \in Consumers |-> None] /\ cpc = [c \in Consumers |-> "none"]

Live(k) == chan[k] # None

-----------------------------------------------------------------------------
(* The owner.                                                              *)

\* reconcile is called with a new config map.
Reconcile ==
    /\ opc = "idle" /\ rounds < MaxReconciles
    /\ \E g \in [Keys -> Configs \union {None}] :
          goal' = g /\ todo' = {k \in Keys : g[k] # None}
    /\ rounds' = rounds + 1
    /\ opc' = "next"
    /\ UNCHANGED <<nodeVars, key, consVars>>

\* Node::reconfigure: no change, the subtree is left untouched.
KeepNode(k) ==
    /\ opc = "next" /\ k \in todo /\ Live(k) /\ config[k] = goal[k]
    /\ todo' = todo \ {k}
    /\ UNCHANGED <<nodeVars, opc, goal, key, rounds, consVars>>

\* Mutant: every node of the new map is swapped, changed or not.
SwapAlways(k) ==
    /\ opc = "next" /\ k \in todo /\ Live(k)
    /\ config' = [config EXCEPT ![k] = goal[k]]
    /\ slot' = [slot EXCEPT ![chan[k]] = Updating]
    /\ ver' = [ver EXCEPT ![chan[k]] = @ + 1]
    /\ todo' = todo \ {k} /\ key' = k /\ opc' = "send"
    /\ UNCHANGED <<policy, chan, open, gen, cancelled, used, goal, rounds, consVars>>

\* Node::reconfigure + SwapHandle::update up to its first send.  The tree
\* itself holds a receiver (services), so the send cannot fail.
SwapNode(k) ==
    /\ opc = "next" /\ k \in todo /\ Live(k) /\ config[k] # goal[k]
    /\ config' = [config EXCEPT ![k] = goal[k]]
    /\ slot' = [slot EXCEPT ![chan[k]] = Updating]
    /\ ver' = [ver EXCEPT ![chan[k]] = @ + 1]
    /\ todo' = todo \ {k} /\ key' = k /\ opc' = "send"
    /\ UNCHANGED <<policy, chan, open, gen, cancelled, used, goal, rounds, consVars>>

\* Mutant: the old generation's token is never cancelled.
PublishNoAbort ==
    /\ opc = "send"
    /\ UNCHANGED cancelled
    /\ gen' = [gen EXCEPT ![chan[key]] = @ + 1]
    /\ slot' = [slot EXCEPT ![chan[key]] = config[key]]
    /\ ver' = [ver EXCEPT ![chan[key]] = @ + 1]
    /\ opc' = "next" /\ key' = None
    /\ UNCHANGED <<policy, chan, config, open, used, goal, todo, rounds, consVars>>

\* Mutant: the second send is missing, the node stays not ready.
PublishNothing ==
    /\ opc = "send"
    /\ cancelled' = IF policy = "abort" THEN cancelled \union {<<chan[key], gen[chan[key]]>>} ELSE cancelled
    /\ gen' = [gen EXCEPT ![chan[key]] = @ + 1]
    /\ opc' = "next" /\ key' = None
    /\ UNCHANGED <<policy, chan, config, slot, ver, open, used, goal, todo, rounds, consVars>>

\* Mutant: the new service is stored without a change notification.
PublishSilent ==
    /\ opc = "send"
    /\ cancelled' = IF policy = "abort" THEN cancelled \union {<<chan[key], gen[chan[key]]>>} ELSE cancelled
    /\ gen' = [gen EXCEPT ![chan[key]] = @ + 1]
    /\ slot' = [slot EXCEPT ![chan[key]] = config[key]]
    /\ opc' = "next" /\ key' = None
    /\ UNCHANGED <<policy, chan, config, ver, open, used, goal, todo, rounds, consVars>>

\* The rest of SwapHandle::update: abort, roll the token, publish.
Publish ==
    /\ opc = "send"
    /\ cancelled' = IF policy = "abort" THEN cancelled \union {<<chan[key], gen[chan[key]]>>} ELSE cancelled
    /\ gen' = [gen EXCEPT ![chan[key]] = @ + 1]
    /\ slot' = [slot EXCEPT ![chan[key]] = config[key]]
    /\ ver' = [ver EXCEPT ![chan[key]] = @ + 1]
    /\ opc' = "next" /\ key' = None
    /\ UNCHANGED <<policy, chan, config, open, used, goal, todo, rounds, consVars>>

\* A new key: Node::new with a fresh channel seeded with the service.
AddNode(k) ==
    /\ opc = "next" /\ k \in todo /\ ~Live(k)
    /\ \E h \in Chans :
          /\ h = Cardinality(used) + 1
          /\ chan' = [chan EXCEPT ![k] = h]
          /\ slot' = [slot EXCEPT ![h] = goal[k]]
          /\ ver' = [ver EXCEPT ![h] = 1]
          /\ open' = open \union {h} /\ used' = used \union {h}
    /\ config' = [config EXCEPT ![k] = goal[k]]
    /\ todo' = todo \ {k}
    /\ UNCHANGED <<policy, gen, cancelled, opc, goal, key, rounds, consVars>>

\* Every listed key is done: drop the nodes of the others.
DropStale ==
    /\ opc = "next" /\ todo = {}
    /\ LET stale == {k \in Keys : Live(k) /\ goal[k] = None} IN
          /\ chan' = [k \in Keys |-> IF k \in stale THEN None ELSE chan[k]]
          /\ config' = [k \in Keys |-> IF k \in stale THEN None ELSE config[k]]
          /\ open' = open \ {chan[k] : k \in stale}
    /\ opc' = "idle"
    /\ UNCHANGED <<policy, slot, ver, gen, cancelled, used, goal, todo, key, rounds, consVars>>

-----------------------------------------------------------------------------
(* The consumers.                                                          *)

\* KeyedTree::service: a clone re-subscribes, so its stream yields the
\* current value first.
Subscribe(c, k) ==
    /\ cpc[c] = "none" /\ opc = "idle" /\ Live(k)
    /\ cchan' = [cchan EXCEPT ![c] = chan[k]]
    /\ cver' = [cver EXCEPT ![c] = 0]
    /\ cpc' = [cpc EXCEPT ![c] = "idle"]
    /\ UNCHANGED <<nodeVars, ownerVars, ready>>

Unsubscribe(c) ==
    /\ cpc[c] = "idle"
    /\ cchan' = [cchan EXCEPT ![c] = None]
    /\ ready' = [ready EXCEPT ![c] = None]
    /\ cpc' = [cpc EXCEPT ![c] = "none"]
    /\ UNCHANGED <<nodeVars, ownerVars, cver>>

\* The service poll_ready holds after draining the watch.
Drained(c) ==
    IF cver[c] = ver[cchan[c]] THEN ready[c]
    ELSE IF slot[cchan[c]] = Updating THEN None ELSE slot[cchan[c]]

\* poll_ready: Ready if it holds a service, else Pending.
PollReady(c) ==
    /\ cpc[c] = "idle"
    /\ ready' = [ready EXCEPT ![c] = Drained(c)]
    /\ cver' = [cver EXCEPT ![c] = ver[cchan[c]]]
    /\ cpc' = [cpc EXCEPT ![c] = IF Drained(c) = None THEN "idle" ELSE "ready"]
    /\ UNCHANGED <<nodeVars, ownerVars, cchan>>

Call(c) ==
    /\ cpc[c] = "ready"
    /\ cpc' = [cpc EXCEPT ![c] = "busy"]
    /\ UNCHANGED <<nodeVars, ownerVars, cchan, cver, ready>>

Return(c) ==
    /\ cpc[c] = "busy"
    /\ cpc' = [cpc EXCEPT ![c] = "idle"]
    /\ UNCHANGED <<nodeVars, ownerVars, cchan, cver, ready>>

-----------------------------------------------------------------------------
ReconcileStep == (\E k \in Keys : KeepNode(k) \/ SwapNode(k) \/ AddNode(k)) \/ Publish \/ DropStale
ServeStep(c) == PollReady(c) \/ Call(c) \/ Return(c)

Next ==
    \/ Reconcile \/ ReconcileStep
    \/ \E c \in Consumers : ServeStep(c) \/ Unsubscribe(c) \/ \E k \in Keys : Subscribe(c, k)

Spec == Init /\ [][Next]_vars

\* A reconcile that has begun is synchronous code and ends; consumers keep polling.
FairSpec == Spec /\ WF_vars(ReconcileStep) /\ \A c \in Consumers : WF_vars(ServeStep(c))

-----------------------------------------------------------------------------
(* Properties.                                                             *)

\* The types of the nodes, channels, reconcile and consumers.
TypeOK ==
    /\ policy \in Policies
    /\ chan \in [Keys -> Chans \union {None}] /\ config \in [Keys -> Configs \union {None}]
    /\ slot \in [Chans -> Configs \union {Updating}] /\ ver \in [Chans -> Nat]
    /\ open \subseteq used /\ used \subseteq Chans
    /\ gen \in [Chans -> Nat] /\ cancelled \subseteq Chans \X Nat
    /\ opc \in {"idle", "next", "send"} /\ goal \in [Keys -> Configs \union {None}]
    /\ todo \subseteq Keys /\ key \in Keys \union {None} /\ rounds \in 0..MaxReconciles
    /\ cchan \in [Consumers -> Chans \union {None}] /\ cver \in [Consumers -> Nat]
    /\ ready \in [Consumers -> Configs \union {None}]
    /\ cpc \in [Consumers -> {"none", "idle", "ready", "busy"}]

\* After a reconcile the tree is exactly the requested map: a node for every
\* key of it and no other, each node publishing the service of its own
\* configuration, none left in the not-ready window, no channel shared.
TreeMatchesGoal ==
    opc = "idle" =>
        /\ \A k \in Keys :
              /\ config[k] = goal[k]
              /\ Live(k) = (goal[k] # None)
              /\ Live(k) => slot[chan[k]] = config[k] /\ chan[k] \in open
        /\ \A j, k \in Keys : j # k /\ Live(j) => chan[j] # chan[k]
        /\ Cardinality(open) = Cardinality({k \in Keys : Live(k)})

\* The key keeps its node, and the node's watch is not touched.
Undisturbed(k) ==
    chan'[k] = chan[k] /\ ver'[chan[k]] = ver[chan[k]] /\ slot'[chan[k]] = slot[chan[k]]

\* "unchanged keys keep serving uninterrupted": while a key's configuration
\* stays what it was, no step of a reconcile touches its channel.
UnchangedUndisturbed ==
    [][\A k \in Keys : Live(k) /\ opc = "next" /\ goal[k] = config[k] => Undisturbed(k)]_vars

\* Abort cancels every outgoing generation by the time the next one is
\* published, and neither policy ever cancels the live one.
TokensFollowPolicy ==
    /\ \A h \in used : <<h, gen[h]>> \notin cancelled
    /\ policy = "abort" => \A h \in used : \A g \in 0..(gen[h] - 1) : <<h, g>> \in cancelled

\* A consumer that keeps polling a live key ends up on the key's latest
\* service: it is never left on an old one or in the not-ready window.
ConsumersCatchUp ==
    \A c \in Consumers, k \in Keys :
        (cpc[c] # "none" /\ cchan[c] = chan[k])
            ~> (cpc[c] = "none" \/ cchan[c] # chan[k] \/ (ready[c] = config[k] /\ opc = "idle"))
=============================================================================
