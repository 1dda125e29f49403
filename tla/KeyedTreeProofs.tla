-------------------------- MODULE KeyedTreeProofs ---------------------------
(***************************************************************************)
(* For any keys, configurations, consumers and bounds: after a reconcile   *)
(* the tree is exactly the requested map, an unchanged key is left alone,  *)
(* and the tokens of the generations follow the update policy.  The        *)
(* invariant ties each live key to a channel of its own, the keys already  *)
(* visited to their goal, and a channel that was never used to generation  *)
(* 0 with no cancelled token.                                              *)
(***************************************************************************)
EXTENDS KeyedTree, FiniteSetTheorems, TLAPS

Shapes ==
    /\ policy \in Policies
    /\ chan \in [Keys -> Chans \union {None}] /\ config \in [Keys -> Configs \union {None}]
    /\ slot \in [Chans -> Configs \union {Updating}] /\ ver \in [Chans -> Nat]
    /\ gen \in [Chans -> Nat] /\ cancelled \subseteq Chans \X Nat
    /\ opc \in {"idle", "next", "send"} /\ goal \in [Keys -> Configs \union {None}]
    /\ todo \subseteq Keys /\ key \in Keys \union {None}

\* Channels are numbered in the order of creation.
Numbered == /\ used \subseteq Chans /\ IsFiniteSet(used) /\ Cardinality(used) \in Nat
            /\ used = 1..Cardinality(used)

\* The node of a key: it exists iff the key has a configuration, and its
\* channel is open and publishes the service, but for a swap under way.
NodeOf(k) ==
    /\ Live(k) <=> config[k] # None
    /\ Live(k) => chan[k] \in used
    /\ Live(k) /\ ~(opc = "send" /\ key = k) => slot[chan[k]] = config[k]
    /\ k \in todo => goal[k] # None
    /\ opc = "idle" => config[k] = goal[k]
    /\ goal[k] # None /\ k \notin todo => Live(k) /\ config[k] = goal[k]
    /\ opc = "send" /\ key = k => Live(k)

OwnChannels == \A j, k \in Keys : Live(j) /\ Live(k) /\ chan[j] = chan[k] => j = k

OpenChannels == open = {chan[k] : k \in {j \in Keys : Live(j)}}

\* The tokens of channel h.
TokensOf(h) ==
    /\ h \notin used => gen[h] = 0
    /\ \A g \in Nat : <<h, g>> \in cancelled => h \in used /\ g < gen[h]
    /\ policy = "abort" => \A g \in Nat : g < gen[h] => <<h, g>> \in cancelled

TreeInv ==
    /\ Shapes /\ Numbered /\ OwnChannels /\ OpenChannels
    /\ opc = "send" => key \in Keys
    /\ \A k \in Keys : NodeOf(k)
    /\ \A h \in Chans : TokensOf(h)

-----------------------------------------------------------------------------
(* The steps.                                                              *)

\* The steps of the consumers leave the tree alone.
LEMMA InvQuiet ==
  ASSUME TreeInv, UNCHANGED <<nodeVars, ownerVars>>
  PROVE  TreeInv'
  <1>1. Shapes' /\ Numbered' /\ OwnChannels' /\ OpenChannels' /\ (opc = "send" => key \in Keys)'
    BY DEF TreeInv, Shapes, Numbered, OwnChannels, OpenChannels, Live, nodeVars, ownerVars
  <1>2. ASSUME NEW k \in Keys PROVE NodeOf(k)'
    BY DEF TreeInv, NodeOf, Live, nodeVars, ownerVars
  <1>3. ASSUME NEW h \in Chans PROVE TokensOf(h)'
    BY DEF TreeInv, TokensOf, nodeVars
  <1> QED
    BY <1>1, <1>2, <1>3 DEF TreeInv

LEMMA InvReconcile ==
  ASSUME TreeInv, Reconcile
  PROVE  TreeInv'
  <1>1. PICK g \in [Keys -> Configs \union {None}] : goal' = g /\ todo' = {k \in Keys : g[k] # None}
    BY DEF Reconcile
  <1>2. opc = "idle" /\ opc' = "next" /\ UNCHANGED <<nodeVars, key>>
    BY DEF Reconcile
  <1>3. Shapes' /\ Numbered' /\ OwnChannels' /\ OpenChannels'
    BY <1>1, <1>2 DEF TreeInv, Shapes, Numbered, OwnChannels, OpenChannels, Live, nodeVars
  <1>4. ASSUME NEW k \in Keys PROVE NodeOf(k)'
    BY <1>1, <1>2 DEF TreeInv, NodeOf, Live, nodeVars
  <1>5. ASSUME NEW h \in Chans PROVE TokensOf(h)'
    BY <1>2 DEF TreeInv, TokensOf, nodeVars
  <1> QED
    BY <1>2, <1>3, <1>4, <1>5 DEF TreeInv

LEMMA InvKeep ==
  ASSUME TreeInv, NEW k \in Keys, KeepNode(k)
  PROVE  TreeInv'
  <1>1. /\ opc = "next" /\ Live(k) /\ config[k] = goal[k] /\ todo' = todo \ {k}
        /\ UNCHANGED <<nodeVars, opc, goal, key>>
    BY DEF KeepNode
  <1>2. Shapes' /\ Numbered' /\ OwnChannels' /\ OpenChannels'
    BY <1>1 DEF TreeInv, Shapes, Numbered, OwnChannels, OpenChannels, Live, nodeVars
  <1>3. ASSUME NEW j \in Keys PROVE NodeOf(j)'
    BY <1>1 DEF TreeInv, NodeOf, Live, nodeVars
  <1>4. ASSUME NEW h \in Chans PROVE TokensOf(h)'
    BY <1>1 DEF TreeInv, TokensOf, nodeVars
  <1> QED
    BY <1>1, <1>2, <1>3, <1>4 DEF TreeInv

\* Swapping a node touches its own channel only.
LEMMA InvSwap ==
  ASSUME TreeInv, NEW k \in Keys, SwapNode(k)
  PROVE  TreeInv'
  <1>S. Shapes /\ OwnChannels /\ NodeOf(k)
    BY DEF TreeInv
  <1>1. /\ opc = "next" /\ k \in todo /\ Live(k) /\ opc' = "send" /\ key' = k /\ todo' = todo \ {k}
        /\ config' = [config EXCEPT ![k] = goal[k]]
        /\ slot' = [slot EXCEPT ![chan[k]] = Updating]
        /\ ver' = [ver EXCEPT ![chan[k]] = ver[chan[k]] + 1]
        /\ UNCHANGED <<policy, chan, open, gen, cancelled, used, goal>>
    BY DEF SwapNode
  <1>2. goal[k] \in Configs /\ chan[k] \in Chans
    BY <1>1, <1>S DEF Shapes, NodeOf, Live
  <1>3. Shapes'
    BY <1>1, <1>2, <1>S DEF Shapes
  <1>4. Numbered' /\ OwnChannels' /\ OpenChannels'
    BY <1>1 DEF TreeInv, Numbered, OwnChannels, OpenChannels, Live
  <1>5. ASSUME NEW j \in Keys PROVE NodeOf(j)'
    <2>1. CASE j = k
      <3>1. config'[k] = goal[k] /\ goal[k] # None
        BY <1>1, <1>2, <1>S, TreeConstants DEF Shapes
      <3> QED
        BY <2>1, <3>1, <1>1, <1>S DEF NodeOf, Live
    <2>2. CASE j # k
      <3>1. NodeOf(j) /\ config'[j] = config[j]
        BY <2>2, <1>1, <1>S DEF TreeInv, Shapes
      <3>2. Live(j) => slot'[chan[j]] = slot[chan[j]]
        BY <2>2, <1>1, <1>S DEF OwnChannels, Shapes, Live
      <3> QED
        BY <2>2, <3>1, <3>2, <1>1 DEF NodeOf, Live
    <2> QED
      BY <2>1, <2>2
  <1>6. ASSUME NEW h \in Chans PROVE TokensOf(h)'
    BY <1>1 DEF TreeInv, TokensOf
  <1> QED
    BY <1>1, <1>3, <1>4, <1>5, <1>6 DEF TreeInv

\* The outgoing generation's token is cancelled if the policy says so, and the
\* next generation is the live one.
LEMMA InvPublish ==
  ASSUME TreeInv, Publish
  PROVE  TreeInv'
  <1> DEFINE c == chan[key]
  <1>S. Shapes /\ OwnChannels
    BY DEF TreeInv
  <1>1. /\ opc = "send" /\ opc' = "next" /\ key' = None
        /\ cancelled' = IF policy = "abort" THEN cancelled \union {<<c, gen[c]>>} ELSE cancelled
        /\ gen' = [gen EXCEPT ![c] = gen[c] + 1]
        /\ slot' = [slot EXCEPT ![c] = config[key]]
        /\ ver' = [ver EXCEPT ![c] = ver[c] + 1]
        /\ UNCHANGED <<policy, chan, config, open, used, goal, todo>>
    BY DEF Publish
  <1>2. key \in Keys /\ NodeOf(key) /\ Live(key)
    BY <1>1 DEF TreeInv, NodeOf
  <1>3. c \in used /\ c \in Chans /\ config[key] \in Configs
    BY <1>2, <1>S DEF NodeOf, Shapes, Live
  <1> HIDE DEF c
  <1>4. gen[c] \in Nat /\ ver[c] \in Nat
    BY <1>3, <1>S DEF Shapes
  <1>5. Shapes'
    <2>1. gen' \in [Chans -> Nat] /\ ver' \in [Chans -> Nat]
      <3>1. gen[c] + 1 \in Nat /\ ver[c] + 1 \in Nat
        BY <1>4
      <3> QED
        BY <3>1, <1>1, <1>S, Zenon DEF Shapes
    <2>2. slot' \in [Chans -> Configs \union {Updating}] /\ cancelled' \subseteq Chans \X Nat
      BY <1>1, <1>3, <1>4, <1>S DEF Shapes
    <2> QED
      BY <2>1, <2>2, <1>1, <1>S DEF Shapes
  <1>6. Numbered' /\ OwnChannels' /\ OpenChannels'
    BY <1>1 DEF TreeInv, Numbered, OwnChannels, OpenChannels, Live
  <1>7. ASSUME NEW j \in Keys PROVE NodeOf(j)'
    <2>N. NodeOf(j)
      BY DEF TreeInv
    <2>1. Live(j) => slot'[chan[j]] = config[j]
      <3>1. CASE j = key
        BY <3>1, <1>1, <1>3, <1>S DEF Shapes, c
      <3>2. CASE j # key
        <4>1. Live(j) => chan[j] # c /\ chan[j] \in Chans
          BY <3>2, <1>2, <1>S DEF OwnChannels, Shapes, Live, c
        <4> QED
          BY <3>2, <4>1, <2>N, <1>1, <1>S DEF NodeOf, Shapes
      <3> QED
        BY <3>1, <3>2
    <2> QED
      BY <2>N, <2>1, <1>1 DEF NodeOf, Live
  <1>8. ASSUME NEW h \in Chans PROVE TokensOf(h)'
    <2>T. TokensOf(h)
      BY DEF TreeInv
    <2>1. CASE h # c
      <3>1. gen'[h] = gen[h] /\ \A g \in Nat : <<h, g>> \in cancelled' <=> <<h, g>> \in cancelled
        BY <2>1, <1>1, <1>S DEF Shapes
      <3> QED
        BY <3>1, <2>T, <1>1 DEF TokensOf
    <2>2. CASE h = c
      <3>1. gen'[h] = gen[h] + 1 /\ gen[h] \in Nat /\ h \in used
        BY <2>2, <1>1, <1>3, <1>4, <1>S DEF Shapes
      <3>2. ASSUME NEW g \in Nat, <<h, g>> \in cancelled' PROVE g < gen'[h]
        <4>1. <<h, g>> \in cancelled \/ g = gen[h]
          BY <3>2, <2>2, <1>1
        <4>2. g < gen[h] \/ g = gen[h]
          BY <4>1, <2>T DEF TokensOf
        <4> QED
          BY <4>2, <3>1
      <3>3. ASSUME policy = "abort", NEW g \in Nat, g < gen'[h] PROVE <<h, g>> \in cancelled'
        <4>1. g < gen[h] \/ g = gen[h]
          BY <3>1, <3>3
        <4>2. g < gen[h] => <<h, g>> \in cancelled
          BY <2>T, <3>3 DEF TokensOf
        <4> QED
          BY <4>1, <4>2, <3>3, <2>2, <1>1
      <3> QED
        BY <3>1, <3>2, <3>3, <1>1 DEF TokensOf
    <2> QED
      BY <2>1, <2>2
  <1> QED
    BY <1>1, <1>5, <1>6, <1>7, <1>8 DEF TreeInv

\* A new node's channel is one that was never used.
LEMMA InvAdd ==
  ASSUME TreeInv, NEW k \in Keys, AddNode(k)
  PROVE  TreeInv'
  <1>S. Shapes /\ Numbered /\ OwnChannels /\ OpenChannels /\ NodeOf(k)
    BY DEF TreeInv
  <1>1. PICK h \in Chans : /\ h = Cardinality(used) + 1
                           /\ chan' = [chan EXCEPT ![k] = h]
                           /\ slot' = [slot EXCEPT ![h] = goal[k]]
                           /\ ver' = [ver EXCEPT ![h] = 1]
                           /\ open' = open \union {h} /\ used' = used \union {h}
    BY Zenon DEF AddNode
  <1>2. /\ opc = "next" /\ k \in todo /\ ~Live(k) /\ config' = [config EXCEPT ![k] = goal[k]]
        /\ todo' = todo \ {k} /\ UNCHANGED <<policy, gen, cancelled, opc, goal, key>>
    BY DEF AddNode
  <1>3. h \notin used
    BY <1>1, <1>S DEF Numbered
  <1>4. goal[k] \in Configs /\ goal[k] # None /\ h # None
    BY <1>1, <1>2, <1>S, TreeConstants DEF Shapes, NodeOf
  <1>5. Shapes'
    <2>1. /\ chan' \in [Keys -> Chans \union {None}] /\ slot' \in [Chans -> Configs \union {Updating}]
          /\ ver' \in [Chans -> Nat] /\ config' \in [Keys -> Configs \union {None}]
      BY <1>1, <1>2, <1>4, <1>S DEF Shapes
    <2> QED
      BY <2>1, <1>2, <1>S DEF Shapes
  <1>6. Numbered'
    <2>1. IsFiniteSet(used') /\ Cardinality(used') = Cardinality(used) + 1
      BY <1>1, <1>3, <1>S, FS_AddElement DEF Numbered
    <2>2. \A n \in Nat : 1..(n + 1) = (1..n) \union {n + 1}
      OBVIOUS
    <2>3. used' = 1..(Cardinality(used) + 1)
      BY <1>1, <1>S, <2>2 DEF Numbered
    <2> QED
      BY <2>1, <2>3, <1>1, <1>S DEF Numbered
  <1>7. /\ chan'[k] = h /\ \A j \in Keys \ {k} : chan'[j] = chan[j] /\ config'[j] = config[j]
        /\ config'[k] = goal[k] /\ slot'[h] = goal[k] /\ \A g \in used : slot'[g] = slot[g]
    <2>1. used \subseteq Chans \ {h}
      BY <1>3, <1>S DEF Numbered
    <2> QED
      BY <2>1, <1>1, <1>2, <1>S DEF Shapes
  <1>8. \A j \in Keys : Live(j) => chan[j] \in used
    BY DEF TreeInv, NodeOf
  <1>9. OwnChannels'
    BY <1>3, <1>7, <1>8, <1>S DEF OwnChannels, Live
  <1>10. OpenChannels'
    <2>1. {j \in Keys : Live(j)'} = {j \in Keys : Live(j)} \union {k}
      BY <1>4, <1>7 DEF Live
    <2>2. \A j \in Keys : Live(j) => chan'[j] = chan[j]
      BY <1>2, <1>7
    <2> QED
      BY <2>1, <2>2, <1>1, <1>7, <1>S DEF OpenChannels
  <1>11. ASSUME NEW j \in Keys PROVE NodeOf(j)'
    <2>1. CASE j = k
      BY <2>1, <1>1, <1>2, <1>4, <1>7 DEF NodeOf, Live
    <2>2. CASE j # k
      <3>1. NodeOf(j)
        BY DEF TreeInv
      <3> QED
        BY <2>2, <3>1, <1>1, <1>2, <1>7 DEF NodeOf, Live
    <2> QED
      BY <2>1, <2>2
  <1>12. ASSUME NEW g \in Chans PROVE TokensOf(g)'
    BY <1>1, <1>2 DEF TreeInv, TokensOf
  <1> QED
    BY <1>2, <1>5, <1>6, <1>9, <1>10, <1>11, <1>12 DEF TreeInv

\* The nodes of the keys that the new map does not have are dropped.
LEMMA InvDrop ==
  ASSUME TreeInv, DropStale
  PROVE  TreeInv'
  <1> DEFINE stale == {k \in Keys : Live(k) /\ goal[k] = None}
  <1>S. Shapes /\ Numbered /\ OwnChannels /\ OpenChannels
    BY DEF TreeInv
  <1>1. /\ opc = "next" /\ todo = {} /\ opc' = "idle"
        /\ chan' = [k \in Keys |-> IF k \in stale THEN None ELSE chan[k]]
        /\ config' = [k \in Keys |-> IF k \in stale THEN None ELSE config[k]]
        /\ open' = open \ {chan[k] : k \in stale}
        /\ UNCHANGED <<policy, slot, ver, gen, cancelled, used, goal, todo, key>>
    BY DEF DropStale
  <1>2. \A k \in Keys : Live(k)' <=> Live(k) /\ k \notin stale
    BY <1>1 DEF Live
  <1>3. \A k \in Keys : Live(k)' => chan'[k] = chan[k] /\ config'[k] = config[k]
    BY <1>1, <1>2
  <1>4. Shapes'
    BY <1>1, <1>S DEF Shapes
  <1>5. Numbered' /\ OwnChannels'
    BY <1>1, <1>2, <1>3, <1>S DEF Numbered, OwnChannels
  <1>6. OpenChannels'
    <2>1. ASSUME NEW x \in open' PROVE \E k \in Keys : Live(k)' /\ x = chan'[k]
      BY <2>1, <1>1, <1>2, <1>3, <1>S DEF OpenChannels
    <2>2. ASSUME NEW k \in Keys, Live(k)' PROVE chan'[k] \in open'
      <3>1. Live(k) /\ k \notin stale /\ chan'[k] = chan[k]
        BY <2>2, <1>2, <1>3
      <3>2. chan[k] \notin {chan[j] : j \in stale}
        BY <3>1, <1>S DEF OwnChannels
      <3> QED
        BY <3>1, <3>2, <1>1, <1>S DEF OpenChannels
    <2> QED
      BY <2>1, <2>2 DEF OpenChannels
  <1>7. ASSUME NEW k \in Keys PROVE NodeOf(k)'
    <2>1. NodeOf(k)
      BY DEF TreeInv
    <2>2. config'[k] = goal[k]
      BY <2>1, <1>1 DEF NodeOf
    <2>3. config'[k] = IF k \in stale THEN None ELSE config[k]
      BY <1>1
    <2> QED
      BY <2>1, <2>2, <2>3, <1>1, <1>2, <1>3, Zenon DEF NodeOf
  <1>8. ASSUME NEW h \in Chans PROVE TokensOf(h)'
    BY <1>1 DEF TreeInv, TokensOf
  <1> QED
    BY <1>1, <1>4, <1>5, <1>6, <1>7, <1>8 DEF TreeInv

LEMMA InvNext == TreeInv /\ [Next]_vars => TreeInv'
  <1> SUFFICES ASSUME TreeInv, [Next]_vars PROVE TreeInv'
    OBVIOUS
  <1>1. ASSUME NEW c \in Consumers,
               ServeStep(c) \/ Unsubscribe(c) \/ \E k \in Keys : Subscribe(c, k)
        PROVE  UNCHANGED <<nodeVars, ownerVars>>
    BY <1>1 DEF ServeStep, PollReady, Call, Return, Unsubscribe, Subscribe
  <1>2. CASE UNCHANGED vars
    BY <1>2, InvQuiet DEF vars, nodeVars, ownerVars
  <1> QED
    BY <1>1, <1>2, InvQuiet, InvReconcile, InvKeep, InvSwap, InvPublish, InvAdd, InvDrop
       DEF Next, ReconcileStep

LEMMA InvInit == Init => TreeInv
  <1> SUFFICES ASSUME Init PROVE TreeInv
    OBVIOUS
  <1>1. Shapes /\ OwnChannels /\ OpenChannels
    BY DEF Init, Shapes, OwnChannels, OpenChannels, Live
  <1>2. Numbered
    BY FS_EmptySet DEF Init, Numbered
  <1>3. ASSUME NEW k \in Keys PROVE NodeOf(k)
    BY DEF Init, NodeOf, Live
  <1>4. ASSUME NEW h \in Chans PROVE TokensOf(h)
    BY DEF Init, TokensOf
  <1> QED
    BY <1>1, <1>2, <1>3, <1>4 DEF Init, TreeInv

LEMMA TreeAlways == Spec => []TreeInv
  BY InvInit, InvNext, PTL DEF Spec
-----------------------------------------------------------------------------
(* The theorems.                                                           *)

\* As many channels are open as keys are live.
LEMMA OneChannelPerKey ==
  ASSUME TreeInv
  PROVE  Cardinality(open) = Cardinality({k \in Keys : Live(k)})
  <1> DEFINE live == {k \in Keys : Live(k)}
             f == [k \in live |-> chan[k]]
  <1>1. open = {chan[k] : k \in live} /\ OwnChannels /\ Numbered
    BY DEF TreeInv, OpenChannels
  <1>2. open \subseteq used
    BY <1>1 DEF TreeInv, NodeOf
  <1>3. IsFiniteSet(open)
    BY <1>1, <1>2, FS_Subset DEF Numbered
  <1>4. f \in Injection(live, open)
    BY <1>1 DEF Injection, IsInjective, OwnChannels
  <1>5. f \in Surjection(live, open)
    BY <1>1 DEF Surjection
  <1> HIDE DEF f, live
  <1>6. Cardinality(live) = Cardinality(open)
    BY <1>3, <1>4, <1>5, FS_Injection
  <1> QED
    BY <1>6 DEF live

\* Once KeyedTree::reconcile has returned, the tree is exactly the map it
\* was given, whatever sequence of maps came before: a node for each of its
\* keys and no other, each publishing the service of its own configuration
\* over a channel of its own.
THEOREM TreeIsTheGoal == Spec => []TreeMatchesGoal
  <1>1. TreeInv => TreeMatchesGoal
    <2> SUFFICES ASSUME TreeInv, opc = "idle" PROVE TreeMatchesGoal
      BY DEF TreeMatchesGoal
    <2>1. ASSUME NEW k \in Keys
          PROVE  /\ config[k] = goal[k]
                 /\ Live(k) = (goal[k] # None)
                 /\ Live(k) => slot[chan[k]] = config[k] /\ chan[k] \in open
      <3>1. NodeOf(k) /\ OpenChannels
        BY DEF TreeInv
      <3> QED
        BY <3>1 DEF NodeOf, OpenChannels, Live
    <2>2. \A j, k \in Keys : j # k /\ Live(j) => chan[j] # chan[k]
      BY DEF TreeInv, OwnChannels, Live
    <2> QED
      BY <2>1, <2>2, OneChannelPerKey DEF TreeMatchesGoal
  <1> QED
    BY <1>1, TreeAlways, PTL

\* SwapHandle::update under the abort policy cancels the token of every
\* generation it replaces, and under no policy is the token of the service
\* now published ever cancelled.
THEOREM TokensAsPolicy == Spec => []TokensFollowPolicy
  <1>1. TreeInv => TokensFollowPolicy
    <2> SUFFICES ASSUME TreeInv PROVE TokensFollowPolicy
      OBVIOUS
    <2>1. ASSUME NEW h \in used
          PROVE  /\ <<h, gen[h]>> \notin cancelled
                 /\ policy = "abort" => \A g \in 0..(gen[h] - 1) : <<h, g>> \in cancelled
      <3>1. h \in Chans /\ gen[h] \in Nat /\ TokensOf(h)
        BY DEF TreeInv, Numbered, Shapes
      <3>2. \A n \in Nat : ~(n < n) /\ \A g \in 0..(n - 1) : g \in Nat /\ g < n
        OBVIOUS
      <3> QED
        BY <3>1, <3>2, Zenon DEF TokensOf
    <2> QED
      BY <2>1, Zenon DEF TokensFollowPolicy
  <1> QED
    BY <1>1, TreeAlways, PTL

\* A reconcile whose map keeps a key's configuration leaves the key's node
\* alone throughout: its channel, what the channel publishes and the version
\* consumers compare with are those from before, whatever happens to the
\* other keys meanwhile.
THEOREM KeepsServing == Spec => UnchangedUndisturbed
  <1> DEFINE Kept == \A k \in Keys : Live(k) /\ opc = "next" /\ goal[k] = config[k] => Undisturbed(k)
  <1>1. TreeInv /\ [Next]_vars => [Kept]_vars
    <2> SUFFICES ASSUME TreeInv, Next, NEW k \in Keys, Live(k), opc = "next", goal[k] = config[k]
                 PROVE  Undisturbed(k)
      BY DEF Kept
    <2>S. Shapes /\ Numbered /\ OwnChannels /\ NodeOf(k) /\ chan[k] \in used /\ chan[k] \in Chans
      BY DEF TreeInv, NodeOf, Numbered
    <2>1. CASE UNCHANGED nodeVars
      BY <2>1 DEF Undisturbed, nodeVars
    <2>2. ASSUME NEW j \in Keys, SwapNode(j) PROVE Undisturbed(k)
      <3>1. Live(j) /\ config[j] # goal[j] /\ chan' = chan
            /\ slot' = [slot EXCEPT ![chan[j]] = Updating] /\ ver' = [ver EXCEPT ![chan[j]] = @ + 1]
        BY <2>2 DEF SwapNode
      <3>2. chan[j] # chan[k]
        BY <3>1, <2>S DEF OwnChannels
      <3> QED
        BY <3>1, <3>2, <2>S DEF Undisturbed, Shapes
    <2>3. ASSUME NEW j \in Keys, AddNode(j) PROVE Undisturbed(k)
      <3>1. ~Live(j) /\ chan' = [chan EXCEPT ![j] = Cardinality(used) + 1]
            /\ slot' = [slot EXCEPT ![Cardinality(used) + 1] = goal[j]]
            /\ ver' = [ver EXCEPT ![Cardinality(used) + 1] = 1]
        BY <2>3 DEF AddNode
      <3>2. j # k /\ chan[k] # Cardinality(used) + 1
        BY <3>1, <2>S DEF Numbered
      <3> QED
        BY <3>1, <3>2, <2>S DEF Undisturbed, Shapes
    <2>4. CASE DropStale
      <3>1. goal[k] # None
        BY <2>S DEF NodeOf
      <3> QED
        BY <3>1, <2>4, <2>S DEF DropStale, Undisturbed, Shapes
    <2>5. ~Publish
      BY DEF Publish
    <2>6. CASE Reconcile \/ \E j \in Keys : KeepNode(j)
      BY <2>1, <2>6 DEF Reconcile, KeepNode
    <2>7. ASSUME NEW c \in Consumers,
                 ServeStep(c) \/ Unsubscribe(c) \/ \E j \in Keys : Subscribe(c, j)
          PROVE  UNCHANGED nodeVars
      BY <2>7 DEF ServeStep, PollReady, Call, Return, Unsubscribe, Subscribe
    <2> QED
      BY <2>1, <2>2, <2>3, <2>4, <2>5, <2>6, <2>7, Zenon DEF Next, ReconcileStep
  <1> QED
    BY <1>1, TreeAlways, PTL DEF Spec, UnchangedUndisturbed
=============================================================================
