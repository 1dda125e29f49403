------------------------------ MODULE Routing -------------------------------
(***************************************************************************)
(* The routing engine (kernel::route) and the egress dispatch              *)
(* (kernel::runtime::tree::OutboundDispatch): a first-match rule table,    *)
(* its condition matchers, the per-rule load balancers and the resolution  *)
(* of a decision to an outbound.                                           *)
(*                                                                         *)
(* A domain is a sequence of one-character strings, an address a sequence  *)
(* of octets of OctetBits bits.  A flow is routed in one step: the table   *)
(* is immutable and the only shared write is one atomic fetch_add.         *)
(***************************************************************************)
EXTENDS Naturals, Sequences, FiniteSets

CONSTANTS
    OctetBits,    \* bits of an octet (8 in the code)
    Uses,         \* names of the deployments to explore; the next four are
                  \* functions of the deployment
    Tables,       \* its rule tables: sets of sequences of rules
    Queries,      \* its flows: sets of [host, ip, sniffed, port, hash]
    Geo,          \* its GeoMatcher: [site : {<<tag, domain>>}, ip : {<<tag, ip>>}]
    MaxFlows,     \* bound on routed flows
    Outbounds,    \* the OutboundList: tag -> kind of outbound
    FreedomTag,   \* the tag of the default branch
    CursorBits,   \* width of the round-robin cursor (usize)
    None

\* A table and the tags of a rule are sequences; the cursor has a value.
ASSUME RoutingConstants ==
    /\ OctetBits \in Nat \ {0} /\ CursorBits \in Nat /\ 2^CursorBits \in Nat \ {0}
    /\ MaxFlows \in [Uses -> Nat]
    /\ \A u \in Uses : \A t \in Tables[u] :
          /\ Len(t) \in Nat /\ DOMAIN t = 1..Len(t)
          /\ \A r \in DOMAIN t :
                /\ Len(t[r].outs) \in Nat /\ DOMAIN t[r].outs = 1..Len(t[r].outs)
                /\ t[r].mode \in {"random", "roundRobin", "userAuthHash"}
    /\ \A u \in Uses : \A q \in Queries[u] : q.hash \in Nat \union {None}

VARIABLES
    use,      \* the deployment
    table,    \* RouteTable.rules
    outbounds, freedomTag, \* OutboundDispatch
    cursor,   \* rule index -> LoadBalancer.cursor
    wraps,    \* rule index -> how often the cursor has wrapped
    picks,    \* rule index -> index -> flows sent there
    flows,    \* flows routed
    query,    \* the flow just routed
    decision, \* its RouteDecision
    sink      \* where OutboundDispatch sent it: a tag, or None (link dropped)

config == <<use, table, outbounds, freedomTag>>
vars == <<config, cursor, wraps, picks, flows, query, decision, sink>>

-----------------------------------------------------------------------------
(* Matchers.                                                               *)

LowerChar(c) == CASE c = "A" -> "a" [] c = "B" -> "b" [] OTHER -> c
Lower(d) == [i \in DOMAIN d |-> LowerChar(d[i])]

\* domain_suffix_match: equal, or the byte before the tail is a dot.
DomainSuffixMatch(d, suffix) ==
    \/ Lower(d) = Lower(suffix)
    \/ LET i == Len(d) - Len(suffix) IN
         /\ Len(d) > Len(suffix)
         /\ d[i] = "."
         /\ Lower(SubSeq(d, i + 1, Len(d))) = Lower(suffix)

\* prefix_match: octet i is compared under the mask of the bits still left.
PrefixMatch(net, ip, prefix) ==
    \A i \in 1..Len(net) :
        LET used == OctetBits * (i - 1)
            shift == IF prefix - used >= OctetBits THEN 0 ELSE OctetBits - (prefix - used)
        IN  prefix > used => net[i] \div 2^shift = ip[i] \div 2^shift

\* Cidr::contains: an address of the other family never matches.
CidrContains(net, prefix, ip) == Len(net) = Len(ip) /\ PrefixMatch(net, ip, prefix)

\* RouteQuery::domain: the target host, else the sniffed domain.
QueryDomain(q) == IF q.host # None THEN Lower(q.host)
                  ELSE IF q.sniffed # None THEN Lower(q.sniffed) ELSE None

\* Condition::matches.
CondMatches(c, q) ==
    CASE c.kind = "any"    -> TRUE
      [] c.kind = "port"   -> q.port >= c.lo /\ q.port <= c.hi
      [] c.kind = "suffix" -> QueryDomain(q) # None /\ DomainSuffixMatch(QueryDomain(q), c.domain)
      [] c.kind = "site"   -> QueryDomain(q) # None /\ <<c.tag, QueryDomain(q)>> \in Geo[use].site
      [] c.kind = "cidr"   -> q.host = None /\ CidrContains(c.net, c.prefix, q.ip)
      [] c.kind = "geoip"  -> q.host = None /\ <<c.tag, q.ip>> \in Geo[use].ip

\* MatchRule::matches: conditions are ORed.
RuleMatches(r, q) == \E i \in DOMAIN r.conds : CondMatches(r.conds[i], q)

-----------------------------------------------------------------------------
\* RouteTable::new: fresh balancers for the rules of the table.
Fresh ==
    /\ cursor = [r \in DOMAIN table |-> 0]
    /\ wraps = [r \in DOMAIN table |-> 0]
    /\ picks = [r \in DOMAIN table |-> [i \in DOMAIN table[r].outs |-> 0]]
    /\ flows = 0 /\ query = None /\ decision = None /\ sink = None

Init ==
    /\ use \in Uses /\ table \in Tables[use]
    /\ outbounds = Outbounds /\ freedomTag = FreedomTag
    /\ Fresh

Freedom == [kind |-> "freedom"]
Blackhole == [kind |-> "blackhole"]
Outbound(t) == [kind |-> "outbound", tag |-> t]

\* Mutant: the last matching rule wins.
LastMatch(q) ==
    LET m == {r \in DOMAIN table : RuleMatches(table[r], q)} IN
    IF m = {} THEN 0 ELSE CHOOSE r \in m : \A s \in m : s <= r

\* RouteTable::route: the index of the first matching rule, 0 for none.
FirstMatch(q) ==
    LET m == {r \in DOMAIN table : RuleMatches(table[r], q)} IN
    IF m = {} THEN 0 ELSE CHOOSE r \in m : \A s \in m : r <= s

\* LoadBalancer::pick: the indexes (from 0) it may return for n tags.
Pick(r, n, q) ==
    CASE table[r].mode = "random" -> 0..(n - 1)
      [] table[r].mode = "roundRobin" -> {cursor[r] % n}
      [] table[r].mode = "userAuthHash" -> {(IF q.hash = None THEN 0 ELSE q.hash) % n}

\* Mutant: the cursor is not advanced.
CursorStuck(r) == UNCHANGED <<cursor, wraps>>

\* The cursor's fetch_add, which wraps.
Advance(r) ==
    IF Len(table[r].outs) > 1 /\ table[r].mode = "roundRobin"
    THEN /\ cursor' = [cursor EXCEPT ![r] = (@ + 1) % 2^CursorBits]
         /\ wraps' = [wraps EXCEPT ![r] = IF cursor'[r] = 0 THEN @ + 1 ELSE @]
    ELSE UNCHANGED <<cursor, wraps>>

\* OutboundDispatch::call: the tag a decision is served by.
Resolve(d) ==
    LET tag == CASE d.kind = "outbound" -> d.tag
                 [] d.kind = "freedom" -> freedomTag
                 [] d.kind = "blackhole" -> None
    IN  IF tag \in DOMAIN outbounds THEN tag ELSE None

Decide(d) == decision' = d /\ sink' = Resolve(d)

\* A flow no rule matches takes the default branch.
RouteDefault(q) ==
    /\ FirstMatch(q) = 0
    /\ Decide(Freedom)
    /\ UNCHANGED <<cursor, wraps, picks>>

\* MatchRule::decide without tags: blackhole.
RouteNoOuts(q) ==
    /\ FirstMatch(q) # 0 /\ table[FirstMatch(q)].outs = <<>>
    /\ Decide(Blackhole)
    /\ UNCHANGED <<cursor, wraps, picks>>

\* MatchRule::decide: one tag, or the balancer's pick among several.
RouteOuts(q) ==
    LET r == FirstMatch(q)
        outs == table[r].outs
    IN  /\ r # 0 /\ outs # <<>>
        /\ \E i \in IF Len(outs) = 1 THEN {0} ELSE Pick(r, Len(outs), q) :
              /\ Decide(Outbound(outs[i + 1]))
              /\ picks' = [picks EXCEPT ![r][i + 1] = @ + 1]
        /\ Advance(r)

Flow(q) ==
    /\ flows < MaxFlows[use]
    /\ flows' = flows + 1 /\ query' = q
    /\ RouteDefault(q) \/ RouteNoOuts(q) \/ RouteOuts(q)
    /\ UNCHANGED config

Next == \E q \in Queries[use] : Flow(q)

Spec == Init /\ [][Next]_vars

-----------------------------------------------------------------------------
(* Reference definitions.                                                  *)

\* The labels of a domain: the maximal dot-free pieces, as a sequence.
Labels(d) ==
    LET dots == {i \in DOMAIN d : d[i] = "."} \union {0, Len(d) + 1}
        n == Cardinality(dots)
        Nth(k) == CHOOSE i \in dots : Cardinality({j \in dots : j < i}) = k - 1
    IN  [k \in 1..(n - 1) |-> SubSeq(d, Nth(k) + 1, Nth(k + 1) - 1)]

IsSuffixOf(s, t) == \E n \in 0..Len(t) : SubSeq(t, n + 1, Len(t)) = s

\* A domain matches a suffix when its labels end with the suffix's labels.
UnderDomain(d, suffix) == IsSuffixOf(Labels(Lower(suffix)), Labels(Lower(d)))

\* The address as a number, most significant octet first.
Number(a) ==
    LET n == Len(a) IN
    LET val[i \in 0..n] == IF i = 0 THEN 0 ELSE val[i - 1] * 2^OctetBits + a[i] IN val[n]
InBlock(net, prefix, ip) ==
    /\ Len(net) = Len(ip)
    /\ LET host == 2^(OctetBits * Len(net) - prefix) IN Number(net) \div host = Number(ip) \div host

\* What each condition is documented to mean.
Means(c, q) ==
    LET name == IF q.host # None THEN q.host ELSE q.sniffed IN
    CASE c.kind = "any" -> TRUE
      [] c.kind = "port" -> q.port \in c.lo..c.hi
      [] c.kind = "suffix" -> name # None /\ UnderDomain(name, c.domain)
      [] c.kind = "site" -> name # None /\ <<c.tag, Lower(name)>> \in Geo[use].site
      [] c.kind = "cidr" -> q.host = None /\ InBlock(c.net, c.prefix, q.ip)
      [] c.kind = "geoip" -> q.host = None /\ <<c.tag, q.ip>> \in Geo[use].ip

MeantRule(r, q) == \E i \in DOMAIN table[r].conds : Means(table[r].conds[i], q)

-----------------------------------------------------------------------------
(* Properties.                                                             *)

\* The types of the balancer state and the last decision.
TypeOK ==
    /\ \A r \in DOMAIN table : /\ cursor[r] \in 0..(2^CursorBits - 1) /\ wraps[r] \in Nat
                               /\ picks[r] \in [DOMAIN table[r].outs -> Nat]
    /\ flows \in 0..MaxFlows[use] /\ query \in Queries[use] \union {None}
    /\ sink \in DOMAIN outbounds \union {None}
    /\ decision = None \/ decision.kind \in {"outbound", "freedom", "blackhole"}

\* First match wins: a flow goes to a tag of a rule that is meant to match it
\* while no earlier rule is; to the blackhole when that rule has no tags; and
\* to the default branch only when no rule is meant to match.
FirstMatchWins ==
    query # None =>
        IF \A r \in DOMAIN table : ~MeantRule(r, query)
        THEN decision = Freedom
        ELSE \E r \in DOMAIN table :
               /\ MeantRule(r, query) /\ \A s \in 1..(r - 1) : ~MeantRule(s, query)
               /\ \/ table[r].outs = <<>> /\ decision = Blackhole
                  \/ \E i \in DOMAIN table[r].outs : decision = Outbound(table[r].outs[i])

\* Round robin is even: over any number of flows the tags of a rule differ by
\* at most one, plus one for every wrap of the cursor.
RoundRobinIsEven ==
    \A r \in DOMAIN table : table[r].mode = "roundRobin" /\ Len(table[r].outs) > 1 =>
        \A i, j \in DOMAIN table[r].outs : picks[r][i] <= picks[r][j] + 1 + wraps[r]

=============================================================================
