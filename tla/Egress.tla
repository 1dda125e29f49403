------------------------------- MODULE Egress -------------------------------
(***************************************************************************)
(* The two configuration front ends of the routing engine.  The panel node *)
(* (saas::egress_compile) normalises a list of route blocks, each with raw *)
(* matcher strings and outbounds; the server (app::config) translates its  *)
(* route entries rule by rule.  Either one yields a rule table, a          *)
(* tag-keyed outbound set and the tag of the default branch, and flows are *)
(* routed through the result.                                              *)
(*                                                                         *)
(* A raw matcher is its leading marker and the characters that follow; the *)
(* tag "route-NNN" is RouteTags[NNN + 1].  The other deployments of Routing *)
(* take their table as it is.                                              *)
(***************************************************************************)
EXTENDS Routing, Functions

CONSTANTS
    EgressUse, \* the deployment of the panel node
    Configs,   \* its configurations: [enable, routes: Seq([rules, outs])]
    RouteTags, \* the tags of the blocks, in order
    AppUse,    \* the deployment of the server
    AppConfigs \* its configurations: [inbounds, outs: Seq([tag, proto]),
               \*   routes: Seq([outbound, domain, ip, port])]

VARIABLE cfg   \* the configuration loaded at start-up, or None

evars == <<vars, cfg>>

Blank(s) == \A i \in DOMAIN s : s[i] = " "
Trim(s) ==
    LET full == {i \in DOMAIN s : s[i] # " "} IN
    IF full = {} THEN <<>>
    ELSE SubSeq(s, CHOOSE i \in full : \A j \in full : i <= j,
                   CHOOSE i \in full : \A j \in full : j <= i)

Expr(kind, name) == [kind |-> kind, name |-> name]

\* parse_rule_expr and nonempty: None for a label or an empty matcher.
ParseRuleExpr(raw) ==
    CASE raw.mark = "#" -> None
      [] raw.mark = "*" -> Expr("any", <<>>)
      [] raw.mark \in {"", "domain:", "suffix:", "full:"} ->
            IF Blank(raw.body) THEN None ELSE Expr("suffix", Trim(raw.body))
      [] raw.mark \in {"keyword:", "geosite:", "geoip:"} ->
            IF Blank(raw.body) THEN None ELSE Expr(raw.mark, Trim(raw.body))

RuleExprs(route) ==
    SelectSeq([i \in DOMAIN route.rules |-> ParseRuleExpr(route.rules[i])],
              LAMBDA e : e # None)

\* normalize: the blocks kept, those with an effective matcher.
Kept(c) == SelectSeq([i \in DOMAIN c.routes |-> i],
                     LAMBDA i : RuleExprs(c.routes[i]) # <<>>)

\* normalize bails out when a kept block has not exactly one outbound, and
\* compile_outbound when its cipher is not supported.
Rejected(c) ==
    /\ c.enable
    /\ \E i \in DOMAIN Kept(c) :
          LET outs == c.routes[Kept(c)[i]].outs IN Len(outs) # 1 \/ outs = <<"nocipher">>

\* rule_conditions: keyword matchers are dropped, suffixes lower-cased.
RuleConditions(exprs) ==
    LET cond == [i \in DOMAIN exprs |->
            CASE exprs[i].kind = "any" -> [kind |-> "any"]
              [] exprs[i].kind = "suffix" -> [kind |-> "suffix", domain |-> Lower(exprs[i].name)]
              [] exprs[i].kind = "geosite:" -> [kind |-> "site", tag |-> exprs[i].name]
              [] exprs[i].kind = "geoip:" -> [kind |-> "geoip", tag |-> exprs[i].name]
              [] exprs[i].kind = "keyword:" -> None]
    IN  SelectSeq(cond, LAMBDA x : x # None)

\* The outbound set: the kept blocks' specs by tag, and default-direct.
OutboundSpec(c) ==
    LET kept == IF c.enable THEN Range(Kept(c)) ELSE {} IN
    [t \in {FreedomTag} \union {RouteTags[i] : i \in kept} |->
        IF t = FreedomTag THEN "direct"
        ELSE c.routes[CHOOSE i \in kept : RouteTags[i] = t].outs[1]]

\* Mutant: a rule's tag is its position among the compiled rules.
CompileRenumbered(c) ==
    IF ~c.enable THEN <<>>
    ELSE LET conds == SelectSeq([k \in DOMAIN Kept(c) |-> RuleConditions(RuleExprs(c.routes[Kept(c)[k]]))],
                                LAMBDA x : x # <<>>)
         IN  [k \in DOMAIN conds |-> [conds |-> conds[k], outs |-> <<RouteTags[Kept(c)[k]]>>, mode |-> "random"]]

\* compile and compile_normalized: one rule per kept block that still has
\* conditions; nothing when egress routing is disabled.
Compile(c) ==
    IF ~c.enable THEN <<>>
    ELSE SelectSeq([k \in DOMAIN Kept(c) |->
                        [conds |-> RuleConditions(RuleExprs(c.routes[Kept(c)[k]])),
                         outs |-> <<RouteTags[Kept(c)[k]]>>, mode |-> "random"]],
                   LAMBDA r : r.conds # <<>>)

-----------------------------------------------------------------------------
(* app::config.                                                            *)

\* The outbounds in order; without any there is one freedom.
Items(c) ==
    IF c.outs = <<>> THEN <<[tag |-> "freedom", proto |-> "freedom"]>>
    ELSE [k \in DOMAIN c.outs |-> [c.outs[k] EXCEPT !.tag = IF @ = None THEN c.outs[k].proto ELSE @]]

\* OutboundList::build: collected into a map, the last item of a tag stays.
ListOf(items) ==
    [t \in {items[k].tag : k \in DOMAIN items} |->
        items[CHOOSE k \in DOMAIN items : items[k].tag = t /\ \A j \in DOMAIN items : items[j].tag = t => j <= k].proto]

\* The default branch is the first freedom's, else the first item's.
DefaultTag(items) ==
    LET free == SelectSeq(items, LAMBDA i : i.proto = "freedom") IN
    IF free = <<>> THEN items[1].tag ELSE free[1].tag

\* domain_condition and Condition::parse: None for what is dropped.  A marker
\* that is not of this list is part of the name.
DomainCondition(raw) ==
    CASE raw.mark = "keyword:" -> None
      [] raw.mark = "geosite:" -> IF Blank(raw.body) THEN None ELSE [kind |-> "site", tag |-> Trim(raw.body)]
      [] raw.mark \in {"", "domain:", "suffix:", "full:"} ->
            IF Blank(raw.body) THEN None ELSE [kind |-> "suffix", domain |-> Lower(Trim(raw.body))]
      [] OTHER -> [kind |-> "suffix", domain |-> <<raw.mark>> \o Trim(raw.body)]

\* Cidr::parse: a bare address is a block of one; None for a malformed one.
CidrParse(s) ==
    LET max == OctetBits * Len(s.ip) IN
    IF s.ip = <<>> \/ (s.prefix # None /\ s.prefix > max) THEN None
    ELSE [kind |-> "cidr", net |-> s.ip, prefix |-> IF s.prefix = None THEN max ELSE s.prefix]

\* parse_port_range: one port or two; None for a malformed range.
ParsePortRange(s) ==
    IF s = <<>> \/ s[1] > s[Len(s)] THEN None ELSE [kind |-> "port", lo |-> s[1], hi |-> s[Len(s)]]

\* build_match_rule: the conditions of a route.
RouteConditions(r) ==
    SelectSeq([k \in DOMAIN r.domain |-> DomainCondition(r.domain[k])], LAMBDA x : x # None)
    \o [k \in DOMAIN r.ip |-> CidrParse(r.ip[k])]
    \o [k \in DOMAIN r.port |-> ParsePortRange(r.port[k])]

\* Routes without conditions are dropped.
BuildRules(c) ==
    SelectSeq([k \in DOMAIN c.routes |->
                  [conds |-> RouteConditions(c.routes[k]), outs |-> <<c.routes[k].outbound>>, mode |-> "random"]],
              LAMBDA r : r.conds # <<>>)

\* build_inbound and build_stream: an entry whose users, method, certificate or
\* listen address cannot be parsed is an error.
BuildsInbound(ib) ==
    /\ ib.proto \in {"vless", "vmess"} => \A u \in ib.users : u # None
    /\ ib.proto = "shadowsocks" => ib.method # None
    /\ ib.tls # "missing" /\ ib.listen # None

\* Config::build fails as a whole.
AppRejected(c) ==
    \/ \E r \in DOMAIN c.routes : None \in Range(RouteConditions(c.routes[r]))
    \/ \E k \in DOMAIN c.inbounds : ~BuildsInbound(c.inbounds[k])

-----------------------------------------------------------------------------
\* panel::run compiles the configuration before anything else; an error ends it.
Loaded ==
    /\ use = EgressUse
    /\ cfg \in Configs
    /\ table = IF Rejected(cfg) THEN <<>> ELSE Compile(cfg)
    /\ outbounds = IF Rejected(cfg) THEN <<>> ELSE OutboundSpec(cfg)
    /\ freedomTag = FreedomTag
    /\ Fresh

\* Config::build.
AppLoaded ==
    /\ use = AppUse
    /\ cfg \in AppConfigs
    /\ table = IF AppRejected(cfg) THEN <<>> ELSE BuildRules(cfg)
    /\ outbounds = ListOf(Items(cfg)) /\ freedomTag = DefaultTag(Items(cfg))
    /\ Fresh

EInit == Loaded \/ AppLoaded \/ (Init /\ cfg = None)

\* A rejected configuration never serves a flow.
ENext ==
    /\ use = EgressUse => ~Rejected(cfg)
    /\ use = AppUse => ~AppRejected(cfg)
    /\ Next /\ UNCHANGED cfg

ESpec == EInit /\ [][ENext]_evars

-----------------------------------------------------------------------------
(* Properties.                                                             *)

\* What a raw domain matcher is documented to select; labels and keyword
\* matchers select nothing, and no geo resolver is wired.
Selects(raw, q) ==
    LET name == IF q.host # None THEN q.host ELSE q.sniffed IN
    /\ raw.mark \in {"", "domain:", "suffix:", "full:"}
    /\ Trim(raw.body) # <<>> /\ name # None /\ UnderDomain(name, Trim(raw.body))

SelectsBlock(b, q) == \E k \in DOMAIN b.rules : b.rules[k].mark = "*" \/ Selects(b.rules[k], q)
SelectsRoute(r, q) ==
    \/ \E k \in DOMAIN r.domain : Selects(r.domain[k], q)
    \/ \E k \in DOMAIN r.ip :
          /\ q.host = None
          /\ InBlock(r.ip[k].ip, IF r.ip[k].prefix = None THEN OctetBits * Len(r.ip[k].ip) ELSE r.ip[k].prefix, q.ip)
    \/ \E k \in DOMAIN r.port : q.port \in r.port[k][1]..r.port[k][Len(r.port[k])]

\* What the configuration says of a flow: the outbound of the panel's first
\* block that selects it, else direct; for the server the outbound whose tag
\* the first route that selects it names (the link is dropped when there is
\* none of that tag), else freedom, or the first outbound when no freedom is
\* configured.
Configured(q) ==
    LET sel == IF use = AppUse THEN {i \in DOMAIN cfg.routes : SelectsRoute(cfg.routes[i], q)}
               ELSE {i \in DOMAIN cfg.routes : cfg.enable /\ SelectsBlock(cfg.routes[i], q)}
        first == cfg.routes[CHOOSE i \in sel : \A j \in sel : i <= j]
    IN  CASE use = EgressUse -> IF sel = {} THEN "direct" ELSE first.outs[1]
          [] use = AppUse ->
                LET items == Range(Items(cfg))
                    of == {i \in items : i.tag = first.outbound}
                IN  IF sel = {} THEN IF \E i \in items : i.proto = "freedom" THEN "freedom" ELSE "blackhole"
                    ELSE IF of = {} THEN "dropped" ELSE (CHOOSE i \in of : TRUE).proto

\* A flow leaves through the outbound its configuration names: skipped and
\* dropped blocks never shift a tag to another block's outbound, a block of
\* labels or an entry reduced to nothing never becomes a catch-all, and the
\* default branch is the direct one.
EgressAsConfigured ==
    query # None /\ use \in {EgressUse, AppUse} =>
        (IF sink = None THEN "dropped" ELSE outbounds[sink]) = Configured(query)
=============================================================================
