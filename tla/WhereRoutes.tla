---------------------------- MODULE WhereRoutes -----------------------------
(***************************************************************************)
(* proxy-ctl where (proxy_ctl.py:5645): what it says of a domain, against  *)
(* the way a connection by that name takes.                                *)
(*                                                                         *)
(* Rules are those of the generated configs, as they bear on the domain:   *)
(* a sing-box rule is [kind, bound, hit, readable, outbound], an XRay one  *)
(* [tag, entries, ip, user, listeners, ports, target], an entry of that    *)
(* [kind, hit, checkable].  A domain is a sequence of labels.              *)
(***************************************************************************)
EXTENDS Integers, Sequences, FiniteSets

CONSTANTS None

FirstOf(S) == CHOOSE i \in S : \A j \in S : i <= j

-----------------------------------------------------------------------------
(* sing-box *)

\* Mutant: a rule for flows already on an IPv6 address counts for a name.
Consulted_v6(rule) == rule.kind # "action" /\ rule.bound # "inbound"

\* _where_sing_box.  A rule has names, a rule set or addresses, and sends somewhere
\* or, an "action", nowhere; bound is None, "inbound", or "v6" for flows on an address.
Consulted(rule) == rule.kind # "action" /\ rule.bound = None
Hit(rule) == rule.hit /\ (rule.kind = "names" \/ (rule.kind = "set" /\ rule.readable))
WhereSingBox(config) ==
  LET hits == {i \in DOMAIN config.rules : Consulted(config.rules[i]) /\ Hit(config.rules[i])}
  IN  IF hits = {} THEN config.final ELSE config.rules[FirstOf(hits)].outbound

\* sing-box itself, for a name asked for on the mixed inbound.
SingBoxRoutes(config) ==
  LET hits == {i \in DOMAIN config.rules : config.rules[i].kind \in {"names", "set"} /\ config.rules[i].hit /\ config.rules[i].bound = None}
  IN  IF hits = {} THEN config.final ELSE config.rules[FirstOf(hits)].outbound

\* What is not readable here counts for a miss, and is all that can mislead.
SingBoxTold(config) ==
  (\A i \in DOMAIN config.rules : config.rules[i].kind = "set" => config.rules[i].readable)
  => WhereSingBox(config) = SingBoxRoutes(config)

-----------------------------------------------------------------------------
(* XRay: pure XRay hosts, and the inbounds *)

Checked(entry) == entry.kind # "geosite" \/ entry.checkable
Names(rule)    == {rule.entries[i] : i \in DOMAIN rule.entries}

\* Mutant: the geosites that could not be looked into are not told of.
Unchecked_matched(rules, n) == {}

\* A geosite rule above the match may have taken the name first.
Unchecked(rules, n) == {e \in UNION {Names(rules[i]) : i \in 1..(n - 1)} : ~Checked(e)}
MatchedBy(rule) == \E e \in Names(rule) : e.hit /\ Checked(e)

\* _where_xray, up to the rule tagged final: [target, scope, hedged].  The rule's own
\* geosites before the entry that matched count only for the ones below.
WhereXray(rules, final) ==
  LET hits == {i \in DOMAIN rules : rules[i].tag = final \/ MatchedBy(rules[i])}
      n    == FirstOf(hits)
  IN  IF hits = {} THEN [target |-> None, listeners |-> None, ports |-> None, hedged |-> FALSE]
      ELSE [target |-> rules[n].target, hedged |-> Unchecked(rules, n) # {},
            listeners |-> IF rules[n].tag = final THEN None ELSE rules[n].listeners,
            ports |-> IF rules[n].tag = final THEN None ELSE rules[n].ports]

\* XRay itself: a rule's conditions all hold.  No name is on an address.
XrayTakes(rule, conn) ==
  /\ \/ rule.entries = <<>>
     \/ \E e \in Names(rule) : e.hit
  /\ ~rule.ip
  /\ rule.user \in {None, conn.user}
  /\ rule.listeners = None \/ conn.listener \in rule.listeners
  /\ rule.ports = None \/ conn.port \in rule.ports
XrayRoutes(rules, conn) ==
  LET takes == {i \in DOMAIN rules : XrayTakes(rules[i], conn)}
  IN  IF takes = {} THEN None ELSE rules[FirstOf(takes)].target

\* A listener's own via is known by its tag, not its name: told as the default egress.
ByListener(rules, conn) == \E i \in DOMAIN rules : rules[i].entries = <<>> /\ ~rules[i].ip /\ rules[i].listeners # None /\ conn.listener \in rules[i].listeners
\* Conditions where does not look at: an address, a user.
Blind(rules) == \E i \in DOMAIN rules : MatchedBy(rules[i]) /\ (rules[i].ip \/ rules[i].user # None)

\* What is told without a hedge holds for the connections of the scope that is told.
XrayTold(rules, final, conn) ==
  LET told == WhereXray(rules, final)
  IN  /\ told.target # None
      /\ ~told.hedged
      /\ told.listeners = None \/ conn.listener \in told.listeners
      /\ told.ports = None \/ conn.port \in told.ports
      /\ ~Blind(rules) /\ ~ByListener(rules, conn)
      => XrayRoutes(rules, conn) = told.target

-----------------------------------------------------------------------------
(* The verdict: cmd_where *)

\* The first of the domain's parents, itself first, that a list holds.
Parents(domain) == [i \in 1..Len(domain) |-> SubSeq(domain, i, Len(domain))]
WhereIn(list, domain) ==
  LET held == {i \in DOMAIN Parents(domain) : Parents(domain)[i] \in list}
  IN  IF held = {} THEN None ELSE Parents(domain)[FirstOf(held)]

\* Mutant: a pinned site is told of before an excluded one.
ZapretSays_pinned(lists, domain) ==
  CASE WhereIn(lists.pinned, domain) # None -> "pinned"
    [] WhereIn(lists.pinned, domain) = None /\ WhereIn(lists.excluded, domain) # None -> "excluded"
    [] OTHER -> "none"

ZapretSays(lists, domain) ==
  IF WhereIn(lists.excluded, domain) # None THEN "excluded"
  ELSE IF WhereIn(lists.pinned, domain) # None THEN "pinned"
  ELSE IF WhereIn(lists.sites, domain) # None THEN "site"
  ELSE IF WhereIn(lists.learned, domain) # None THEN "learned" ELSE "none"

\* _where_live: the exits of the open connections to the domain or below it.
Below(host, domain) == Len(host) >= Len(domain) /\ SubSeq(host, Len(host) - Len(domain) + 1, Len(host)) = domain
Live(connections, domain) == {c.exit : c \in {c \in connections : Below(c.host, domain)}}

\* The exits a name leaves by: the open connections', or else the config's.
Local(host, domain) ==
  IF Live(host.connections, domain) # {} THEN Live(host.connections, domain)
  ELSE IF host.config = None THEN {} ELSE {WhereSingBox(host.config)}

\* [exits, bypass, learned]: learned is autoProxy's exit, told when no config was read.
Verdict(host, domain) ==
  LET zapret  == ZapretSays(host.lists, domain) \in {"pinned", "site", "learned"}
      routed  == WhereIn(DOMAIN host.routed, domain)
      bypass  == zapret /\ routed = None
      local   == Local(host, domain)
  IN  IF local # {} THEN [exits |-> local, bypass |-> bypass /\ local = {"direct"}, learned |-> None]
      ELSE [exits |-> {}, bypass |-> bypass, learned |-> IF routed = None THEN None ELSE host.routed[routed]]

\* nfqws2: a host of its lists is treated unless it or a parent is excluded, and it
\* sees what leaves directly.
Treated(lists, domain) ==
  /\ \E i \in 1..Len(domain) : Parents(domain)[i] \in lists.pinned \union lists.sites \union lists.learned
  /\ \A i \in 1..Len(domain) : Parents(domain)[i] \notin lists.excluded

\* A bypass is told of only where nfqws2 makes one, and of all that autoProxy routes
\* nowhere; a route it learned is told of before it.
VerdictTold(host, domain) ==
  LET told == Verdict(host, domain)
      elsewhere == \E i \in 1..Len(domain) : Parents(domain)[i] \in DOMAIN host.routed
  IN  /\ told.bypass => Treated(host.lists, domain) /\ told.exits \subseteq {"direct"}
      /\ Treated(host.lists, domain) /\ ~elsewhere /\ told.exits \in {{}, {"direct"}} => told.bypass
      /\ told.exits # {} /\ host.connections = {} => told.exits = {WhereSingBox(host.config)}
      /\ told.exits = {} => host.connections \intersect {c \in host.connections : Below(c.host, domain)} = {}
=============================================================================
