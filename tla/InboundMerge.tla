---------------------------- MODULE InboundMerge ----------------------------
(***************************************************************************)
(* What inbound services make of the users and listeners of the spool:     *)
(* merge_state of src/scripts/inbound_runtime.py, the numbers of the       *)
(* runtime users, their routing rules, and what a change is refused for.   *)
(*                                                                         *)
(* A spool is [users, listeners], functions from names to entries.  An     *)
(* entry's own fields, its secrets, tls and transport, are BOOLEANs:       *)
(* shape, that it has the form of an entry; sound, that what listener_-    *)
(* problems asks of these fields alone holds; plain, neither tls, REALITY  *)
(* nor encryption; fronted, that its transport suits its front's fallback. *)
(***************************************************************************)
EXTENDS Integers, Sequences, FiniteSets
LOCAL INSTANCE SequencesExt
LOCAL INSTANCE FiniteSetsExt

CONSTANTS
  Lower,        \* [names -> names]: XRay's view of a name
  Rank,         \* [names and tags -> numbers]: the order they sort in
  DeclUsers,    \* [names -> [order, uuid, password]]: order 0 is none
  DeclNumbers,  \* serverSource numbers of declared users
  DeclListeners,\* [tags -> [type, port, users, capacity, method, serverPassword, order]]: capacity -1 is none
  Vias, Ports,  \* inbounds.runtime.vias, .ports
  DefaultVia,
  SourceSize,   \* addresses of serverSource: 0 is none
  None

Clash(name, names) == {n \in names : Lower[n] = Lower[name]}
Sorted(S) == SetToSortSeq(S, LAMBDA a, b : Rank[a] < Rank[b])

-----------------------------------------------------------------------------
(* Users                                                                    *)

\* Of two files whose names differ in case only the first stays.
UserFits(spool, n) ==
  /\ spool.users[n].shape
  /\ Clash(n, DOMAIN DeclUsers) = {}
  /\ ~\E m \in Clash(n, DOMAIN spool.users) : Rank[m] < Rank[n] /\ spool.users[m].shape
MergedUsers(spool) == {n \in DOMAIN spool.users : UserFits(spool, n)}

HasUuid(n)     == n \notin DOMAIN DeclUsers \/ DeclUsers[n].uuid
HasPassword(n) == n \notin DOMAIN DeclUsers \/ DeclUsers[n].password
UserProblem(n, type) ==
  \/ type \in {"vless", "vmess", "tuic"} /\ ~HasUuid(n)
  \/ type \in {"trojan", "hysteria2", "shadowsocks", "socks", "http", "anytls", "naive", "tuic", "shadowtls"}
     /\ ~HasPassword(n)

\* The users that a runtime listener's own entry names.
OwnUsers(spool, tag) ==
  SelectSeq(spool.listeners[tag].users, LAMBDA n :
    n \in MergedUsers(spool) \union DOMAIN DeclUsers /\ ~UserProblem(n, spool.listeners[tag].type))

RuntimeTags(spool) ==
  {t \in DOMAIN spool.listeners : spool.listeners[t].shape /\ t \notin DOMAIN DeclListeners \union {"api-in"}}

\* A second user of a declared shadowsocks listener needs what the first did not.
Joins(target, n, users) ==
  /\ target.type # "raw" /\ ~UserProblem(n, target.type)
  /\ target.capacity >= 0 => Len(users) < target.capacity
  /\ target.type = "shadowsocks" /\ users # <<>> => target.method = "2022-aes" /\ target.serverPassword

UsersOfDeclared(spool, tag) ==
  LET target   == DeclListeners[tag]
      Bind(users, n) == IF n \notin ToSet(users) /\ Joins(target, n, users) THEN Append(users, n) ELSE users
  IN  FoldLeft(Bind, target.users, Sorted({n \in MergedUsers(spool) : tag \in spool.users[n].listeners}))

UsersOfRuntime(spool, tag) ==
  LET own == OwnUsers(spool, tag)
  IN  own \o Sorted({n \in MergedUsers(spool) \ ToSet(own) :
                       tag \in spool.users[n].listeners /\ ~UserProblem(n, spool.listeners[tag].type)})

UsersOf(spool, tag) == IF tag \in DOMAIN DeclListeners THEN UsersOfDeclared(spool, tag) ELSE UsersOfRuntime(spool, tag)

-----------------------------------------------------------------------------
(* Listeners                                                                *)

Type(spool, tag)  == IF tag \in DOMAIN DeclListeners THEN DeclListeners[tag].type ELSE spool.listeners[tag].type
Order(spool, tag) == IF tag \in DOMAIN DeclListeners THEN DeclListeners[tag].order ELSE spool.listeners[tag].order

Exit(l) == IF l.via = None THEN DefaultVia ELSE l.via

DeclPorts == {DeclListeners[t].port : t \in DOMAIN DeclListeners}

\* listener_problems: the fences, and what its users ask of it.
ListenerHolds(spool, tag) ==
  LET l     == spool.listeners[tag]
      users == UsersOfRuntime(spool, tag)
  IN  /\ l.sound
      /\ l.port \in Ports
      /\ l.order >= 0
      /\ Exit(l) \in Vias
      /\ \A i, j \in 1..Len(users) : i # j => Lower[users[i]] # Lower[users[j]]
      /\ l.type = "shadowsocks" /\ Len(users) > 1 => l.method = "2022-aes" /\ l.serverPassword
      \* A declared user's secrets do not cross the network in the clear.
      /\ l.type \in {"vless", "socks", "http"} /\ l.plain /\ ~l.loopback => ToSet(users) \intersect DOMAIN DeclUsers = {}
      /\ l.fallbacks # {} => l.type \in {"vless", "trojan"}

\* By order, then tag: the first that holds up has the port.
Ports1(spool, busy) ==
  LET tags == SetToSortSeq({t \in RuntimeTags(spool) : ListenerHolds(spool, t)},
                LAMBDA a, b : \/ spool.listeners[a].order < spool.listeners[b].order
                              \/ spool.listeners[a].order = spool.listeners[b].order /\ Rank[a] < Rank[b])
      Take(kept, t) == LET port == spool.listeners[t].port
                       IN  IF port \in DeclPorts \union busy \union {spool.listeners[k].port : k \in kept}
                           THEN kept ELSE kept \union {t}
  IN  FoldLeft(Take, {}, tags)

\* _fallback_target_problems
TargetFits(spool, kept, tag, target) ==
  /\ target \in kept /\ target # tag
  /\ spool.listeners[target].type = "vless" /\ spool.listeners[target].plain /\ spool.listeners[target].loopback
  /\ spool.listeners[target].fronted

\* One pass over the fronts, in the order of their tags: the first whose
\* targets do not fit, or already have a front, goes.
FrontGoes(spool, kept, tag) ==
  \E target \in spool.listeners[tag].fallbacks :
    \/ ~TargetFits(spool, kept, tag, target)
    \/ \E other \in kept : Rank[other] < Rank[tag] /\ target \in spool.listeners[other].fallbacks

\* Mutant: a target may have several fronts.
DropFronts_shared(spool, kept) ==
  LET Left[n \in 0..Cardinality(kept)] ==
        IF n = 0 THEN kept
        ELSE LET going == {t \in Left[n - 1] : \E x \in spool.listeners[t].fallbacks : ~TargetFits(spool, Left[n - 1], t, x)}
             IN  IF going = {} THEN Left[n - 1]
                 ELSE Left[n - 1] \ {CHOOSE t \in going : \A u \in going : Rank[t] <= Rank[u]}
  IN  Left[Cardinality(kept)]

\* Until nothing changes: a front that goes can leave another's target without it.
DropFronts(spool, kept) ==
  LET Left[n \in 0..Cardinality(kept)] ==
        IF n = 0 THEN kept
        ELSE LET going == {t \in Left[n - 1] : FrontGoes(spool, Left[n - 1], t)}
             IN  IF going = {} THEN Left[n - 1]
                 ELSE Left[n - 1] \ {CHOOSE t \in going : \A u \in going : Rank[t] <= Rank[u]}
  IN  Left[Cardinality(kept)]

\* The runtime listeners that hold up; busy: ports others use on this host.
RuntimeListeners(spool, busy) == DropFronts(spool, Ports1(spool, busy))

\* apply_statuses: a listener whose users are all off runs without clients, or not.
RunsWithoutClients(spool, tag) ==
  \/ Type(spool, tag) \in {"vless", "vmess", "trojan", "hysteria2", "anytls", "naive", "tuic", "shadowtls"}
  \/ Type(spool, tag) = "shadowsocks" /\ Len(UsersOf(spool, tag)) > 1

\* What starts: with users, who are not all off.
Merged(spool, busy, off) ==
  {t \in DOMAIN DeclListeners \union RuntimeListeners(spool, busy) :
     \/ Type(spool, t) \in {"raw", "amneziawg"}
     \/ /\ UsersOf(spool, t) # <<>>
        /\ ToSet(UsersOf(spool, t)) \subseteq off => RunsWithoutClients(spool, t)}

\* Entries that something is wrong with: what a change may not add to.
Problems(spool) ==
  {<<"user", n>> : n \in
     {n \in DOMAIN spool.users :
        \/ n \notin MergedUsers(spool)
        \/ \E t \in spool.users[n].listeners :
             \/ t \notin DOMAIN DeclListeners \union RuntimeTags(spool)
             \/ n \notin ToSet(UsersOf(spool, t))}}
  \union
  {<<"listener", t>> : t \in
     {t \in DOMAIN spool.listeners :
        \/ t \notin RuntimeListeners(spool, {})
        \/ Len(OwnUsers(spool, t)) < Len(spool.listeners[t].users)}}

\* _commit
Commits(spool, before, changed) == \A key \in Problems(spool) : key # changed /\ key \in Problems(before)

-----------------------------------------------------------------------------
(* serverSource numbers and routing                                         *)

TakenOrders == DeclNumbers \union ({DeclUsers[n].order : n \in DOMAIN DeclUsers} \ {0})

\* number_users: <<name, number>> of each, their own order unless it is taken.
Numbers(spool, names) ==
  LET ByOrder == SetToSortSeq(names, LAMBDA a, b :
                   \/ spool.users[a].order < spool.users[b].order
                   \/ spool.users[a].order = spool.users[b].order /\ Rank[a] < Rank[b])
      Number(numbers, n) ==
        LET taken  == TakenOrders \union {numbers[i][2] : i \in 1..Len(numbers)}
            number == CHOOSE k \in spool.users[n].order..(spool.users[n].order + Cardinality(taken)) :
                        /\ k \notin taken
                        /\ \A j \in spool.users[n].order..(k - 1) : j \in taken
        IN  IF number + 2 > SourceSize THEN numbers ELSE Append(numbers, <<n, number>>)
  IN  FoldLeft(Number, <<>>, ByOrder)

\* The runtime users on XRay's listeners.
OnXray(spool, merged) ==
  MergedUsers(spool) \intersect UNION {ToSet(UsersOf(spool, t)) : t \in {t \in merged : Type(spool, t) # "amneziawg"}}
SelfSources(spool, merged) == IF SourceSize = 0 THEN <<>> ELSE Numbers(spool, OnXray(spool, merged))

\* expand_rules: a template rule is [via], the listeners with that exit, with
\* the tags declared for it; "self" is where users' own rules go, "final" the last.
Rules(spool, merged, template) ==
  LET tags    == merged \ DOMAIN DeclListeners
      Via(t) == Exit(spool.listeners[t])
      Expand(rule) ==
        CASE rule.kind = "self"  -> [i \in 1..Len(SelfSources(spool, merged)) |->
                                       [kind |-> "own", user |-> SelfSources(spool, merged)[i][1],
                                        number |-> SelfSources(spool, merged)[i][2]]]
          [] rule.kind = "via"   -> LET all == rule.tags \union {t \in tags : Via(t) = rule.via}
                                    IN  IF all = {} THEN <<>> ELSE <<[rule EXCEPT !.tags = all]>>
          [] rule.kind = "final" -> SetToSeq({[kind |-> "exit", tags |-> {t}, via |-> Via(t)] :
                                               t \in {t \in tags : Via(t) # DefaultVia}}) \o <<rule>>
          [] OTHER               -> <<rule>>
  IN  FlattenSeq([i \in 1..Len(template) |-> Expand(template[i])])

-----------------------------------------------------------------------------
(* Orders of new users                                                      *)

FreeOrder(users) ==
  CHOOSE k \in 1..(Cardinality(TakenOrders) + Cardinality(DOMAIN users) + 1) :
    /\ k \notin TakenOrders \union {users[n].order : n \in DOMAIN users}
    /\ \A j \in 1..(k - 1) : j \in TakenOrders \union {users[n].order : n \in DOMAIN users}
OrderFree(users, order, name) ==
  order >= 1 /\ order \notin TakenOrders \union {users[n].order : n \in DOMAIN users \ {name}}

-----------------------------------------------------------------------------
\* Whatever the spool holds (inbound_runtime.py:17, "never break the declared
\* configuration"): the declared listeners keep their users and, unless they
\* have nobody or only users who are off, start; no two listeners share a
\* port, none has two users that are one to XRay or more than its subnet
\* holds; each fallback listener is there, with one front; and every user's
\* own address is nobody else's.
Fits(spool, busy, off) ==
  LET merged == Merged(spool, busy, off)
      kept   == RuntimeListeners(spool, busy)
      PortOf(t) == IF t \in DOMAIN DeclListeners THEN DeclListeners[t].port ELSE spool.listeners[t].port
      numbers == SelfSources(spool, merged)
  IN  /\ \A t \in DOMAIN DeclListeners :
           /\ ToSet(DeclListeners[t].users) \subseteq ToSet(UsersOf(spool, t))
           /\ (\E n \in ToSet(DeclListeners[t].users) : n \notin off) => t \in merged
           /\ DeclListeners[t].capacity >= 0 => Len(UsersOf(spool, t)) <= DeclListeners[t].capacity
      /\ \A t, u \in DOMAIN DeclListeners \union kept : t # u => PortOf(t) # PortOf(u)
      /\ \A t \in merged : LET users == UsersOf(spool, t)
                           IN  \A i, j \in 1..Len(users) : i # j => Lower[users[i]] # Lower[users[j]]
      /\ \A t \in kept : \A x \in spool.listeners[t].fallbacks :
           x \in kept \ {t} /\ \A u \in kept \ {t} : x \notin spool.listeners[u].fallbacks
      /\ \A i, j \in 1..Len(numbers) : i # j => numbers[i][2] # numbers[j][2]
      /\ \A i \in 1..Len(numbers) : numbers[i][2] \notin TakenOrders /\ numbers[i][2] + 2 <= SourceSize

\* What a started runtime listener takes in leaves by its own exit: the first
\* rule with its tag that names an exit is one for that exit, else the last
\* rule's, the default (the fences of inbounds.runtime.vias).
Routed(spool, busy, off, template) ==
  LET merged == Merged(spool, busy, off)
      rules  == Rules(spool, merged, template)
  IN  \A t \in merged \ DOMAIN DeclListeners :
        LET own == SelectSeq(rules, LAMBDA r : r.kind = "final" \/ (r.kind = "exit" /\ t \in r.tags))
        IN  /\ own # <<>>
            /\ (IF Head(own).kind = "final" THEN DefaultVia ELSE Head(own).via) = Exit(spool.listeners[t])
=============================================================================
