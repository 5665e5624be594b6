-------------------------- MODULE MCInboundManager --------------------------
(* Small instances of InboundManager for TLC: one scenario per question. *)
EXTENDS InboundManager

Number(n) == [form |-> "number", n |-> n]
None      == [form |-> "none"]

MCMonths == <<3, 3, 3>>
MCUnits  == [G |-> 10]
MCOrder  == <<"a", "b", "d">>
MCDeclaredPolicy == [n \in {"d"} |-> [expiresAt |-> 5]]

Quiet == [ops |-> {}, requests |-> 0, patches |-> {}, unsets |-> {{}}, spans |-> {1}, resets |-> {FALSE},
          slots |-> 1, slotsLater |-> 1, nft |-> TRUE, percents |-> {}, expiryDays |-> {}, purgeAfter |-> Null,
          bannable |-> {}, faults |-> 0, faultKinds |-> {}, bundles |-> {}, end |-> 2, spend |-> <<>>,
          comes |-> <<>>, spool |-> {}, policies |-> <<>>, anytime |-> FALSE, name |-> "quiet"]

\* Speed limits come and go, and a restart has fewer slots.
SlotScenario == [Quiet EXCEPT !.name = "slots", !.anytime = TRUE, !.ops = {"patch", "create", "delete"}, !.requests = 3,
  !.patches = {"speedLimit" :> Number(1), "enabled" :> [form |-> "flag", on |-> FALSE]},
  !.unsets = {{}, {"speedLimit"}}, !.slots = 2, !.faults = 1, !.faultKinds = {"crash"}, !.spool = {"a"}]

\* A term starts when its user comes, ends, and the user is purged and made anew.
TermScenario == [Quiet EXCEPT !.name = "terms", !.ops = {"create"}, !.requests = 1,
  !.patches = {"expiresAfter" :> Number(2)}, !.expiryDays = {1}, !.purgeAfter = 1, !.end = 6,
  !.spend = [n \in {"a"} |-> 1], !.comes = [n \in {"a"} |-> {1}], !.spool = {"a"},
  !.policies = [n \in {"a"} |-> [expiresAfter |-> 2]]]

\* Two extend a term at the same time, or one that is not yet running.
ExtendScenario == [Quiet EXCEPT !.name = "extend", !.anytime = TRUE, !.ops = {"extend", "delete"}, !.requests = 3,
  !.spans = {1}, !.resets = BOOLEAN, !.end = 4, !.spool = {"a", "b"},
  !.policies = [n \in {"a", "b"} |-> IF n = "a" THEN [expiresAt |-> 3] ELSE [expiresAfter |-> 2]]]

\* Traffic counted against a daily limit, reset, and begun anew by a new user.
TrafficScenario == [Quiet EXCEPT !.name = "traffic", !.ops = {"reset", "create", "delete"}, !.requests = 3,
  !.patches = {("trafficLimit" :> Number(2)) @@ ("trafficPeriod" :> [form |-> "period", period |-> "daily"]), <<>>},
  !.percents = {50, 100}, !.end = 4, !.spend = [n \in {"a"} |-> 2], !.spool = {"a"}, !.faults = 1, !.faultKinds = {"apply"},
  !.policies = [n \in {"a"} |-> [trafficLimit |-> 2, trafficPeriod |-> "daily"]]]

\* Addresses come and go past a limit; a ban may fail.
IpScenario == [Quiet EXCEPT !.name = "ips", !.bannable = {"a"}, !.faults = 1, !.faultKinds = {"ban"}, !.end = 5,
  !.comes = [n \in {"a"} |-> {1, 2, 3}], !.spool = {"a"}, !.policies = [n \in {"a"} |-> [ipLimit |-> 1]]]

\* Another host's users come, with or without replace.
Bundle(users, slots) ==
  [users |-> users, slots |-> slots,
   policies |-> [n \in Names |-> IF n \in users THEN [speedLimit |-> [up |-> 1, down |-> Null], trafficLimit |-> 0]
                                 ELSE <<>>],
   state |-> [n \in Names |-> IF n \in users THEN [start |-> 2, base |-> 1, anchor |-> 1] ELSE Unmeasured],
   days  |-> [n \in Names |-> [d \in 1..2 |-> IF n \in users THEN 2 ELSE 0]],
   spent |-> [n \in Names |-> IF n \in users THEN 3 ELSE 0]]

ImportScenario == [Quiet EXCEPT !.name = "import", !.anytime = TRUE, !.ops = {"import", "patch"}, !.requests = 2,
  !.patches = {"speedLimit" :> Number(1)}, !.unsets = {{}}, !.slots = 1, !.end = 4, !.spend = [n \in {"a"} |-> 1],
  !.bundles = {Bundle({"a"}, {"a"}), Bundle({"a", "b"}, {"a", "b"})}, !.spool = {"a"},
  !.faults = 1, !.faultKinds = {"apply"}]

LiveInit == Init /\ conf.name \in {"slots", "terms", "import"}
LiveSpec == LiveInit /\ [][Next]_vars /\ Fairness

ExtendInit == Init /\ conf.name = "extend"
ExtendSpec == ExtendInit /\ [][Next]_vars

MCScenarios == {SlotScenario, TermScenario, ExtendScenario, TrafficScenario, IpScenario, ImportScenario}
=============================================================================
