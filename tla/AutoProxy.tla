------------------------------ MODULE AutoProxy ------------------------------
(***************************************************************************)
(* The autoProxy prober: `proxy-ctl proxy auto learn|forget|relearn|clear` *)
(* (src/pkgs/proxy-ctl/proxy_ctl.py) queue files in a spool, and runs of   *)
(* autoproxy-run.template.sh take them, probe hosts through the exits, and *)
(* keep the routes they learn in a state file, rendered into rule-sets.    *)
(*                                                                         *)
(* Runs take turns on the state's lock: the next one begins as the last is *)
(* over.  What a probe says is any verdict that the uplink allows; what is *)
(* due to be probed again is any choice.  A request has a number, and is   *)
(* followed by it to where it ends.                                        *)
(***************************************************************************)
EXTENDS Integers, Sequences, SequencesExt

CONSTANTS
  Hosts, Domains, DomainOf,  \* names, and the registrable domain of each
  Excluded,                  \* autoProxy.exclude, as domains
  Exits,
  PerRun,                    \* probesPerRun
  Budgets,                   \* bounds, one of them: commands (all of them, cmds of them left),
                             \* runs and their modes, kills, turns of the world
  None

VARIABLES
  spool,   \* the queued files, oldest first
  half,    \* relearns whose forget is queued and whose request is not: [id -> host]
  st,      \* state.json: routes, verdicts and the backlog
  rules,   \* the rule-sets: [domain -> exit or None]
  run,     \* the run under way, or None
  world,   \* uplink up, whether this host's address is new, the probe listeners' exits
  ends,    \* where each request that is over ended: [id -> how]
  stale,   \* a run was killed, and nothing rendered since
  left     \* what is left of the budget

vars == <<spool, half, st, rules, run, world, ends, stale, left>>

Modes == {"full", "learn"}
Spend(what) == left[what] > 0 /\ left' = [left EXCEPT ![what] = @ - 1]

\* A queued file: an edit of a domain (None: all), or requests, each a host and who asked.
Edit(id, domain) == [kind |-> "edit", id |-> id, domain |-> domain]
Requests(rows)   == [kind |-> "requests", rows |-> rows]
Row(host, ids)   == [host |-> host, ids |-> ids]

Edits(s)   == SelectSeq(s, LAMBDA f : f.kind = "edit")
Queued(s)  == FlattenSeq([i \in DOMAIN s |-> IF s[i].kind = "requests" THEN s[i].rows ELSE <<>>])
IdsOf(rows) == UNION {rows[i].ids : i \in DOMAIN rows}

-----------------------------------------------------------------------------
(* The state and the rule-sets                                             *)

NoRoute == [d \in Domains |-> None]
NoVerdict == [h \in Hosts |-> None]

\* autoproxy-edit.jq
Forget(s, domain) ==
  LET gone(d) == domain \in {None, d}
  IN  [routes |-> [d \in Domains |-> IF gone(d) THEN None ELSE s.routes[d]],
       judged |-> [h \in Hosts |-> IF gone(DomainOf[h]) THEN None ELSE s.judged[h]],
       backlog |-> IF domain = None THEN s.backlog ELSE {h \in s.backlog : ~gone(DomainOf[h])}]

ForgetAll(s, gone) == [s EXCEPT !.routes = [d \in Domains |-> IF d \in gone THEN None ELSE @[d]],
                                !.judged = [h \in Hosts |-> IF DomainOf[h] \in gone THEN None ELSE @[h]],
                                !.backlog = {h \in @ : DomainOf[h] \notin gone}]

\* render: the routes whose exit there is, but the excluded.
Rendered(s, index) ==
  [d \in Domains |-> IF s.routes[d] # None /\ d \notin Excluded /\ s.routes[d].exit \in index
                     THEN s.routes[d].exit ELSE None]
Publish(s) == rules' = Rendered(s, world.index) /\ stale' = FALSE

\* record: a route is the whole domain's, a verdict the host's.
Routes(result) == result.verdict = "destination"
Record(s, host, result) ==
  [s EXCEPT !.routes[DomainOf[host]] = IF Routes(result) THEN [exit |-> result.exit, host |-> host, by |-> "probe"] ELSE @,
            !.judged[host] = result.verdict, !.backlog = @ \ {host}]

\* What a probe may come to: nothing is reached without an uplink.
Result(verdict, exit) == [verdict |-> verdict, exit |-> exit]
Results == {Result("error", None), Result("unreachable", None)}
           \union IF world.up THEN {Result("ok", None), Result("both-fail", None)}
                                   \union {Result("destination", e) : e \in world.index}
           ELSE {}

-----------------------------------------------------------------------------
(* Commands                                                                *)

Asks == Spend("cmds") /\ UNCHANGED <<st, rules, run, world, ends, stale>>
Id   == left.cmds
\* How what was asked ended.
End(ids, how) == ends' = [i \in DOMAIN ends \union ids |-> IF i \in ids THEN how ELSE ends[i]]

Learn(host) == Asks /\ spool' = Append(spool, Requests(<<Row(host, {Id})>>)) /\ UNCHANGED half
ForgetCmd(domain) ==
  /\ Spend("cmds")
  /\ spool' = Append(spool, Edit(Id, domain)) /\ End({Id}, "edit")
  /\ UNCHANGED <<half, st, rules, run, world, stale>>

\* _autoproxy_learned looks the domain up, the forget is queued, and then the request.
Relearn(host) ==
  /\ Asks /\ spool' = Append(spool, Edit(Id, DomainOf[host]))
  /\ half' = [id \in DOMAIN half \union {Id} |-> IF id = Id THEN host ELSE half[id]]
RelearnAsks(id) ==
  /\ spool' = Append(spool, Requests(<<Row(half[id], {id})>>))
  /\ half' = [i \in DOMAIN half \ {id} |-> half[i]]
  /\ UNCHANGED <<st, rules, run, world, ends, stale, left>>

-----------------------------------------------------------------------------
(* A run                                                                   *)

Learned(s) == [routes |-> s.routes, judged |-> s.judged]
At(mode, pc) == [mode |-> mode, pc |-> pc, edits |-> {}, edited |-> FALSE, asked |-> <<>>, due |-> {}, again |-> {},
                 seen |-> {}, routed |-> {}, probed |-> 0, dark |-> ~world.up, kept |-> Learned(st)]
To(pc)   == run' = [run EXCEPT !.pc = pc]
In(pcs)  == run # None /\ run.pc \in pcs
\* Edits are taken as the run comes to them; one queued later waits.
EditIds(s) == {Edits(s)[i].id : i \in DOMAIN Edits(s)}
Begin(mode) ==
  /\ run = None /\ mode \in left.modes /\ Spend("runs")
  /\ run' = [At(mode, "edits") EXCEPT !.edits = EditIds(spool)]
  /\ UNCHANGED <<spool, half, st, rules, world, ends, stale>>

\* apply_edits: each applied, and its file removed.
EditStep ==
  /\ In({"edits", "later"}) /\ run.edits # {}
  /\ LET edit == CHOOSE f \in Range(Edits(spool)) : f.id \in run.edits /\ \A id \in run.edits : id <= f.id
     IN  /\ st' = Forget(st, edit.domain)
         /\ spool' = SelectSeq(spool, LAMBDA f : f # edit)
         /\ run' = [run EXCEPT !.edits = @ \ {edit.id}, !.edited = TRUE, !.kept = Learned(st')]
  /\ UNCHANGED <<half, rules, world, ends, stale, left>>

\* Routes of what is excluded now, and of exits that are gone, are forgotten too.  With
\* the proxy stopped that is all: its start renders.
Stopped == world.index = {}
Gone    == {d \in Domains : st.routes[d] # None /\ (d \in Excluded \/ (~Stopped /\ st.routes[d].exit \notin world.index))}
GoneStep ==
  /\ In({"edits"}) /\ run.edits = {}
  /\ st' = ForgetAll(st, Gone)
  /\ IF Stopped THEN run' = None /\ UNCHANGED <<rules, stale>>
     ELSE /\ run' = [run EXCEPT !.pc = "egress", !.kept = Learned(st')]
          /\ IF run.edited \/ Gone # {} THEN Publish(st') ELSE UNCHANGED <<rules, stale>>
  /\ UNCHANGED <<spool, half, world, ends, left>>

\* Mutant: an outage is looked for at the start of a run only.
Offline_atStart == FALSE
\* online
Offline == ~world.up

\* Verdicts are about this host's address; without an uplink a full run is over.
Egress ==
  /\ In({"egress"})
  /\ IF world.up /\ world.moved
     THEN st' = [st EXCEPT !.routes = NoRoute, !.judged = NoVerdict] /\ world' = [world EXCEPT !.moved = FALSE]
     ELSE UNCHANGED <<st, world>>
  /\ IF run.mode = "learn" THEN To("take")
     ELSE IF ~world.up THEN run' = None
     ELSE \E due \in SUBSET {d \in Domains : st'.routes[d] # None /\ st'.routes[d].by = "probe"} :
            run' = [run EXCEPT !.pc = "recheck", !.due = due]
  /\ UNCHANGED <<spool, half, rules, ends, stale, left>>

\* 3. A remembered exit that no longer works is dropped, and its host probed again.
Recheck ==
  /\ In({"recheck"}) /\ run.due # {}
  /\ \E d \in run.due, result \in Results :
       LET next  == [run EXCEPT !.due = @ \ {d}]
           route == st.routes[d]
           bare  == [st EXCEPT !.routes[d] = None]
       IN  CASE result.verdict = "error" \/ result = Result("destination", route.exit) ->
                  run' = next /\ UNCHANGED <<st, rules, stale>>
             [] result.verdict = "ok" -> st' = Record(bare, route.host, result) /\ Publish(st') /\ run' = next
             [] result.verdict = "unreachable" /\ Offline -> Publish(st) /\ run' = None /\ UNCHANGED st
             [] OTHER -> /\ st' = bare /\ Publish(st')
                         /\ run' = [next EXCEPT !.again = @ \union {route.host}]
  /\ UNCHANGED <<spool, half, world, ends, left>>

\* 4. What clients dialled is queued, but what a route covers or a verdict spares; old
\* verdicts go.
Collect ==
  /\ In({"recheck"}) /\ run.due = {}
  /\ \E dialled \in {{}} \union {{h} : h \in Hosts}, old \in {{}, Hosts} :
       st' = [st EXCEPT !.judged = [h \in Hosts |-> IF h \in old THEN None ELSE @[h]],
                        !.backlog = {h \in @ \union {h \in dialled : st.judged[h] = None /\ DomainOf[h] \notin Excluded} :
                                       st.routes[DomainOf[h]] = None}]
  /\ To("slow")
  /\ UNCHANGED <<spool, half, rules, world, ends, stale, left>>

\* 4b. A domain that crawls gets the next exit that answers it, if any does.
Slow ==
  /\ In({"slow"})
  /\ \/ To("take") /\ UNCHANGED <<st, rules, stale>>
     \/ Offline /\ Publish(st) /\ run' = None /\ UNCHANGED st
     \/ \E d \in Domains \ Excluded :
          /\ world.up
          /\ \E e \in world.index :
               st' = [st EXCEPT !.routes[d] = [exit |-> e, host |-> CHOOSE h \in Hosts : DomainOf[h] = d, by |-> "slow"]]
          /\ Publish(st') /\ To("take")
  /\ UNCHANGED <<spool, half, world, ends, left>>

\* 5. The requests are taken, each host once; what is excluded is dropped.
Merged(rows) ==
  LET hosts == FoldSeq(LAMBDA row, done : IF row.host \in Range(done) THEN done ELSE <<row.host>> \o done, <<>>, Reverse(rows))
  IN  [i \in DOMAIN hosts |-> Row(hosts[i], IdsOf(SelectSeq(rows, LAMBDA row : row.host = hosts[i])))]
Included(rows) == SelectSeq(rows, LAMBDA row : DomainOf[row.host] \notin Excluded)
Out(rows)      == SelectSeq(rows, LAMBDA row : DomainOf[row.host] \in Excluded)

\* Mutant: edits queued since the run began wait for the next.
LaterEdits_next == {}
\* Edits queued since the run began are taken after the requests.
LaterEdits == EditIds(spool)

TakeStep ==
  /\ In({"take"})
  /\ run' = [run EXCEPT !.pc = "taken", !.asked = Merged(Included(Queued(spool))), !.edited = FALSE]
  /\ spool' = Edits(spool)
  /\ End(IdsOf(Out(Queued(spool))), "excluded")
  /\ UNCHANGED <<half, st, rules, world, stale, left>>

TakeEdits ==
  /\ In({"taken"})
  /\ run' = [run EXCEPT !.pc = "later", !.edits = LaterEdits]
  /\ UNCHANGED <<spool, half, st, rules, world, ends, stale, left>>

\* Then what they changed is published, and the requests past probesPerRun go back.
Respool ==
  /\ In({"later"}) /\ run.edits = {}
  /\ IF run.edited THEN Publish(st) ELSE UNCHANGED <<rules, stale>>
  /\ LET rest == SubSeq(run.asked, PerRun + 1, Len(run.asked))
     IN  spool' = IF rest = <<>> THEN spool ELSE Append(spool, Requests(rest))
  /\ run' = [run EXCEPT !.pc = "ask", !.asked = SubSeq(@, 1, Min({PerRun, Len(@)}))]
  /\ UNCHANGED <<half, st, world, ends, left>>

\* probe_row: not a host twice, nor one of a domain routed in this run.
Skips(host) == host \in run.seen \/ DomainOf[host] \in run.routed \/ DomainOf[host] \in Excluded
Probed(host, result) ==
  [run EXCEPT !.seen = @ \union {host}, !.routed = IF Routes(result) THEN @ \union {DomainOf[host]} ELSE @]
Recorded(host, result) ==
  IF result.verdict = "error" THEN UNCHANGED <<st, rules, stale>>
  ELSE /\ st' = Record(st, host, result)
       /\ IF Routes(result) THEN Publish(st') ELSE UNCHANGED <<rules, stale>>
LeftOffline(result) == result.verdict = "unreachable" /\ Offline

\* Offline, the requests from this one on go back.
Ask ==
  /\ In({"ask"}) /\ run.asked # <<>>
  /\ LET row == Head(run.asked)
     IN  IF Skips(row.host)
         THEN run' = [run EXCEPT !.asked = Tail(@)] /\ End(row.ids, "covered") /\ UNCHANGED <<spool, st, rules, stale>>
         ELSE \E result \in Results :
                IF LeftOffline(result)
                THEN /\ spool' = Append(spool, Requests(run.asked)) /\ run' = None
                     /\ Publish(st) /\ UNCHANGED <<st, ends>>
                ELSE /\ run' = [Probed(row.host, result) EXCEPT !.asked = Tail(@)]
                     /\ Recorded(row.host, result)
                     /\ End(row.ids, IF result.verdict = "error" THEN "error" ELSE "judged") /\ UNCHANGED spool
  /\ UNCHANGED <<half, world, left>>

\* Then what was dropped above and the backlog, probesPerRun of them.
ToProbe == {h \in run.again \union (IF run.mode = "full" THEN {h \in st.backlog : st.judged[h] = None} ELSE {}) : ~Skips(h)}
Queue ==
  /\ In({"ask"}) /\ run.asked = <<>> /\ ToProbe # {} /\ run.probed < PerRun
  /\ \E host \in ToProbe, result \in Results :
       IF LeftOffline(result) THEN Publish(st) /\ run' = None /\ UNCHANGED st
       ELSE /\ run' = [Probed(host, result) EXCEPT !.probed = @ + 1]
            /\ Recorded(host, result)
  /\ UNCHANGED <<spool, half, world, ends, left>>

Finish ==
  /\ In({"ask"}) /\ run.asked = <<>> /\ (ToProbe = {} \/ run.probed = PerRun)
  /\ Publish(st) /\ run' = None
  /\ UNCHANGED <<spool, half, st, world, ends, left>>

RunStep == EditStep \/ GoneStep \/ Egress \/ Recheck \/ Collect \/ Slow \/ TakeStep \/ TakeEdits \/ Respool \/ Ask \/ Queue \/ Finish

\* A run past its two hours is killed; the requests it has taken are gone.  An edit may
\* have been applied and its file left.
Kill ==
  /\ run # None /\ Spend("kills")
  /\ run' = None /\ stale' = TRUE
  /\ End(IdsOf(run.asked), "killed")
  /\ st' \in {st} \union {Forget(st, f.domain) : f \in {f \in Range(Edits(spool)) : f.id \in run.edits}}
  /\ UNCHANGED <<spool, half, rules, world>>

-----------------------------------------------------------------------------
\* The uplink comes and goes, the address changes, and the proxy is stopped or started,
\* which renders.
Turn ==
  /\ Spend("turns")
  /\ \/ /\ world' = [world EXCEPT !.up = ~@] /\ UNCHANGED <<rules, stale>>
        /\ run' = IF run = None THEN None ELSE [run EXCEPT !.dark = world.up, !.kept = Learned(st)]
     \/ world' = [world EXCEPT !.moved = TRUE] /\ ~world.moved /\ UNCHANGED <<rules, stale, run>>
     \/ \E index \in SUBSET Exits :
          /\ index # world.index /\ world' = [world EXCEPT !.index = index] /\ UNCHANGED run
          /\ IF index = {} THEN UNCHANGED <<rules, stale>> ELSE rules' = Rendered(st, index) /\ stale' = FALSE
  /\ UNCHANGED <<spool, half, st, ends>>

Init ==
  /\ spool = <<>> /\ half = <<>> /\ run = None /\ ends = <<>> /\ stale = FALSE
  /\ \E d \in Domains, up \in BOOLEAN :
       /\ st = [routes |-> [NoRoute EXCEPT ![d] = [exit |-> CHOOSE e \in Exits : TRUE, host |-> CHOOSE h \in Hosts : DomainOf[h] = d, by |-> "probe"]],
                judged |-> NoVerdict, backlog |-> {}]
       /\ world = [up |-> up, moved |-> FALSE, index |-> Exits]
  /\ rules = Rendered(st, world.index)
  /\ left \in Budgets

Next ==
  \/ \E host \in Hosts : Learn(host) \/ Relearn(host)
  \/ \E domain \in Domains \union {None} : ForgetCmd(domain)
  \/ \E id \in DOMAIN half : RelearnAsks(id)
  \/ \E mode \in Modes : Begin(mode)
  \/ RunStep \/ Kill \/ Turn

-----------------------------------------------------------------------------
\* Every way out of a run leaves the rule-sets as the state has the routes.
RulesFollow == (run = None /\ ~stale /\ ~Stopped) => rules = Rendered(st, world.index)

\* A relearn's own forget does not wipe what its request learned.
RelearnKeeps == \A id \in DOMAIN ends : ends[id] = "judged" => id \notin EditIds(spool)

\* A request is queued, with a run, or over: none is dropped but with a killed run.
Waiting == DOMAIN half \union IdsOf(Queued(spool)) \union (IF run = None THEN {} ELSE IdsOf(run.asked))
NoneForgotten == \A id \in left.cmds + 1..left.all : id \in Waiting \union DOMAIN ends

\* While nothing answers, a run neither learns nor drops a route.
OutageKeeps ==
  (run # None /\ run.dark) =>
    /\ st.routes = run.kept.routes
    /\ \A h \in Hosts : st.judged[h] \in {run.kept.judged[h], None}

=============================================================================
