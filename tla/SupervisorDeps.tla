--------------------------- MODULE SupervisorDeps ---------------------------
(***************************************************************************)
(* Units of the process supervisor that require, want, are bound to or     *)
(* conflict with one another: start, stop, restart, reload, shutdown, the  *)
(* timers and what watch() does for a restart, of                          *)
(* src/pkgs/proxy-ctl/proxy_supervisor.py.                                 *)
(*                                                                         *)
(* A unit's own start and stop are ServiceLife's, under its job.  A thread *)
(* runs a list of instructions: each call puts what it does in front, so   *)
(* a thread is in as many calls as are not yet done.  A request, a timer's *)
(* run and a restart take turns at every instruction.                      *)
(***************************************************************************)
EXTENDS Naturals, Sequences, FiniteSets
LOCAL INSTANCE SequencesExt

CONSTANTS
  UnitList,    \* the units, in the manifest's order
  Clients,     \* request and timer threads; a unit names its watch() thread
  None,
  Topologies   \* what the manifest says, one of them in each behaviour; bounds: calls,
               \* of requests and timers' runs, and exits, of main processes

Units   == ToSet(UnitList)
Threads == Clients \union Units

VARIABLES
  topo,     \* the topology
  state,    \* Unit.state
  cancel,   \* Unit.cancel
  ever,     \* units with a last_activated
  job,      \* Unit.job: its holder, or None
  todo,     \* [Threads -> instructions]
  ret,      \* [Threads -> the status that the last call returned]
  started,  \* [Threads -> seen of the start under way]
  stopped,  \* [Threads -> seen of the stop under way]
  timers,   \* units whose timer or path is active
  lost,     \* units that the manifest no longer has
  popped,   \* units that the daemon has forgotten
  quit,     \* the daemon ends
  calls, exits,
  asked,    \* history: [Clients -> the request under way, or None]
  others,   \* history: [Clients -> units that others activated since it came]
  hurt      \* history: [Clients -> units that failed, ended or were stopped by others since]

dvars == <<topo, state, cancel, ever, job, todo, ret, started, stopped, timers, lost, popped,
           quit, calls, exits, asked, others, hurt>>

conf   == <<topo, timers, lost, popped, quit, calls, exits>>
ghosts == <<asked, others, hurt>>

Running == {"active", "activating", "auto-restart"}
Halted     == {"inactive", "failed"}

-----------------------------------------------------------------------------
(* Instructions                                                             *)

I(do, u)       == [do |-> do, u |-> u]
Skip(do, u, n) == [do |-> do, u |-> u, n |-> n]   \* n: how many to drop
All(do, us)    == [i \in 1..Len(us) |-> I(do, us[i])]

At(t, do) == todo[t] # <<>> /\ Head(todo[t]).do = do
Arg(t)    == Head(todo[t]).u
Do(t, is) == todo' = [todo EXCEPT ![t] = is \o Tail(@)]
Drop(t)   == todo' = [todo EXCEPT ![t] = SubSeq(@, Head(@).n + 2, Len(@))]
Return(t, status) == ret' = [ret EXCEPT ![t] = status] /\ Do(t, <<>>)

\* deps: what the manifest no longer has is left out.
Defined(u)   == u \notin lost
Deps(u)      == SelectSeq(topo.requires[u], Defined)
WantsOf(u)   == SelectSeq(topo.wants[u], Defined)
WantedBy(u)  == SelectSeq(UnitList, LAMBDA v : v \notin lost /\ u \in topo.wantedBy[v])
BoundTo(v)   == topo.partOf[v] \union ToSet(topo.requires[v])
Bound(u)     == SelectSeq(UnitList, LAMBDA v : v \notin popped /\ v # u /\ u \in BoundTo(v))

\* running_bound: those bound to it, and to those.
RunningBound(u) ==
  LET Up(us)  == {v \in Units : state[v] \in Running /\ \E w \in us : v \in ToSet(Bound(w))}
      found[n \in 0..Len(UnitList)] == IF n = 0 THEN Up({u}) ELSE found[n - 1] \union Up(found[n - 1])
  IN  found[Len(UnitList)]

-----------------------------------------------------------------------------
(* What others see of a state's change                                      *)

Activated(t, u)  == /\ others' = [c \in Clients |-> IF c # t /\ asked[c] # None THEN others[c] \union {u} ELSE others[c]]
                   /\ UNCHANGED <<asked, hurt>>
Hurt(u)          == /\ hurt' = [c \in Clients |-> IF asked[c] # None THEN hurt[c] \union {u} ELSE hurt[c]]
                   /\ UNCHANGED <<asked, others>>
HurtOthers(t, u) == /\ hurt' = [c \in Clients |-> IF c # t /\ asked[c] # None THEN hurt[c] \union {u} ELSE hurt[c]]
                   /\ UNCHANGED <<asked, others>>

-----------------------------------------------------------------------------
(* start                                                                    *)

\* What start(u) does after seen: each required unit and a look at how it
\* went, which ends the whole call if it did not come up.
StartCalls(u) ==
  LET rs     == Deps(u)
      after  == WantedBy(u)
      wanted == IF after = <<>> THEN <<>>
                ELSE <<Skip("ifUp", u, Len(after) + 1)>> \o All("start", after) \o <<I("ok", u)>>
      rest   == All("start", WantsOf(u)) \o <<I("activate", u)>> \o wanted
  IN  All("stopAnew", SelectSeq(topo.conflicts[u], Defined))
      \o [i \in 1..2 * Len(rs) |->
            IF i % 2 = 1 THEN I("start", rs[(i + 1) \div 2])
            ELSE Skip("required", u, 2 * Len(rs) - i + Len(rest))]
      \o rest

Start(t, anew) ==
  LET u    == Arg(t)
      seen == IF anew THEN {} ELSE started[t]
  IN  /\ At(t, IF anew THEN "startAnew" ELSE "start")
      /\ started' = [started EXCEPT ![t] = seen \union {u}]
      /\ CASE u \in popped -> Return(t, 5)
           [] u \in seen   -> Return(t, 0)
           [] OTHER        -> Do(t, StartCalls(u)) /\ UNCHANGED ret
      /\ UNCHANGED <<conf, ghosts, state, cancel, ever, job, stopped>>

\* A required unit did not come up: FAILED, without the job.
Required(t) ==
  LET u == Arg(t)
  IN  /\ At(t, "required")
      /\ IF ret[t] = 0 THEN Do(t, <<>>) /\ UNCHANGED <<state, ret, ghosts>>
         ELSE /\ Drop(t) /\ ret' = [ret EXCEPT ![t] = 1]
              /\ state' = [state EXCEPT ![u] = IF @ \in Halted THEN "failed" ELSE @]
              /\ Hurt(u)
      /\ UNCHANGED <<conf, cancel, ever, job, started, stopped>>

IfUp(t) ==
  /\ At(t, "ifUp")
  /\ IF ret[t] = 0 THEN Do(t, <<>>) ELSE Drop(t)
  /\ UNCHANGED <<conf, ghosts, state, cancel, ever, job, ret, started, stopped>>

Ok(t) ==
  /\ At(t, "ok") /\ Return(t, 0)
  /\ UNCHANGED <<conf, ghosts, state, cancel, ever, job, started, stopped>>

Free(t, u) == job[u] \in {None, t}

Begin(t, u) ==
  /\ job' = [job EXCEPT ![u] = t]
  /\ state' = [state EXCEPT ![u] = "activating"]
  /\ cancel' = [cancel EXCEPT ![u] = FALSE]
  /\ ever' = ever \union {u}
  /\ Do(t, <<I("activated", u)>>)
  /\ Activated(t, u)
  /\ UNCHANGED ret

\* A condition that is not met, or too many starts.
Refused(t, u) ==
  \E failed \in BOOLEAN :
    /\ topo.refuses
    /\ IF failed THEN Return(t, 1) ELSE Return(t, 0)
    /\ state' = [state EXCEPT ![u] = IF failed THEN "failed" ELSE IF @ = "auto-restart" THEN "inactive" ELSE @]
    /\ cancel' = [cancel EXCEPT ![u] = @ \/ state[u] = "auto-restart"]
    /\ Hurt(u)
    /\ UNCHANGED <<job, ever>>

Activate(t) ==
  LET u == Arg(t)
  IN  /\ At(t, "activate") /\ Free(t, u)
      /\ \/ state[u] \in Running \ {"auto-restart"} /\ Return(t, 0)
            /\ UNCHANGED <<ghosts, state, cancel, ever, job>>
         \/ state[u] \notin Running \ {"auto-restart"} /\ (Begin(t, u) \/ Refused(t, u))
      /\ UNCHANGED <<conf, started, stopped>>

\* It comes up, fails, or as a oneshot is over.
ActivateEnds(t) ==
  LET u == Arg(t)
  IN  /\ At(t, "activated")
      /\ job' = [job EXCEPT ![u] = None]
      /\ \/ /\ u \notin topo.oneshot
            /\ state' = [state EXCEPT ![u] = "active"]
            /\ Return(t, 0) /\ UNCHANGED ghosts
         \/ /\ u \in topo.oneshot
            /\ state' = [state EXCEPT ![u] = "inactive"]
            /\ Return(t, 0) /\ Hurt(u)
         \/ /\ topo.fails
            /\ state' = [state EXCEPT ![u] = "failed"]
            /\ Return(t, 1) /\ Hurt(u)
      /\ UNCHANGED <<conf, cancel, ever, started, stopped>>

-----------------------------------------------------------------------------
(* stop                                                                     *)

\* Mutant: the job is taken before the bound units are stopped.
Stop_holding(t, anew) ==
  LET u    == Arg(t)
      seen == IF anew THEN {} ELSE stopped[t]
  IN  /\ At(t, IF anew THEN "stopAnew" ELSE "stop")
      /\ u \notin popped /\ Free(t, u)
      /\ job' = [job EXCEPT ![u] = t]
      /\ stopped' = [stopped EXCEPT ![t] = seen \union {u}]
      /\ cancel' = [cancel EXCEPT ![u] = TRUE]
      /\ Do(t, All("bound", Bound(u)) \o <<I("down", u)>>)
      /\ UNCHANGED <<conf, ghosts, state, ever, ret, started>>

Stop(t, anew) ==
  LET u    == Arg(t)
      seen == IF anew THEN {} ELSE stopped[t]
  IN  /\ At(t, IF anew THEN "stopAnew" ELSE "stop")
      /\ IF u \in popped THEN Return(t, 5) /\ UNCHANGED <<stopped, cancel>>
         ELSE /\ stopped' = [stopped EXCEPT ![t] = seen \union {u}]
              /\ cancel' = [cancel EXCEPT ![u] = TRUE]
              /\ Do(t, All("bound", Bound(u)) \o <<I("down", u)>>)
              /\ UNCHANGED ret
      /\ UNCHANGED <<conf, ghosts, state, ever, job, started>>

\* Mutant: what waits for its restart is not running.
StopBound_active(t) ==
  LET v == Arg(t)
  IN  /\ At(t, "bound")
      /\ Do(t, IF state[v] \in {"active", "activating"} /\ v \notin stopped[t] THEN <<I("stop", v)>> ELSE <<>>)
      /\ UNCHANGED <<conf, ghosts, state, cancel, ever, job, ret, started, stopped>>

\* Those bound to it go first.
StopBound(t) ==
  LET v == Arg(t)
  IN  /\ At(t, "bound")
      /\ Do(t, IF state[v] # "inactive" /\ v \notin stopped[t] THEN <<I("stop", v)>> ELSE <<>>)
      /\ UNCHANGED <<conf, ghosts, state, cancel, ever, job, ret, started, stopped>>

Down(t) ==
  LET u == Arg(t)
  IN  /\ At(t, "down") /\ Free(t, u)
      /\ IF state[u] \in Halted \union {"auto-restart"}
         THEN /\ state' = [state EXCEPT ![u] = "inactive"]
              /\ job' = [job EXCEPT ![u] = None]
              /\ Return(t, 0)
         ELSE /\ state' = [state EXCEPT ![u] = "deactivating"]
              /\ job' = [job EXCEPT ![u] = t]
              /\ Do(t, <<I("stopped", u)>>) /\ UNCHANGED ret
      /\ HurtOthers(t, u)
      /\ UNCHANGED <<conf, cancel, ever, started, stopped>>

StopEnds(t) ==
  LET u == Arg(t)
  IN  /\ At(t, "stopped")
      /\ state' = [state EXCEPT ![u] = "inactive"]
      /\ job' = [job EXCEPT ![u] = None]
      /\ Return(t, 0)
      /\ UNCHANGED <<conf, ghosts, cancel, ever, started, stopped>>

-----------------------------------------------------------------------------
(* A main process exits; watch()                                            *)

Exit(u) ==
  /\ exits < topo.exits /\ state[u] = "active" /\ job[u] = None /\ todo[u] = <<>>
  /\ exits' = exits + 1
  /\ IF u \in topo.restart
     THEN /\ state' = [state EXCEPT ![u] = "auto-restart"]
          /\ todo' = [todo EXCEPT ![u] = <<I("wait", u), I("done", u)>>]
          /\ UNCHANGED ghosts
     ELSE /\ state' = [state EXCEPT ![u] = "failed"]
          /\ Hurt(u) /\ UNCHANGED todo
  /\ UNCHANGED <<topo, timers, lost, popped, quit, calls, cancel, ever, job, ret, started, stopped>>

\* RestartSec= is up, or the wait is called off.
Wait(u) ==
  LET rs   == Deps(u)
      rest == All("startAnew", WantsOf(u)) \o <<I("again", u), I("wanted", u)>>
  IN  /\ At(u, "wait")
      /\ Do(u, IF cancel[u] THEN <<>>
               ELSE [i \in 1..2 * Len(rs) |->
                       IF i % 2 = 1 THEN I("startAnew", rs[(i + 1) \div 2])
                       ELSE Skip("giveUp", u, 2 * Len(rs) - i + Len(rest))]
                    \o rest)
      /\ UNCHANGED <<conf, ghosts, state, cancel, ever, job, ret, started, stopped>>

GiveUp(u) ==
  /\ At(u, "giveUp") /\ (ret[u] = 0 \/ Free(u, u))
  /\ IF ret[u] = 0 THEN Do(u, <<>>) /\ UNCHANGED <<state, ghosts>>
     ELSE /\ Drop(u)
          /\ IF state[u] = "auto-restart" /\ ~cancel[u]
             THEN state' = [state EXCEPT ![u] = "failed"] /\ Hurt(u)
             ELSE UNCHANGED <<state, ghosts>>
  /\ UNCHANGED <<conf, cancel, ever, job, ret, started, stopped>>

\* activate(restarting): not what a stop or a start has called off.
Again(u) ==
  /\ At(u, "again") /\ Free(u, u)
  /\ \/ /\ state[u] # "auto-restart" \/ cancel[u]
        /\ Return(u, 0) /\ UNCHANGED <<ghosts, state, cancel, ever, job>>
     \/ /\ state[u] = "auto-restart" /\ ~cancel[u]
        /\ Begin(u, u) \/ Refused(u, u)
  /\ UNCHANGED <<conf, started, stopped>>

Wanted(u) ==
  /\ At(u, "wanted")
  /\ Do(u, IF ret[u] = 0 /\ state[u] = "active" THEN All("startAnew", WantedBy(u)) ELSE <<>>)
  /\ UNCHANGED <<conf, ghosts, state, cancel, ever, job, ret, started, stopped>>

-----------------------------------------------------------------------------
(* Requests                                                                 *)

Ask(c, request, is) ==
  /\ ~quit /\ calls < topo.calls /\ todo[c] = <<>>
  /\ calls' = calls + 1
  /\ todo' = [todo EXCEPT ![c] = is \o <<I("done", request.u)>>]
  /\ asked' = [asked EXCEPT ![c] = request]
  /\ UNCHANGED <<topo, popped, quit, exits, state, cancel, job, ret, started, stopped, others, hurt>>

Request(verb, u, us) == [verb |-> verb, u |-> u, us |-> us]

RestartCalls(u, bound) == <<I("stopAnew", u), I("startAnew", u), [do |-> "back", u |-> u, us |-> bound]>>

Verb(c, u) ==
  /\ u \notin popped
  /\ \/ "start" \in topo.verbs /\ Ask(c, Request("start", u, {}), <<I("startAnew", u)>>)
     \/ "stop" \in topo.verbs /\ Ask(c, Request("stop", u, RunningBound(u) \union {u}), <<I("stopAnew", u)>>)
     \/ "restart" \in topo.verbs /\ LET bound == RunningBound(u)
                                    IN  Ask(c, Request("restart", u, bound), RestartCalls(u, bound))
     \/ "try-restart" \in topo.verbs /\ state[u] \in Running
        /\ LET bound == RunningBound(u) IN Ask(c, Request("restart", u, bound), RestartCalls(u, bound))
  /\ UNCHANGED <<timers, lost, ever>>

\* After the stop and the start, what was bound comes back, bar one that
\* cannot run without a unit that did not come up.
Back(c) ==
  LET u    == Arg(c)
      back == SelectSeq(UnitList, LAMBDA v : v \in Head(todo[c]).us /\ (ret[c] = 0 \/ u \notin ToSet(Deps(v))))
  IN  /\ At(c, "back")
      /\ Do(c, All("startAnew", back))
      /\ UNCHANGED <<conf, ghosts, state, cancel, ever, job, ret, started, stopped>>

\* The thread ends, and what it kept with it.
Done(t) ==
  /\ At(t, "done") /\ Do(t, <<>>)
  /\ ret' = [ret EXCEPT ![t] = 0]
  /\ started' = [started EXCEPT ![t] = {}] /\ stopped' = [stopped EXCEPT ![t] = {}]
  /\ asked' = [c \in Clients |-> IF c = t THEN None ELSE asked[c]]
  /\ others' = [c \in Clients |-> IF c = t THEN {} ELSE others[c]]
  /\ hurt' = [c \in Clients |-> IF c = t THEN {} ELSE hurt[c]]
  /\ UNCHANGED <<conf, state, cancel, ever, job>>

\* tick: a timer that is due counts as an activation, and runs in a thread of
\* its own; a path that changed starts its unit.
Fire(c, u) ==
  /\ u \in timers \ lost
  /\ Ask(c, Request("timer", u, {}), IF state[u] \in {"activating", "auto-restart"} THEN <<>> ELSE <<I("fresh", u)>>)
  /\ ever' = ever \union {u}
  /\ UNCHANGED <<timers, lost>>

Path(c, u) ==
  /\ u \in topo.paths \ lost
  /\ Ask(c, Request("path", u, {}), <<I("startAnew", u)>>)
  /\ UNCHANGED <<timers, lost, ever>>

\* activate_fresh: a oneshot that stayed active runs again.
Fresh(c) ==
  LET u == Arg(c)
  IN  /\ At(c, "fresh")
      /\ Do(c, IF state[u] = "active" /\ u \in topo.stays THEN <<I("stopAnew", u), I("startAnew", u)>>
               ELSE <<I("startAnew", u)>>)
      /\ UNCHANGED <<conf, ghosts, state, cancel, ever, job, ret, started, stopped>>

Boot(c) ==
  /\ "boot" \in topo.verbs /\ ever = {}
  /\ Ask(c, Request("boot", None, {}), All("startAnew", topo.boot))
  /\ UNCHANGED <<timers, lost, ever>>

\* reload with another manifest: what it no longer has is stopped and
\* forgotten, what changed restarts, what is new starts.
Reload(c) ==
  \E change \in topo.changes :
    /\ Ask(c, Request("reload", None, {}),
           [i \in 1..Len(UnitList) |-> I(IF UnitList[i] \in change.lost THEN "gone" ELSE "compare", UnitList[i])]
           \o <<[do |-> "changed", u |-> None, us |-> change.changed]>>
           \o All("new", topo.boot) \o All("newWanted", UnitList))
    /\ lost' = lost \union change.lost
    /\ UNCHANGED <<timers, ever>>

Gone(c) ==
  LET u == Arg(c)
  IN  /\ At(c, "gone")
      /\ Do(c, IF u \in popped THEN <<>>
               ELSE (IF state[u] \in Halted THEN <<>> ELSE <<I("stopAnew", u)>>) \o <<I("pop", u)>>)
      /\ UNCHANGED <<conf, ghosts, state, cancel, ever, job, ret, started, stopped>>

Pop(c) ==
  /\ At(c, "pop") /\ Do(c, <<>>)
  /\ popped' = popped \union {Arg(c)}
  /\ UNCHANGED <<topo, timers, lost, quit, calls, exits, ghosts, state, cancel, ever, job, ret, started, stopped>>

\* What is down is not among those that changed.
Compare(c) ==
  LET u      == Arg(c)
      But(i) == IF state[u] \in Halted /\ i.do = "changed" THEN [i EXCEPT !.us = @ \ {u}] ELSE i
  IN  /\ At(c, "compare")
      /\ todo' = [todo EXCEPT ![c] = [i \in 1..Len(@) - 1 |-> But(@[i + 1])]]
      /\ UNCHANGED <<conf, ghosts, state, cancel, ever, job, ret, started, stopped>>

\* restarted keeps what an earlier restart takes along from being restarted twice.
Changed(c) ==
  LET us    == Head(todo[c]).us
      first == SelectSeq(UnitList, LAMBDA u : u \in us /\ state[u] \in Running)
  IN  /\ At(c, "changed")
      /\ \/ first = <<>> /\ Do(c, <<>>) /\ timers' = timers \ lost
         \/ first # <<>> /\ UNCHANGED timers
            /\ LET u     == Head(first)
                   bound == RunningBound(u)
               IN  Do(c, RestartCalls(u, bound)
                         \o <<[do |-> "changed", u |-> None, us |-> us \ (bound \union {u})]>>)
      /\ UNCHANGED <<topo, lost, popped, quit, calls, exits, ghosts, state, cancel, ever, job, ret, started, stopped>>

New(c) ==
  LET u == Arg(c)
  IN  /\ At(c, "new")
      /\ Do(c, IF state[u] = "inactive" /\ u \notin ever \union lost THEN <<I("startAnew", u)>> ELSE <<>>)
      /\ UNCHANGED <<conf, ghosts, state, cancel, ever, job, ret, started, stopped>>

\* What a running unit has in its wake, had it been there.
NewWanted(c) ==
  LET u == Arg(c)
  IN  /\ At(c, "newWanted")
      /\ Do(c, IF state[u] = "active" THEN All("new", WantedBy(u)) ELSE <<>>)
      /\ UNCHANGED <<conf, ghosts, state, cancel, ever, job, ret, started, stopped>>

\* shutdown: the timers, then every unit that is up at that moment, in the
\* order of their last activation, which is any.
Shutdown(c) ==
  /\ "shutdown" \in topo.verbs
  /\ \E order \in SetToSeqs({u \in Units \ popped : state[u] \notin Halted}) :
       Ask(c, Request("shutdown", None, {}), All("stopAnew", order) \o <<I("quit", None)>>)
  /\ timers' = {} /\ UNCHANGED <<lost, ever>>

Quit(c) ==
  /\ At(c, "quit") /\ Do(c, <<>>)
  /\ quit' = TRUE
  /\ UNCHANGED <<topo, timers, lost, popped, calls, exits, ghosts, state, cancel, ever, job, ret, started, stopped>>

-----------------------------------------------------------------------------
Init ==
  /\ topo \in Topologies
  /\ state = [u \in Units |-> IF u \in topo.up THEN "active" ELSE "inactive"]
  /\ ever = topo.up
  /\ timers = topo.timers
  /\ cancel = [u \in Units |-> FALSE]
  /\ job = [u \in Units |-> None]
  /\ todo = [t \in Threads |-> <<>>]
  /\ ret = [t \in Threads |-> 0]
  /\ started = [t \in Threads |-> {}] /\ stopped = [t \in Threads |-> {}]
  /\ lost = {} /\ popped = {} /\ quit = FALSE
  /\ calls = 0 /\ exits = 0
  /\ asked = [c \in Clients |-> None]
  /\ others = [c \in Clients |-> {}] /\ hurt = [c \in Clients |-> {}]

Call(t) ==
  \/ \E anew \in BOOLEAN : Start(t, anew) \/ Stop(t, anew)
  \/ Required(t) \/ IfUp(t) \/ Ok(t) \/ Activate(t) \/ ActivateEnds(t)
  \/ StopBound(t) \/ Down(t) \/ StopEnds(t) \/ Done(t)

Watch(u) == Wait(u) \/ GiveUp(u) \/ Again(u) \/ Wanted(u)

Requests(c) ==
  \/ \E u \in Units : Verb(c, u) \/ Fire(c, u) \/ Path(c, u)
  \/ Boot(c) \/ Reload(c) \/ Shutdown(c)

Serve(c) == Back(c) \/ Fresh(c) \/ Gone(c) \/ Pop(c) \/ Compare(c) \/ Changed(c) \/ New(c) \/ NewWanted(c) \/ Quit(c)

\* A step that reads and sets nothing but its thread's own is taken at once:
\* when makes no difference to others.
Inner(t) == \/ At(t, "ifUp") \/ At(t, "ok") \/ At(t, "back") \/ At(t, "done")
            \/ ret[t] = 0 /\ (At(t, "required") \/ At(t, "giveUp"))
            \/ topo.changes = {} /\ (At(t, "start") \/ At(t, "startAnew"))

Step(t) == Call(t) \/ (t \in Units /\ (Exit(t) \/ Watch(t))) \/ (t \in Clients /\ (Requests(t) \/ Serve(t)))

\* Once it quits the daemon's threads are gone.
Next ==
  /\ ~quit
  /\ LET inner == {t \in Threads : Inner(t)}
     IN  \E t \in IF inner = {} THEN Threads ELSE inner : Step(t)

-----------------------------------------------------------------------------
Needs(v) ==
  LET found[n \in 0..Len(UnitList)] ==
        IF n = 0 THEN {v} ELSE found[n - 1] \union UNION {ToSet(topo.requires[w]) : w \in found[n - 1]}
  IN  found[Len(UnitList)]

\* "its stop and restart reach them" (bound, proxy_supervisor.py:645): a stop
\* leaves nothing up that was bound to the unit, and a shutdown nothing at all,
\* but what another thread has started, or cut off from the unit, since; a restart brings back all that it
\* took along, but what failed, ended or was stopped by others.
BoundFollow ==
  \A c \in Clients : At(c, "done") =>
    /\ asked[c].verb = "stop" => \A v \in asked[c].us \ popped : state[v] \in Halted \/ v \in others[c] \/ (asked[c].us \ {v}) \intersect hurt[c] # {}
    /\ asked[c].verb = "restart" => \A v \in asked[c].us \ popped : state[v] \in Running \/ Needs(v) \intersect hurt[c] # {}
    /\ asked[c].verb = "shutdown" => \A v \in Units \ popped : state[v] \in Halted \/ v \in others[c]

\* Nobody waits for a job that is not coming back, whoever requires, is bound
\* to or conflicts with whom: jobs are never taken inside jobs (start, stop).
Goes(t) == todo[t] # <<>> /\ (Call(t) \/ (t \in Units /\ Watch(t)) \/ (t \in Clients /\ Serve(t)))
NoneStuck == (\E t \in Threads : todo[t] # <<>>) /\ ~quit => ENABLED (\E t \in Threads : Goes(t))
=============================================================================
