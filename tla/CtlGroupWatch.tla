---------------------------- MODULE CtlGroupWatch ----------------------------
(***************************************************************************)
(* `proxy-ctl proxy groups watch` (GroupWatch of src/pkgs/proxy-ctl/       *)
(* proxy_ctl.py): tests the members of failover groups and moves each      *)
(* group to the first that works, while the backend is reloaded, members   *)
(* stop and start working and watchdogs leave hints.  Every test and every *)
(* move is a call of its own to the backend.                               *)
(*                                                                         *)
(* An inventory is [groups, selection, top, excluded, disabled, pinned];   *)
(* a group [strategy, failback, interval, members, pinned].  An outbound   *)
(* works, does not, or passes its tests but has a watchdog's no-ipv4 mark. *)
(***************************************************************************)
EXTENDS Integers, Sequences, FiniteSets
LOCAL INSTANCE SequencesExt

CONSTANTS
  Outbounds,
  Watchdogs,              \* those of Outbounds that a watchdog probes
  Inventories,            \* what the backend may be reloaded with; None: it is not there
  MissesDown, PassesUp,   \* GROUP_MISSES_DOWN, GROUP_PASSES_UP
  MaxChanges, MaxHints,   \* bounds
  Calm,                   \* passes after which an undisturbed watcher is done
  None

VARIABLES
  real,     \* the backend and its outbounds: [inv, now, works, hints]
  pass,     \* the pass under way: [step, inv, hinted, left, queue, results, nows]
  health,   \* [tags -> [up, misses, passes]]: counted no further than they are compared with
  due,      \* [groups -> passes until their next test]
  seen,     \* seen_hints
  changes, hinted,
  calm,     \* history: passes since the last change
  heard     \* history: [tags -> the hint that was there when it was last tested]

wvars == <<real, pass, health, due, seen, changes, hinted, calm, heard>>

Least(a, b) == IF a < b THEN a ELSE b
Elements(s) == ToSet(s)

\* GroupWatch.watched: "proxy" is the top level when its selection is failover.
Watched(inv) ==
  IF inv.selection # "failover" THEN inv.groups
  ELSE [g \in DOMAIN inv.groups \union {"proxy"} |->
          IF g # "proxy" THEN inv.groups[g]
          ELSE [strategy |-> "failover", failback |-> TRUE, interval |-> 1, pinned |-> inv.pinned,
                members |-> SelectSeq(inv.top, LAMBDA t : t \notin inv.excluded \union inv.disabled)]]

Members(groups, g) == SelectSeq(groups[g].members, LAMBDA m : m # "block")

\* GroupWatch.inner_first: every group after those it contains.
InnerFirst(groups) ==
  LET Order[n \in 0..Cardinality(DOMAIN groups)] ==
        IF n = 0 THEN <<>>
        ELSE LET left  == DOMAIN groups \ Elements(Order[n - 1])
                 ready == {g \in left : Elements(groups[g].members) \intersect left \subseteq {g}}
             IN  Append(Order[n - 1], CHOOSE g \in left : ready = {} \/ g \in ready)
  IN  Order[Cardinality(DOMAIN groups)]

-----------------------------------------------------------------------------
(* The backend: a test of a group goes through the member it uses now.      *)

Leaf(tag) ==
  LET At[n \in 0..Cardinality(DOMAIN real.now)] ==
        IF n = 0 THEN tag
        ELSE IF At[n - 1] \in DOMAIN real.now THEN real.now[At[n - 1]] ELSE At[n - 1]
  IN  At[Cardinality(DOMAIN real.now)]
Passes(tag) ==
  IF tag \in Outbounds THEN real.works[tag] = "yes"
  ELSE Leaf(tag) \in Outbounds /\ real.works[Leaf(tag)] # "no"

FirstOf(inv) ==
  LET all == [g \in DOMAIN inv.groups |-> IF inv.groups[g].pinned # None THEN inv.groups[g].pinned
                                          ELSE Head(inv.groups[g].members)]
  IN  [g \in DOMAIN inv.groups \union {"proxy"} |->
         IF g # "proxy" THEN all[g] ELSE IF inv.pinned # None THEN inv.pinned ELSE Head(inv.top)]

Change ==
  /\ changes < MaxChanges
  /\ \/ \E inv \in Inventories :
          /\ inv # real.inv
          /\ real' = [real EXCEPT !.inv = inv, !.now = IF inv = None THEN <<>> ELSE FirstOf(inv)]
     \/ \E t \in Outbounds, w \in {"yes", "no", "no4"} :
          (w = "no4" => t \in Watchdogs) /\ w # real.works[t] /\ real' = [real EXCEPT !.works[t] = w]
  /\ changes' = changes + 1 /\ calm' = 0
  /\ UNCHANGED <<pass, health, due, seen, hinted, heard>>

\* A watchdog touches health/<tag>.
Hint(t) ==
  /\ hinted < MaxHints
  /\ real' = [real EXCEPT !.hints[t] = @ + 1]
  /\ hinted' = hinted + 1
  /\ UNCHANGED <<pass, health, due, seen, changes, calm, heard>>

-----------------------------------------------------------------------------
(* A pass of the watcher                                                    *)

Idle == [step |-> "idle", inv |-> None, hinted |-> {}, left |-> {}, queue |-> <<>>, results |-> <<>>, nows |-> None]
PassEnds(changed) ==
  /\ pass' = [pass EXCEPT !.step = "idle", !.queue = <<>>, !.results = <<>>, !.nows = None]
  /\ calm' = IF changed THEN 0 ELSE Least(calm + 1, Calm)

\* run: the inventory, then the hints; step: only a watched member's is worth a test.
Look ==
  /\ pass.step = "idle"
  /\ seen' = real.hints
  /\ due' = [g \in DOMAIN due |-> IF due[g] = 0 THEN 0 ELSE due[g] - 1]
  /\ IF real.inv = None
     THEN pass' = [Idle EXCEPT !.hinted = {}] /\ UNCHANGED calm
     ELSE LET groups == Watched(real.inv)
              fresh  == {t \in Outbounds : real.hints[t] # seen[t]}
                        \intersect UNION {Elements(Members(groups, g)) : g \in DOMAIN groups}
          IN  pass' = [Idle EXCEPT !.step = "test", !.inv = real.inv, !.hinted = fresh, !.left = fresh,
                                   !.queue = InnerFirst(groups)]
              /\ UNCHANGED calm
  /\ UNCHANGED <<real, health, changes, hinted, heard>>

HealthOf(t) == IF t \in DOMAIN health THEN health[t] ELSE [up |-> TRUE, misses |-> 0, passes |-> 0]
Up(t)       == HealthOf(t).up

\* GroupWatch.record
Record(h, ok, afterHint) ==
  IF ok THEN [up |-> h.up \/ h.passes + 1 >= PassesUp, misses |-> 0, passes |-> Least(h.passes + 1, PassesUp)]
  ELSE [up |-> h.up /\ ~afterHint /\ h.misses + 1 < MissesDown, misses |-> Least(h.misses + 1, MissesDown), passes |-> 0]

\* GroupWatch.test, and its result.
Test(t, afterHint) ==
  /\ health' = [u \in DOMAIN health \union {t} |-> IF u = t THEN Record(HealthOf(t), Passes(t), afterHint) ELSE health[u]]
  /\ heard' = [u \in Outbounds |-> IF u = t THEN real.hints[t] ELSE heard[u]]
Results(t) == [u \in DOMAIN pass.results \union {t} |-> IF u = t THEN Passes(t) ELSE pass.results[u]]

\* Mutant: a hint is left to its groups' own tests.
TestHinted_left ==
  /\ pass.step = "test" /\ pass.left # {}
  /\ pass' = [pass EXCEPT !.left = {}]
  /\ UNCHANGED <<real, health, due, seen, changes, hinted, calm, heard>>

TestHinted ==
  /\ pass.step = "test"
  /\ \E t \in pass.left :
       /\ Test(t, TRUE)
       /\ pass' = [pass EXCEPT !.left = @ \ {t}, !.results = Results(t)]
  /\ UNCHANGED <<real, due, seen, changes, hinted, calm>>

Groups      == Watched(pass.inv)
Group       == Head(pass.queue)
InStep      == pass.step = "test" /\ pass.left = {} /\ pass.queue # <<>>
ItsMembers  == Members(Groups, Group)
Touched     == pass.hinted \intersect Elements(ItsMembers) # {}
DueIn(g)    == IF g \in DOMAIN due THEN due[g] ELSE 0
Wanted(g)   == Groups[g].strategy = "failover" /\ (Touched \/ DueIn(g) = 0)
Untested    == SelectSeq(ItsMembers, LAMBDA m : m \notin pass.inv.disabled /\ m \notin DOMAIN pass.results)

\* A urltest group is the backend's to move, another one's time has not come.
Skip ==
  /\ InStep /\ ~Wanted(Group)
  /\ pass' = [pass EXCEPT !.queue = Tail(@)]
  /\ UNCHANGED <<real, health, due, seen, changes, hinted, calm, heard>>

TestMember ==
  /\ InStep /\ Wanted(Group) /\ Untested # <<>>
  /\ Test(Head(Untested), FALSE)
  /\ pass' = [pass EXCEPT !.results = Results(Head(Untested))]
  /\ UNCHANGED <<real, due, seen, changes, hinted, calm>>

\* Mutant: a disabled member, which is never tested, counts as one that works.
Pick_disabled(group, now) ==
  LET working == SelectSeq(group.members, LAMBDA m : m # "block" /\ Up(m))
  IN  IF group.pinned # None \/ working = <<>> \/ (~group.failback /\ now \in Elements(working)) THEN None
      ELSE IF Head(working) = now THEN None ELSE Head(working)

\* GroupWatch.pick; None is to leave it where it is.
Pick(group, now) ==
  LET working == SelectSeq(group.members, LAMBDA m : m # "block" /\ m \notin pass.inv.disabled /\ Up(m))
  IN  IF group.pinned # None \/ working = <<>> \/ (~group.failback /\ now \in Elements(working)) THEN None
      ELSE IF Head(working) = now THEN None ELSE Head(working)

\* The backend refuses what its own inventory does not have.
Takes(g, m) ==
  real.inv # None /\ g \in DOMAIN real.now
  /\ m \in Elements(IF g = "proxy" THEN real.inv.top ELSE real.inv.groups[g].members)

\* All groups' members are read at the first move's turn, and kept up to date by the moves.
Move ==
  /\ InStep /\ Wanted(Group) /\ Untested = <<>>
  /\ LET nows   == IF pass.nows = None THEN real.now ELSE pass.nows
         target == Pick(Groups[Group], IF Group \in DOMAIN nows THEN nows[Group] ELSE "")
         put    == target # None /\ Takes(Group, target)
     IN  /\ real' = IF put THEN [real EXCEPT !.now[Group] = target] ELSE real
         /\ pass' = [pass EXCEPT !.queue = Tail(@),
                                 !.nows = IF put THEN [g \in DOMAIN nows \union {Group} |-> IF g = Group THEN target ELSE nows[g]]
                                          ELSE nows]
  /\ due' = [g \in DOMAIN due \union {Group} |-> IF g = Group THEN Groups[g].interval ELSE due[g]]
  /\ UNCHANGED <<health, seen, changes, hinted, calm, heard>>

Sleep ==
  /\ pass.step = "test" /\ pass.left = {} /\ pass.queue = <<>>
  /\ PassEnds(pass.inv # real.inv)
  /\ UNCHANGED <<real, health, due, seen, changes, hinted, heard>>

-----------------------------------------------------------------------------
Init ==
  /\ \E inv \in Inventories \ {None} :
       real = [inv |-> inv, now |-> FirstOf(inv), works |-> [t \in Outbounds |-> "yes"],
               hints |-> [t \in Outbounds |-> 0]]
  /\ pass = Idle /\ health = <<>> /\ due = <<>>
  /\ seen = real.hints
  /\ changes = 0 /\ hinted = 0 /\ calm = 0
  /\ heard = real.hints

Next ==
  \/ Change \/ (\E t \in Watchdogs : Hint(t))
  \/ Look \/ TestHinted \/ Skip \/ TestMember \/ Move \/ Sleep

-----------------------------------------------------------------------------
\* Left undisturbed, the watcher brings each failover group that is not pinned
\* to the first of its members that works, or without failback to one that
\* does, whatever it went through before and whichever group is in another.
FailoverSettles ==
  calm = Calm /\ pass.step = "idle" /\ real.inv # None =>
    \A g \in DOMAIN Watched(real.inv) :
      LET group   == Watched(real.inv)[g]
          working == SelectSeq(group.members, LAMBDA m : m # "block" /\ m \notin real.inv.disabled /\ Passes(m))
      IN  group.strategy = "failover" /\ group.pinned = None /\ working # <<>> =>
            IF group.failback THEN real.now[g] = Head(working) ELSE real.now[g] \in Elements(working)

\* "News too, or the group would wait for its next test": once a pass is over,
\* a member was tested after every hint that the pass, or one before, found.
HintsHeard ==
  pass.step = "idle" /\ pass.inv # None =>
    \A g \in DOMAIN Watched(pass.inv) : \A t \in Elements(Members(Watched(pass.inv), g)) :
      t \in pass.hinted => heard[t] >= seen[t]
=============================================================================
