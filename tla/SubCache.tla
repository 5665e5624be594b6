------------------------------ MODULE SubCache ------------------------------
(***************************************************************************)
(* The copies that start scripts and the update unit keep of a             *)
(* subscription: subscription-cache-helpers.template.sh.  A fetch replaces *)
(* the cache, the links, and the fingerprint of what it was asked with,    *)
(* one by one; a start drops a cache with another fingerprint, fetches if  *)
(* there is none, and runs what is there.  The scripts take no lock.       *)
(*                                                                         *)
(* One subscription.  A setting, its URL and flags, is a number; the URL   *)
(* changes and is not changed back.  A fetch is one step, through the      *)
(* tunnel or, without a cache, past the kill switch.                       *)
(***************************************************************************)
EXTENDS Naturals, FiniteSets

CONSTANTS
  Starters,   \* units whose start scripts load the subscription ...
  Watched,    \* ... and the one of them that updates restart
  Updater,    \* the unit that fetches
  Contents,   \* what a server may send
  Servers,    \* [Settings -> what is sent at first]
  Budgets,    \* bounds: [settings, answers, starts, updates, kills], one in each behaviour
  None, Down

Scripts  == Starters \union {Updater}
Settings == 1..3

VARIABLES
  asked,   \* the setting
  server,  \* [Settings -> what is sent now]
  said,    \* history: [Settings -> what was ever fetched]
  file,    \* [cache, links, stamp], each its contents or None
  proc,    \* [Scripts -> [pc, sum, got, changed, alone]]
  runs,    \* what Watched runs with: [cache, links], or Down
  since,   \* the setting when it was started
  left,
  torn,    \* a fetch was killed half-way, or two crossed, and none of what is asked came whole since
  behind   \* Watched read what was torn or half-way, or was not restarted after a change: who would have
           \* was killed, or is no updater
vars == <<asked, server, said, file, proc, runs, since, left, torn, behind>>

Idle == [pc |-> "idle", sum |-> None, got |-> None, changed |-> FALSE, alone |-> TRUE]
At(p, pc)   == proc[p].pc = pc
To(p, pc)   == proc' = [proc EXCEPT ![p].pc = pc]
Spend(what) == left[what] > 0 /\ left' = [left EXCEPT ![what] = @ - 1]
\* Between the first file it changes and the last.
Midway(p)   == proc[p].pc \in {"links", "stamp", "drop the rest"}
Others(p)   == {q \in Scripts \ {p} : Midway(q)}

-----------------------------------------------------------------------------
(* Whatever else happens *)
Ask    == Spend("settings") /\ asked' = asked + 1 /\ UNCHANGED <<server, said, file, proc, runs, since, torn, behind>>
Answer == /\ Spend("answers")
          /\ \E s \in Settings, c \in Contents : server' = [server EXCEPT ![s] = c]
          /\ UNCHANGED <<asked, said, file, proc, runs, since, torn, behind>>

-----------------------------------------------------------------------------
(* A fetch *)
\* Mutant: the fingerprint is of what is asked when the fetch is over.
SumOf_late(p) == asked
\* Before the fetch: one that changes meanwhile is a stale cache at the next start.
SumOf(p) == proc[p].sum
TakesSum(p) ==
  /\ At(p, "sum")
  /\ proc' = [proc EXCEPT ![p].pc = "fetch", ![p].sum = asked]
  /\ UNCHANGED <<asked, server, said, file, runs, since, left, torn, behind>>
After(p) == IF p = Updater THEN "restart" ELSE "load"
Fetches(p) ==
  /\ At(p, "fetch")
  /\ \/ /\ proc' = [proc EXCEPT ![p].pc = "cache", ![p].got = server[asked]]
        /\ said' = [said EXCEPT ![asked] = @ \union {server[asked]}]
     \/ /\ To(p, After(p)) /\ UNCHANGED said
  /\ UNCHANGED <<asked, server, file, runs, since, left, torn, behind>>
\* Mutant: only a first fetch is a change.
Differs_first(got, cache) == cache = None
Differs(got, cache) == got # cache
\* Who finds another midway is not alone, and that one is not from then on.
CommitsCache(p) ==
  /\ At(p, "cache")
  /\ file' = [file EXCEPT !.cache = proc[p].got]
  /\ proc' = [q \in Scripts |->
                IF q = p THEN [proc[p] EXCEPT !.pc = "links", !.alone = Others(p) = {},
                                              !.changed = @ \/ Differs(proc[p].got, file.cache)]
                ELSE [proc[q] EXCEPT !.alone = @ /\ ~Midway(q)]]
  /\ torn' = (torn \/ Others(p) # {})
  /\ behind' = (behind \/ (p \notin {Updater, Watched} /\ proc[p].got # file.cache))
  /\ UNCHANGED <<asked, server, said, runs, since, left>>
CommitsLinks(p) ==
  /\ At(p, "links")
  /\ file' = [file EXCEPT !.links = proc[p].got]
  /\ To(p, "stamp") /\ UNCHANGED <<asked, server, said, runs, since, left, torn, behind>>
CommitsStamp(p) ==
  /\ At(p, "stamp")
  /\ file' = [file EXCEPT !.stamp = SumOf(p)]
  /\ torn' = (torn /\ ~(proc[p].alone /\ proc[p].sum = asked))
  /\ To(p, After(p)) /\ UNCHANGED <<asked, server, said, runs, since, left, behind>>

-----------------------------------------------------------------------------
(* A start *)
\* Mutant: any cache is this subscription's.
Stale_never(p) == FALSE
Stale(p) == file.stamp # None /\ file.stamp # proc[p].sum
Begins(p) ==
  /\ p \in Starters /\ At(p, "idle") /\ Spend("starts")
  /\ proc' = [proc EXCEPT ![p] = [Idle EXCEPT !.pc = "look"]]
  /\ IF p = Watched THEN runs' = Down /\ since' = asked /\ behind' = FALSE ELSE UNCHANGED <<runs, since, behind>>
  /\ UNCHANGED <<asked, server, said, file, torn>>
Looks(p) ==
  /\ At(p, "look")
  /\ proc' = [proc EXCEPT ![p].pc = IF file.cache = None THEN "check" ELSE "compare", ![p].sum = asked]
  /\ UNCHANGED <<asked, server, said, file, runs, since, left, torn, behind>>
\* What it reads while another fetch is half-way may be neither's.
Behind(p) == behind' = (behind \/ (p = Watched /\ (torn \/ Others(p) \ {Updater} # {})))
\* A cache from before fingerprints is taken as it is.
Compares(p) ==
  /\ At(p, "compare")
  /\ To(p, IF Stale(p) THEN "drop" ELSE IF file.stamp = None THEN "take" ELSE "check")
  /\ Behind(p)
  /\ UNCHANGED <<asked, server, said, file, runs, since, left, torn>>
Takes(p) ==
  /\ At(p, "take")
  /\ file' = [file EXCEPT !.stamp = proc[p].sum]
  /\ torn' = TRUE
  /\ To(p, "check") /\ UNCHANGED <<asked, server, said, runs, since, left, behind>>
Drops(p) ==
  /\ At(p, "drop")
  /\ file' = [file EXCEPT !.cache = None]
  /\ torn' = (torn \/ Others(p) # {})
  /\ behind' = (behind \/ p # Watched)
  /\ proc' = [q \in Scripts |-> IF q = p THEN [proc[p] EXCEPT !.pc = "drop the rest"]
                                ELSE [proc[q] EXCEPT !.alone = @ /\ ~Midway(q)]]
  /\ UNCHANGED <<asked, server, said, runs, since, left>>
DropsRest(p) ==
  /\ At(p, "drop the rest")
  /\ file' = [file EXCEPT !.links = None, !.stamp = None]
  /\ To(p, "check") /\ UNCHANGED <<asked, server, said, runs, since, left, torn, behind>>
Checks(p) ==
  /\ At(p, "check")
  /\ To(p, IF file.cache = None THEN "sum" ELSE "load")
  /\ UNCHANGED <<asked, server, said, file, runs, since, left, torn, behind>>
\* The outbounds, then the links to share them by.
Loads(p) ==
  /\ At(p, "load")
  /\ Behind(p)
  /\ runs' = IF p = Watched THEN [cache |-> file.cache, links |-> None] ELSE runs
  /\ IF file.cache = None THEN proc' = [proc EXCEPT ![p] = Idle] ELSE To(p, "share")
  /\ UNCHANGED <<asked, server, said, file, since, left, torn>>
Shares(p) ==
  /\ At(p, "share")
  /\ Behind(p)
  /\ runs' = IF p = Watched THEN [runs EXCEPT !.links = file.links] ELSE runs
  /\ proc' = [proc EXCEPT ![p] = Idle]
  /\ UNCHANGED <<asked, server, said, file, since, left, torn>>

-----------------------------------------------------------------------------
(* An update *)
Updates ==
  /\ At(Updater, "idle") /\ Spend("updates")
  /\ proc' = [proc EXCEPT ![Updater] = [Idle EXCEPT !.pc = "sum"]]
  /\ UNCHANGED <<asked, server, said, file, runs, since, torn, behind>>
\* A changed cache restarts the proxy, a start script that is under way as well.
Restarts ==
  /\ At(Updater, "restart")
  /\ IF proc[Updater].changed /\ (runs # Down \/ ~At(Watched, "idle"))
     THEN /\ proc' = [proc EXCEPT ![Updater] = Idle, ![Watched] = [Idle EXCEPT !.pc = "look"]]
          /\ runs' = Down /\ since' = asked /\ behind' = FALSE
          /\ torn' = (torn \/ Midway(Watched))
     ELSE proc' = [proc EXCEPT ![Updater] = Idle] /\ UNCHANGED <<runs, since, torn, behind>>
  /\ UNCHANGED <<asked, server, said, file, left>>
\* By a stop, or a stop's timeout.
Killed(p) ==
  /\ ~At(p, "idle") /\ Spend("kills")
  /\ proc' = [proc EXCEPT ![p] = Idle]
  /\ torn' = (torn \/ Midway(p))
  /\ behind' = (behind \/ (p = Updater /\ proc[p].changed))
  /\ runs' = IF p = Watched THEN Down ELSE runs
  /\ UNCHANGED <<asked, server, said, file, since>>

Steps(p) == \/ TakesSum(p) \/ Fetches(p) \/ CommitsCache(p) \/ CommitsLinks(p) \/ CommitsStamp(p)
            \/ Begins(p) \/ Looks(p) \/ Compares(p) \/ Takes(p) \/ Drops(p) \/ DropsRest(p) \/ Checks(p)
            \/ Loads(p) \/ Shares(p) \/ Killed(p)

\* Nothing yet, what a fetch left, or a cache from before fingerprints.
Init ==
  /\ asked = 1 /\ server \in Servers
  /\ \E c \in Contents \union {None} :
       /\ said = [s \in Settings |-> IF s = 1 THEN {c} \ {None} ELSE {}]
       /\ \E stamp \in {IF c = None THEN None ELSE 1, None} :
            file = [cache |-> c, links |-> c, stamp |-> stamp] /\ torn = (c # None /\ stamp = None)
  /\ proc = [p \in Scripts |-> Idle]
  /\ runs = Down /\ since = 1 /\ behind = FALSE
  /\ left \in Budgets

Next == \/ Ask \/ Answer \/ Updates \/ Restarts
        \/ \E p \in Scripts : Steps(p)

-----------------------------------------------------------------------------
AtRest == \A p \in Scripts : At(p, "idle")
\* When the scripts are done, and unless one was killed half-way or two crossed since the
\* last whole fetch: the cache and the links are of one fetch; a cache that passes for the
\* setting's was fetched with it; and the proxy runs what is in the cache and shares it by
\* its links, none of it fetched with what was no longer asked when it started.
CacheHolds ==
  AtRest =>
    /\ ~torn /\ file.cache # None =>
         /\ file.links = file.cache
         /\ file.stamp = asked => file.cache \in said[asked]
    /\ ~torn /\ ~behind /\ runs # Down =>
         /\ runs.cache = file.cache
         /\ runs.cache # None => /\ runs.links = runs.cache
                                 /\ \E s \in Settings : s >= since /\ runs.cache \in said[s]
=============================================================================
