-------------------------- MODULE SupervisorGroups --------------------------
(***************************************************************************)
(* The process groups a supervisor starts, their record on disk, and how   *)
(* the next supervisor ends what a killed one left running: class Groups   *)
(* and end_orphans of src/pkgs/proxy-ctl/proxy_supervisor.py.              *)
(*                                                                         *)
(* A group has the id of its leader, and the id stays taken while the      *)
(* leader is not reaped or a member is left.  A unit has a main process    *)
(* and, under its job's lock, one command of its other Exec lines at a     *)
(* time; what a command, or a RemainAfterExit= main process that succeeds, *)
(* leaves running in its group is left alone.                              *)
(***************************************************************************)
EXTENDS Naturals, FiniteSets

CONSTANTS
  Pids, Units,
  Remain,    \* the units with RemainAfterExit=
  Other,     \* who is not a unit of ours
  None,
  MaxBorn,   \* bound: processes ever started
  MaxDeaths, \* bound: supervisors killed
  MaxFaults  \* bound: reads and writes of groups.json that fail

VARIABLES
  procs,   \* [Pids -> None or a group: unit, role, born, leader, kids, record]
  held,    \* [Jobs -> its Popen object's pid, or None]
  leaving, \* entries of those reaped and not yet taken off the record
  file,    \* groups.json: {<<unit, pid, start time>>}
  daemon,  \* "up", "down", or what end_orphans does: "asked", "ended"
  only,    \* the units end_orphans is for
  ended,   \* the groups it has signalled
  born, deaths, faults

gvars == <<procs, held, leaving, file, daemon, only, ended, born, deaths, faults>>

Roles == {"main", "command"}
Jobs  == Units \X Roles

Taken(p)  == procs[p] # None
Ours(p)   == Taken(p) /\ procs[p].unit \in Units
Runs(p)   == Taken(p) /\ procs[p].leader = "running"
Held(p)   == \E job \in Jobs : held[job] = p

\* A pid is not used again in the moments between a reap and its remove(),
\* nor in the grace that end_orphans gives.
Unused(p) == ~Taken(p) /\ (\A e \in leaving : e[2] # p) /\ p \notin ended

\* The group's id is free once the leader is reaped and no member is left.
Left(g) == IF g.leader = "reaped" /\ ~g.kids THEN None ELSE g

\* record: "new" to Groups.add, "added" to it, or "known": on disk as well.
Group(u, role) ==
  [unit |-> u, role |-> role, born |-> born + 1, leader |-> "running", kids |-> FALSE, record |-> "new"]

Entry(p) == <<procs[p].unit, p, procs[p].born>>

\* Groups.groups: what was added of those held, and what is yet to be removed.
Groups == {Entry(p) : p \in {p \in Pids : Held(p) /\ procs[p].record # "new"}} \union leaving

\* save; one that fails leaves the last whole record.
Save(entries) ==
  \/ file' = entries /\ UNCHANGED faults
  \/ faults < MaxFaults /\ faults' = faults + 1 /\ UNCHANGED file

-----------------------------------------------------------------------------
\* spawn: Popen, in a session of its own, no command being under way ...
Spawn(u, role) ==
  /\ daemon = "up" /\ held[<<u, role>>] = None /\ held[<<u, "command">>] = None /\ born < MaxBorn
  /\ \E p \in Pids :
       /\ Unused(p)
       /\ procs' = [procs EXCEPT ![p] = Group(u, role)]
       /\ held' = [held EXCEPT ![<<u, role>>] = p]
  /\ born' = born + 1
  /\ UNCHANGED <<leaving, file, daemon, only, ended, deaths, faults>>

\* ... then Groups.add; the leader is not reaped, so its start time can be read.
Add(u, role) ==
  LET p == held[<<u, role>>]
  IN  /\ daemon = "up" /\ p # None
      /\ procs[p].record = "new"
      /\ Save(Groups \union {Entry(p)})
      /\ procs' = [procs EXCEPT ![p].record = IF Entry(p) \in file' THEN "known" ELSE "added"]
      /\ UNCHANGED <<held, leaving, daemon, only, ended, born, deaths>>

\* The leader of a group, which has ended, is reaped; after is the group then.  A main
\* process is not while a command of its unit runs.
Reaps(u, role, after) ==
  LET p == held[<<u, role>>]
  IN  /\ held[<<u, "command">>] \in {p, None}
      /\ procs[p].leader = "zombie" /\ procs[p].record # "new"
      /\ procs' = [procs EXCEPT ![p] = after]
      /\ held' = [held EXCEPT ![<<u, role>>] = None]
      /\ leaving' = leaving \union {Entry(p)}
      /\ UNCHANGED <<file, daemon, only, ended, born, deaths, faults>>

\* Mutant: the reap first, after which kill_group no longer signals.
Reap_first(u, role) ==
  /\ daemon = "up" /\ held[<<u, role>>] # None
  /\ Reaps(u, role, Left([procs[held[<<u, role>>]] EXCEPT !.leader = "reaped"]))

\* watch, terminate (also of a stop command that hangs): the rest of the group is killed
\* first, then the leader reaped.
Reap(u, role) ==
  /\ daemon = "up" /\ held[<<u, role>>] # None
  /\ Reaps(u, role, None)

\* run_commands, whose command has ended; watch, if the main process succeeded and the
\* unit stays active without it.  What is left in the group runs on.
ReapLeader(u, role) ==
  /\ daemon = "up" /\ held[<<u, role>>] # None
  /\ role = "command" \/ u \in Remain
  /\ Reaps(u, role, Left([procs[held[<<u, role>>]] EXCEPT !.leader = "reaped"]))

Remove ==
  \E e \in leaving :
    /\ daemon = "up"
    /\ leaving' = {other \in leaving : other[2] # e[2]}
    /\ Save({other \in Groups : other[2] # e[2]})
    /\ UNCHANGED <<procs, held, daemon, only, ended, born, deaths>>

-----------------------------------------------------------------------------
(* The processes themselves, and the host                                   *)

Fork(p) ==
  /\ Ours(p) /\ Runs(p) /\ ~procs[p].kids
  /\ procs' = [procs EXCEPT ![p].kids = TRUE]
  /\ UNCHANGED <<held, leaving, file, daemon, only, ended, born, deaths, faults>>

\* A leader ends, of itself or by a signal; without its supervisor init reaps it.
Exit(p) ==
  /\ Runs(p)
  /\ procs' = [procs EXCEPT ![p] = Left([@ EXCEPT !.leader = IF Held(p) THEN "zombie" ELSE "reaped"])]
  /\ UNCHANGED <<held, leaving, file, daemon, only, ended, born, deaths, faults>>

KidsExit(p) ==
  /\ Taken(p) /\ procs[p].kids
  /\ procs' = [procs EXCEPT ![p] = Left([@ EXCEPT !.kids = FALSE])]
  /\ UNCHANGED <<held, leaving, file, daemon, only, ended, born, deaths, faults>>

\* Somebody else's process, under an id that one of ours may have had.
Stranger(p) ==
  /\ Unused(p) /\ born < MaxBorn
  /\ procs' = [procs EXCEPT ![p] = Group(Other, "main")]
  /\ born' = born + 1
  /\ UNCHANGED <<held, leaving, file, daemon, only, ended, deaths, faults>>

\* SIGKILL, at any step; init reaps what has exited.
Die ==
  /\ daemon # "down" /\ deaths < MaxDeaths
  /\ daemon' = "down"
  /\ deaths' = deaths + 1
  /\ procs' = [p \in Pids |-> IF Taken(p) /\ procs[p].leader = "zombie"
                              THEN Left([procs[p] EXCEPT !.leader = "reaped"]) ELSE procs[p]]
  /\ held' = [job \in Jobs |-> None]
  /\ leaving' = {} /\ ended' = {} /\ only' = {}
  /\ UNCHANGED <<file, born, faults>>

-----------------------------------------------------------------------------
(* end_orphans, under the daemon's lock                                     *)

\* Mutant: the pid alone says whose it is.
Orphans_pid(units) == {e[2] : e \in {e \in file : e[1] \in units /\ Runs(e[2])}}

\* A leader that runs, with its recorded start time.
Orphans(units) == {e[2] : e \in {e \in file : e[1] \in units /\ Runs(e[2]) /\ procs[e[2]].born = e[3]}}

\* A daemon that starts ends them all; `stop` with no daemon those of its units.
AskToEnd ==
  /\ daemon = "down"
  /\ only' \in {Units} \union {{u} : u \in Units}
  /\ ended' = Orphans(only')
  /\ daemon' = "asked"
  /\ UNCHANGED <<procs, held, leaving, file, born, deaths, faults>>

\* Either cannot read the record: it ends nothing, and the record goes.
Unreadable ==
  /\ daemon = "down" /\ faults < MaxFaults
  /\ faults' = faults + 1
  /\ file' = {}
  /\ procs' = [p \in Pids |-> IF Taken(p) /\ procs[p].record = "known"
                              THEN [procs[p] EXCEPT !.record = "added"] ELSE procs[p]]
  /\ daemon' \in {"up", "down"}
  /\ UNCHANGED <<held, leaving, only, ended, born, deaths>>

\* After the grace, SIGKILL.
End ==
  /\ daemon = "asked"
  /\ procs' = [p \in Pids |-> IF p \in ended THEN None ELSE procs[p]]
  /\ daemon' = "ended"
  /\ UNCHANGED <<held, leaving, file, only, ended, born, deaths, faults>>

\* Mutant: the file goes, whatever it was asked for.
Kept_none == {}

Kept == {e \in file : e[1] \notin only}

\* Then the record is what it was not for; an empty one is unlinked, which may fail as well.
Written ==
  /\ daemon = "ended"
  /\ Save(Kept)
  /\ daemon' = IF only = Units THEN "up" ELSE "down"
  /\ only' = {} /\ ended' = {}
  /\ UNCHANGED <<procs, held, leaving, born, deaths>>

-----------------------------------------------------------------------------
Init ==
  /\ procs = [p \in Pids |-> None]
  /\ held = [job \in Jobs |-> None]
  /\ leaving = {} /\ file = {} /\ only = {} /\ ended = {}
  /\ daemon = "up"
  /\ born = 0 /\ deaths = 0 /\ faults = 0

Next ==
  \/ \E u \in Units, role \in Roles : Spawn(u, role) \/ Add(u, role) \/ Reap(u, role) \/ ReapLeader(u, role)
  \/ Remove
  \/ \E p \in Pids : Fork(p) \/ Exit(p) \/ KidsExit(p) \/ Stranger(p)
  \/ Die \/ AskToEnd \/ Unreadable \/ End \/ Written

Spec == Init /\ [][Next]_gvars

-----------------------------------------------------------------------------
\* A supervisor that runs has no unit's process from before it, bar one that never got
\* on disk or went from there unread, or whose leader had exited (end_orphans,
\* proxy_supervisor.py:267).
OrphansEnded ==
  daemon = "up" => \A p \in Pids : Ours(p) /\ Runs(p) /\ procs[p].record = "known" => Held(p)

\* While a supervisor lives it holds every leader of its groups to the reap, and what then
\* runs on is left by a command, or by a main process whose unit stays active without it:
\* an exit of any other leaves nothing behind (watch, proxy_supervisor.py:855).
NothingBehind ==
  deaths = 0 => \A p \in Pids : Ours(p) =>
    Held(p) \/ (procs[p].leader = "reaped" /\ (procs[p].role = "command" \/ procs[p].unit \in Remain))

\* A process of somebody else's is never killed (end_orphans: "a reused pid is left alone").
StrangersLive ==
  \A p \in Pids : Taken(p) /\ procs[p].unit = Other => procs'[p] = procs[p] \/ (procs'[p] = None /\ daemon' = daemon)
=============================================================================
