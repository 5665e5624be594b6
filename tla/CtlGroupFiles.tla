---------------------------- MODULE CtlGroupFiles ----------------------------
(***************************************************************************)
(* What proxy-ctl's `groups` and `priority` commands do to the files that  *)
(* hold a runtime group and the priority overrides (src/pkgs/proxy-ctl/    *)
(* proxy_ctl.py): each reads, changes and replaces its file under          *)
(* _file_lock, a flock on a file of its own that `groups rm` removes with  *)
(* the group.  A command may be killed at any step.                        *)
(*                                                                         *)
(* A group file is [members, strategy, pulls]: pulls, it has a --sub or a  *)
(* --match.  An inode is a number; a path has the last one made for it.    *)
(***************************************************************************)
EXTENDS Integers, Sequences, FiniteSets
LOCAL INSTANCE SequencesExt

CONSTANTS
  Procs,
  Requests,          \* commands: <<"rm">>, <<"add", members>>, <<"priority", tag, "up">>, ...
  Number,            \* that `priority <tag> <number>` is given
  Tags,              \* outbounds that may be members, or have a priority
  MaxCmds, MaxKills, \* bounds
  Refused,           \* what a refused command writes
  None

VARIABLES
  group,     \* the runtime group's file, or None
  priority,  \* priority.json: [tags -> number]
  top,       \* the backend's order of its top level
  lockfile,  \* ["group", "priority" -> the inode at the lock's path, or None]
  inodes,    \* inodes made so far
  held,      \* [inode -> who has its flock]
  proc,      \* [Procs -> [cmd, step, fd, read]]
  cmds, kills,
  owed       \* history: [group, priority], each change made to what was there at its write

gvars == <<group, priority, top, lockfile, inodes, held, proc, cmds, kills, owed>>

At(cmd, step, fd, read) == [cmd |-> cmd, step |-> step, fd |-> fd, read |-> read]
Empty == At(<<"none">>, "idle", None, None)
Path(cmd) == IF cmd[1] = "priority" THEN "priority" ELSE "group"
To(p, step) == proc' = [proc EXCEPT ![p].step = step]

\* cmd_groups, cmd_priority: what a command is refused for before it locks.
Ask(p, cmd) ==
  /\ proc[p].step = "idle" /\ cmds < MaxCmds
  /\ cmds' = cmds + 1
  /\ CASE cmd[1] = "add"      -> group = None
       [] cmd[1] = "priority" -> TRUE
       [] OTHER               -> group # None
  /\ proc' = [proc EXCEPT ![p] = At(cmd, "open", None, None)]
  /\ UNCHANGED <<group, priority, top, lockfile, inodes, held, kills, owed>>

-----------------------------------------------------------------------------
(* _file_lock                                                               *)

\* The lock file, made if it is not there.
Open(p) ==
  /\ proc[p].step = "open"
  /\ LET path == Path(proc[p].cmd)
         new  == lockfile[path] = None
         fd   == IF new THEN inodes + 1 ELSE lockfile[path]
     IN  /\ inodes' = IF new THEN inodes + 1 ELSE inodes
         /\ lockfile' = [lockfile EXCEPT ![path] = fd]
         /\ proc' = [proc EXCEPT ![p] = At(@.cmd, "flock", fd, @.read)]
  /\ UNCHANGED <<group, priority, top, held, cmds, kills, owed>>

\* Mutant: held is enough, whatever is at the path by then.
Flock_any(p) ==
  /\ proc[p].step = "flock" /\ proc[p].fd \notin DOMAIN held
  /\ held' = [i \in DOMAIN held \union {proc[p].fd} |-> IF i = proc[p].fd THEN p ELSE held[i]]
  /\ To(p, "read")
  /\ UNCHANGED <<group, priority, top, lockfile, inodes, cmds, kills, owed>>

\* Held; _same_file is a step of its own.
Flock(p) ==
  /\ proc[p].step = "flock" /\ proc[p].fd \notin DOMAIN held
  /\ held' = [i \in DOMAIN held \union {proc[p].fd} |-> IF i = proc[p].fd THEN p ELSE held[i]]
  /\ To(p, "same")
  /\ UNCHANGED <<group, priority, top, lockfile, inodes, cmds, kills, owed>>

Unlocked(p) == [i \in {i \in DOMAIN held : held[i] # p} |-> held[i]]

\* Removed by its holder meanwhile: lock the one there now instead.
SameFile(p) ==
  /\ proc[p].step = "same"
  /\ IF proc[p].fd = lockfile[Path(proc[p].cmd)]
     THEN To(p, "read") /\ UNCHANGED held
     ELSE To(p, "open") /\ held' = Unlocked(p)
  /\ UNCHANGED <<group, priority, top, lockfile, inodes, cmds, kills, owed>>

\* Held by something else for all of LOCK_WAIT.
GiveUp(p) ==
  /\ proc[p].step = "flock" /\ proc[p].fd \in DOMAIN held
  /\ proc' = [proc EXCEPT ![p] = Empty]
  /\ UNCHANGED <<group, priority, top, lockfile, inodes, held, cmds, kills, owed>>

-----------------------------------------------------------------------------
(* What a command makes of its file; Refused, nothing.                      *)

Without(s, names) == SelectSeq(s, LAMBDA m : m \notin names)
Distinct(s) == FoldLeft(LAMBDA acc, m : IF m \in ToSet(acc) THEN acc ELSE Append(acc, m), <<>>, s)
Members(file, members) ==
  IF members = <<>> /\ ~file.pulls THEN Refused ELSE [file EXCEPT !.members = members]

GroupAfter(cmd, file) ==
  CASE cmd[1] = "add" -> IF file # None THEN Refused ELSE [members |-> cmd[2], strategy |-> "failover", pulls |-> FALSE]
    [] file = None    -> Refused
    [] cmd[1] = "rm"  -> None
    [] cmd[1] = "strategy"    -> [file EXCEPT !.strategy = cmd[2]]
    [] cmd[1] = "members add" -> [file EXCEPT !.members = @ \o Without(cmd[2], ToSet(@))]
    [] cmd[1] = "members set" -> Members(file, Distinct(cmd[2]))
    [] cmd[1] = "members rm"  -> IF ToSet(cmd[2]) \subseteq ToSet(file.members)
                                 THEN Members(file, Without(file.members, ToSet(cmd[2]))) ELSE Refused

Set(f, k, v) == [x \in DOMAIN f \union {k} |-> IF x = k THEN v ELSE f[x]]

\* up and down number the whole top level, 10 apart.
PriorityAfter(cmd, numbers) ==
  LET tag == cmd[2]
      i   == CHOOSE n \in 1..Len(top) : top[n] = tag
      j   == IF cmd[3] = "up" THEN i - 1 ELSE i + 1
      moved == [top EXCEPT ![i] = top[j], ![j] = top[i]]
  IN  CASE cmd[3] = "clear" -> [t \in DOMAIN numbers \ {tag} |-> numbers[t]]
        [] cmd[3] \in {"up", "down"} ->
             IF tag \notin ToSet(top) \/ j \notin 1..Len(top) THEN Refused
             ELSE [t \in DOMAIN numbers \union ToSet(top) |->
                     IF t \in ToSet(top) THEN 10 * (CHOOSE n \in 1..Len(top) : moved[n] = t) ELSE numbers[t]]
        [] cmd[3] = "number" -> Set(numbers, tag, Number)

Read(p) ==
  /\ proc[p].step = "read"
  /\ proc' = [proc EXCEPT ![p] = At(@.cmd, "write", @.fd, IF Path(@.cmd) = "group" THEN group ELSE priority)]
  /\ UNCHANGED <<group, priority, top, lockfile, inodes, held, cmds, kills, owed>>

\* _spool_write: the file is replaced whole; rm unlinks it.
Write(p) ==
  /\ proc[p].step = "write"
  /\ LET cmd == proc[p].cmd
         after(value) == IF Path(cmd) = "group" THEN GroupAfter(cmd, value) ELSE PriorityAfter(cmd, value)
         written == after(proc[p].read)
         due     == after(IF Path(cmd) = "group" THEN owed.group ELSE owed.priority)
     IN  IF written = Refused
         THEN To(p, "close") /\ UNCHANGED <<group, priority, owed>>
         ELSE /\ IF Path(cmd) = "group" THEN group' = written /\ UNCHANGED priority
                 ELSE priority' = written /\ UNCHANGED group
              /\ owed' = IF Path(cmd) = "group" THEN [owed EXCEPT !.group = due] ELSE [owed EXCEPT !.priority = due]
              /\ To(p, IF cmd[1] = "rm" THEN "unlink" ELSE "close")
  /\ UNCHANGED <<top, lockfile, inodes, held, cmds, kills>>

\* Only the holder's: one waiting on it relocks the new one.
Unlink(p) ==
  /\ proc[p].step = "unlink"
  /\ lockfile' = [lockfile EXCEPT !.group = None]
  /\ To(p, "close")
  /\ UNCHANGED <<group, priority, top, inodes, held, cmds, kills, owed>>

Close(p) ==
  /\ proc[p].step = "close"
  /\ held' = Unlocked(p)
  /\ proc' = [proc EXCEPT ![p] = Empty]
  /\ UNCHANGED <<group, priority, top, lockfile, inodes, cmds, kills, owed>>

Kill(p) ==
  /\ proc[p].step # "idle" /\ kills < MaxKills
  /\ kills' = kills + 1
  /\ held' = Unlocked(p)
  /\ proc' = [proc EXCEPT ![p] = Empty]
  /\ UNCHANGED <<group, priority, top, lockfile, inodes, cmds, owed>>

\* The backend is reloaded: lower numbers first, what has none as it was.
Reload ==
  LET Rank(t) == IF t \in DOMAIN priority THEN priority[t] ELSE 1000
      Was(t)    == CHOOSE n \in 1..Len(top) : top[n] = t
  IN  /\ top' = SortSeq(top, LAMBDA a, b : Rank(a) < Rank(b) \/ (Rank(a) = Rank(b) /\ Was(a) < Was(b)))
      /\ top' # top
      /\ UNCHANGED <<group, priority, lockfile, inodes, held, proc, cmds, kills, owed>>

-----------------------------------------------------------------------------
Init ==
  /\ group = None /\ priority = <<>>
  /\ top = SetToSeq(Tags)
  /\ lockfile = [group |-> None, priority |-> None]
  /\ inodes = 0 /\ held = <<>>
  /\ proc = [p \in Procs |-> Empty]
  /\ cmds = 0 /\ kills = 0
  /\ owed = [group |-> None, priority |-> <<>>]

Next ==
  \/ Reload
  \/ \E p \in Procs : \/ (\E cmd \in Requests : Ask(p, cmd))
                      \/ Open(p) \/ Flock(p) \/ SameFile(p) \/ GiveUp(p)
                      \/ Read(p) \/ Write(p) \/ Unlink(p) \/ Close(p) \/ Kill(p)

Spec == Init /\ [][Next]_gvars

-----------------------------------------------------------------------------
\* "So two proxy-ctl don't drop each other's change", and `groups rm` is final:
\* the files hold every change that was written, each made to what the one
\* before it left.
NoneLost == group = owed.group /\ priority = owed.priority
=============================================================================
