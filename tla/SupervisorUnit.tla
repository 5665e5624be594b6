--------------------------- MODULE SupervisorUnit ---------------------------
(***************************************************************************)
(* One service unit of the process supervisor (proxy_supervisor.py), as    *)
(* the daemon's threads see it.                                            *)
(*                                                                         *)
(* A client request runs in a thread of its own and calls start, stop,     *)
(* restart, reload-or-restart or reset-failed; every main process has a    *)
(* thread in watch() that waits for its exit and applies Restart=.  Most   *)
(* of the work is done holding unit.job; what is not (the flags stop()     *)
(* raises before it asks for the job, the signal it sends to the command   *)
(* under way, the FAILED that a failing Requires= leaves, reset-failed) is *)
(* modelled at the grain at which the threads can interleave.              *)
(*                                                                         *)
(* A thread's program counter names the step it is about to take; a name   *)
(* such as "stop.ExecStopPost" is the Exec line run on behalf of stop().   *)
(***************************************************************************)
EXTENDS Integers

CONSTANTS
    Clients,          \* request threads
    Procs,            \* main processes that exist at once, and their watch() threads
    None,             \* no thread, no process
    Type,             \* Type=: "simple", "oneshot" or "forking"
    Restart,          \* Restart=: "no", "on-failure" or "always"
    RemainAfterExit,  \* RemainAfterExit=
    Requires,         \* the unit names others in Requires= or BindsTo=
    Conditional,      \* the unit has a ConditionPathExists=
    LoadCredential,   \* the unit has a LoadCredential=
    Burst,            \* StartLimitBurst=; 0 turns the limit off
    Verbs             \* the requests that clients make

ASSUME UnitAssumption ==
    /\ Clients \intersect Procs = {}
    /\ None \notin Clients \union Procs
    /\ Type \in {"simple", "oneshot", "forking"}
    /\ Restart \in {"no", "on-failure", "always"}
    /\ {RemainAfterExit, Requires, Conditional, LoadCredential} \subseteq BOOLEAN
    /\ Burst \in Nat
    /\ Verbs \subseteq {"start", "stop", "restart", "try-restart", "reload", "reset-failed"}

VARIABLES
    state,     \* Unit.state
    main,      \* Unit.main: the main process, or None
    stopping,  \* Unit.stopping
    cancel,    \* Unit.cancel, the event that ends the wait for RestartSec=
    starts,    \* Unit.start_limit: starts counted in its window, NoWindow for None
    creds,     \* whether the unit's credentials directory exists
    job,       \* Unit.job: the thread that holds it, or None
    command,   \* an Exec line under way: "start" ones are in Unit.current, "stop" ones not
    taken,     \* the main process that stop() or a failed start took from Unit.main, or None
    status,    \* [Procs -> "live", "zombie" or "gone"]: the leader of a main process's group
    clean,     \* [Procs -> BOOLEAN]: it exited with status 0
    rest,      \* [Procs -> BOOLEAN]: its group has other processes
    target,    \* [Clients -> ...]: the command that stop() read from Unit.current
    then,      \* [Clients -> ...]: whether a start follows the stop (restart)
    pc,        \* [Threads -> Steps]
    posts      \* history: ExecStopPost= runs since the last activation began, at most 2

job_vars  == <<job, command, taken>>
proc_vars == <<status, clean, rest>>
call_vars == <<target, then>>
vars == <<state, main, stopping, cancel, starts, creds, job, command, taken,
          status, clean, rest, target, then, pc, posts>>

Threads  == Clients \union Procs
NoWindow == -1

Down    == {"inactive", "failed", "auto-restart"}
Running == {"active", "activating", "auto-restart"}
States  == Down \union {"active", "activating", "deactivating"}

StartLines == {"ExecStartPre", "ExecStart", "ExecStartPost", "ExecReload"}
StopPostLines ==
    {"stop.ExecStopPost", "watch.ExecStopPost", "fail.ExecStopPost", "end.ExecStopPost"}
StopLines  == {"stop.ExecStop", "watch.ExecStop"} \union StopPostLines
Lines      == StartLines \union StopLines
TermSteps  == {"stop.term", "fail.term"}
ReapSteps  == {"stop.reap", "fail.reap"}
Reaping    == {"watch.reap", "watch.remain"}

\* The steps a thread takes holding unit.job, and those it takes without.
JobSteps == Lines \union TermSteps \union ReapSteps \union Reaping \union
            {"condition", "window", "count", "begin", "clear", "credentials", "spawn", "settle"}
ClientSteps == {"idle", "deps", "mark", "reset", "reload", "flag", "cancel", "signal", "kill", "job"}
WatchSteps  == {"free", "wait", "watch", "backoff", "deps", "depfail"}
Steps       == JobSteps \union ClientSteps \union WatchSteps \union {"activate"}

Init ==
    /\ state = "inactive" /\ main = None /\ stopping = FALSE /\ cancel = FALSE
    /\ starts = NoWindow /\ creds = FALSE
    /\ job = None /\ command = "none" /\ taken = None
    /\ status = [p \in Procs |-> "gone"]
    /\ clean = [p \in Procs |-> TRUE]
    /\ rest = [p \in Procs |-> FALSE]
    /\ target = [c \in Clients |-> "none"]
    /\ then = [c \in Clients |-> "idle"]
    /\ pc = [t \in Threads |-> IF t \in Clients THEN "idle" ELSE "free"]
    /\ posts = 1

Goto(t, step) == pc' = [pc EXCEPT ![t] = step]

\* A call ends: a client thread is done, a watch() thread ends.
Return(t) == Goto(t, IF t \in Clients THEN "idle" ELSE "free")

\* stop() returns, to the start that follows it in a restart.
Finish(c) == Goto(c, then[c]) /\ then' = [then EXCEPT ![c] = "idle"]

Release    == job' = None

-----------------------------------------------------------------------------
(* Requests *)

\* start: what the unit Requires= is started first.
CallStart(c) ==
    /\ "start" \in Verbs /\ pc[c] = "idle"
    /\ Goto(c, "deps")
    /\ UNCHANGED <<state, main, stopping, cancel, starts, creds, job_vars, proc_vars, call_vars, posts>>

\* stop, restart (stop, then start) and try-restart, whose look at the state takes no lock.
CallStop(c) ==
    /\ pc[c] = "idle"
    /\ \/ "stop" \in Verbs /\ then' = [then EXCEPT ![c] = "idle"]
       \/ "restart" \in Verbs /\ then' = [then EXCEPT ![c] = "deps"]
       \/ "try-restart" \in Verbs /\ state \in Running /\ then' = [then EXCEPT ![c] = "deps"]
    /\ Goto(c, "flag")
    /\ UNCHANGED <<state, main, stopping, cancel, starts, creds, job_vars, proc_vars, target, posts>>

CallReload(c) ==
    /\ "reload" \in Verbs /\ pc[c] = "idle"
    /\ Goto(c, "reload")
    /\ UNCHANGED <<state, main, stopping, cancel, starts, creds, job_vars, proc_vars, call_vars, posts>>

\* reset-failed: forgets the counted starts and looks whether the unit failed, without the job.
ResetFailed(c) ==
    /\ "reset-failed" \in Verbs /\ pc[c] = "idle"
    /\ starts' = NoWindow
    /\ IF state = "failed" THEN Goto(c, "reset") ELSE UNCHANGED pc
    /\ UNCHANGED <<state, main, stopping, cancel, creds, job_vars, proc_vars, call_vars, posts>>

MarkInactive(c) ==
    /\ pc[c] = "reset"
    /\ state' = "inactive"
    /\ Goto(c, "idle")
    /\ UNCHANGED <<main, stopping, cancel, starts, creds, job_vars, proc_vars, call_vars, posts>>

\* ExecReload= for an active unit, under the job; a restart otherwise.
Reload(c) ==
    /\ pc[c] = "reload" /\ job = None
    /\ IF state = "active"
       THEN job' = c /\ Goto(c, "ExecReload") /\ UNCHANGED then
       ELSE Goto(c, "flag") /\ then' = [then EXCEPT ![c] = "deps"] /\ UNCHANGED job
    /\ UNCHANGED <<state, main, stopping, cancel, starts, creds, command, taken, proc_vars, target, posts>>

-----------------------------------------------------------------------------
(* run_commands: one Exec line.  A key holds no line or one here; a line   *)
(* ends well or not, by itself, by stop()'s SIGTERM or by                  *)
(* STOP_COMMAND_TIMEOUT.                                                   *)

RunCommand(t) ==
    /\ pc[t] \in Lines /\ command = "none"
    /\ command' = IF pc[t] \in StopLines THEN "stop" ELSE "start"
    /\ UNCHANGED <<state, main, stopping, cancel, starts, creds, job, taken, proc_vars, call_vars, pc, posts>>

\* run_commands returns to step line of t: a line ended and was reaped, so whoever holds it
\* from Unit.current now holds a reaped process; or there was no such line, or one that
\* cannot be spawned.
Returned(t, line) ==
    /\ pc[t] = line
    /\ command' = "none"
    /\ target' = [c \in Clients |-> IF target[c] = "running" /\ command = "start"
                                    THEN "reaped" ELSE target[c]]
    /\ posts' = IF line \in StopPostLines /\ posts < 2 THEN posts + 1 ELSE posts

-----------------------------------------------------------------------------
(* start and activate *)

\* The units it Requires= are up (or it has none): activate.
RequiresUp(c) ==
    /\ pc[c] = "deps" /\ c \in Clients
    /\ Goto(c, "activate")
    /\ UNCHANGED <<state, main, stopping, cancel, starts, creds, job_vars, proc_vars, call_vars, posts>>

\* One did not come up: start() looks at the state, and marks the unit failed if it is down.
RequiresFail(c) ==
    /\ Requires /\ pc[c] = "deps" /\ c \in Clients
    /\ Goto(c, IF state \in {"inactive", "failed"} THEN "mark" ELSE "idle")
    /\ UNCHANGED <<state, main, stopping, cancel, starts, creds, job_vars, proc_vars, call_vars, posts>>

MarkFailed(c) ==
    /\ pc[c] = "mark"
    /\ state' = "failed"
    /\ Goto(c, "idle")
    /\ UNCHANGED <<main, stopping, cancel, starts, creds, job_vars, proc_vars, call_vars, posts>>

\* Mutant: a restart whose delay is over starts the unit whatever became of it.
CalledOff_never(t) == FALSE

\* The restart that a watch() thread is about to make is not wanted any more.
CalledOff(t) == t \in Procs /\ (state # "auto-restart" \/ cancel)

\* activate takes the job.  The unit may be up already; one still activating is waited for,
\* holding the job.
Activate(t) ==
    /\ pc[t] = "activate" /\ job = None
    /\ \/ /\ CalledOff(t) \/ state = "active"
          /\ Return(t)
          /\ UNCHANGED <<job, cancel>>
       \/ /\ ~CalledOff(t) /\ state = "activating"
          /\ job' = t /\ Goto(t, "settle")
          /\ UNCHANGED cancel
       \/ /\ ~CalledOff(t) /\ state \notin {"active", "activating"}
          /\ job' = t /\ Goto(t, "condition")
          /\ cancel' = (cancel \/ state = "auto-restart")
    /\ UNCHANGED <<state, main, stopping, starts, creds, command, taken, proc_vars, call_vars, posts>>

\* wait_settled
Settled(t) ==
    /\ pc[t] = "settle" /\ state # "activating"
    /\ Release /\ Return(t)
    /\ UNCHANGED <<state, main, stopping, cancel, starts, creds, command, taken, proc_vars, call_vars, posts>>

\* A Condition*= that is not met skips the start.
Condition(t) ==
    /\ pc[t] = "condition"
    /\ \/ /\ Goto(t, IF Burst = 0 THEN "begin" ELSE "window")
          /\ UNCHANGED <<state, creds, job>>
       \/ /\ Conditional
          /\ Release /\ Return(t)
          /\ IF state = "auto-restart"
             THEN creds' = FALSE /\ state' = "inactive"
             ELSE UNCHANGED <<state, creds>>
    /\ UNCHANGED <<main, stopping, cancel, starts, command, taken, proc_vars, call_vars, posts>>

\* start_limited opens a window when there is none or the last is over ...
StartWindow(t) ==
    /\ pc[t] = "window"
    /\ starts' \in {starts, 0} \ {NoWindow}
    /\ Goto(t, "count")
    /\ UNCHANGED <<state, main, stopping, cancel, creds, job_vars, proc_vars, call_vars, posts>>

\* ... and counts this start in it.  A reset-failed in between leaves no window to count in:
\* the exception ends the call, before activate's handler.
CountStart(t) ==
    /\ pc[t] = "count"
    /\ \/ /\ starts = NoWindow
          /\ Release /\ Return(t)
          /\ UNCHANGED <<state, creds, starts>>
       \/ /\ starts # NoWindow /\ starts < Burst
          /\ starts' = starts + 1
          /\ Goto(t, "begin")
          /\ UNCHANGED <<state, creds, job>>
       \/ /\ starts >= Burst
          /\ starts' = Burst + 1
          /\ state' = "failed"
          /\ creds' = (creds /\ state # "auto-restart")
          /\ Release /\ Return(t)
    /\ UNCHANGED <<main, stopping, cancel, command, taken, proc_vars, call_vars, posts>>

Begin(t) ==
    /\ pc[t] = "begin"
    /\ stopping' = FALSE
    /\ Goto(t, "clear")
    /\ UNCHANGED <<state, main, cancel, starts, creds, job_vars, proc_vars, call_vars, posts>>

ClearCancel(t) ==
    /\ pc[t] = "clear"
    /\ cancel' = FALSE
    /\ state' = "activating"
    /\ posts' = 0
    /\ Goto(t, "credentials")
    /\ UNCHANGED <<main, stopping, starts, creds, job_vars, proc_vars, call_vars>>

\* Mutant: a LoadCredential= that fails returns as it is, without fail().
LoadCredentials_return(t) ==
    /\ pc[t] = "credentials"
    /\ \/ creds' = LoadCredential /\ Goto(t, "ExecStartPre") /\ UNCHANGED job
       \/ LoadCredential /\ creds' = TRUE /\ Release /\ Return(t)
    /\ UNCHANGED <<state, main, stopping, cancel, starts, command, taken, proc_vars, call_vars, posts>>

\* A source that cannot be read leaves the directory behind for fail() to drop.
LoadCredentials(t) ==
    /\ pc[t] = "credentials"
    /\ \/ creds' = LoadCredential /\ Goto(t, "ExecStartPre")
       \/ LoadCredential /\ creds' = TRUE /\ Goto(t, "fail.ExecStopPost")
    /\ UNCHANGED <<state, main, stopping, cancel, starts, job_vars, proc_vars, call_vars, posts>>

ExecStartPre(t) ==
    /\ Returned(t, "ExecStartPre")
    /\ \/ Goto(t, IF Type = "simple" THEN "spawn" ELSE "ExecStart")
       \/ Goto(t, "fail.ExecStopPost")
    /\ UNCHANGED <<state, main, stopping, cancel, starts, creds, job, taken, proc_vars, then>>

\* Type=oneshot and forking.  A stop() that asked meanwhile ends the activation here: the
\* unit stays activating, for that stop() to take down.
ExecStart(t) ==
    /\ Returned(t, "ExecStart")
    /\ \/ Goto(t, "fail.ExecStopPost") /\ UNCHANGED job
       \/ stopping /\ Release /\ Return(t)
       \/ ~stopping /\ Goto(t, "ExecStartPost") /\ UNCHANGED job
    /\ UNCHANGED <<state, main, stopping, cancel, starts, creds, taken, proc_vars, then>>

\* Type=simple: the main process and the thread that watches it; or it cannot be spawned.
Spawn(t) ==
    /\ pc[t] = "spawn"
    /\ \/ \E p \in Procs :
             /\ pc[p] = "free" /\ status[p] = "gone" /\ ~rest[p]
             /\ main' = p
             /\ status' = [status EXCEPT ![p] = "live"]
             /\ pc' = [pc EXCEPT ![p] = "wait", ![t] = "ExecStartPost"]
       \/ /\ Goto(t, "fail.ExecStopPost")
          /\ UNCHANGED <<main, status>>
    /\ UNCHANGED <<state, stopping, cancel, starts, creds, job_vars, clean, rest, call_vars, posts>>

\* Mutant: a failed ExecStartPost= fails the unit and leaves its main process alone.
AfterFailedPost_fail == "fail.ExecStopPost"

\* What a failed ExecStartPost= is followed by.
AfterFailedPost == IF main = None THEN "fail.ExecStopPost" ELSE "fail.term"

\* The unit is up, or a oneshot is over; a failure ends the main process first.
ExecStartPost(t) ==
    /\ Returned(t, "ExecStartPost")
    /\ \/ /\ Type # "oneshot" \/ RemainAfterExit
          /\ state' = "active"
          /\ Release /\ Return(t)
          /\ UNCHANGED <<main, taken>>
       \/ /\ Type = "oneshot" /\ ~RemainAfterExit
          /\ Goto(t, "end.ExecStopPost")
          /\ UNCHANGED <<state, job, main, taken>>
       \/ /\ main' = None /\ taken' = main
          /\ Goto(t, AfterFailedPost)
          /\ UNCHANGED <<state, job>>
    /\ UNCHANGED <<stopping, cancel, starts, creds, proc_vars, then>>

EndOneshot(t) ==
    /\ Returned(t, "end.ExecStopPost")
    /\ creds' = FALSE
    /\ state' = "inactive"
    /\ Release /\ Return(t)
    /\ UNCHANGED <<main, stopping, cancel, starts, taken, proc_vars, then>>

Fail(t) ==
    /\ Returned(t, "fail.ExecStopPost")
    /\ creds' = FALSE
    /\ state' = "failed"
    /\ Release /\ Return(t)
    /\ UNCHANGED <<main, stopping, cancel, starts, taken, proc_vars, then>>

ExecReload(t) ==
    /\ Returned(t, "ExecReload")
    /\ Release /\ Return(t)
    /\ UNCHANGED <<state, main, stopping, cancel, starts, creds, taken, proc_vars, then>>

-----------------------------------------------------------------------------
(* terminate, for stop() and for a start that failed *)

\* SIGTERM to the group, unless its leader was reaped.
Terminate(t) ==
    /\ pc[t] \in TermSteps
    /\ Goto(t, IF pc[t] = "stop.term" THEN "stop.reap" ELSE "fail.reap")
    /\ UNCHANGED <<state, main, stopping, cancel, starts, creds, job_vars, proc_vars, call_vars, posts>>

\* Mutant: a process that ignores SIGTERM is waited for.
Kill_never(t) == FALSE

\* STOP_TIMEOUT is over: SIGKILL.
Kill(t) ==
    /\ pc[t] \in ReapSteps /\ status[taken] = "live"
    /\ status' = [status EXCEPT ![taken] = "zombie"]
    /\ UNCHANGED <<state, main, stopping, cancel, starts, creds, job_vars, clean, rest, call_vars, pc, posts>>

\* Mutant: only the leader ends.
Reap_leader(t) ==
    /\ pc[t] \in ReapSteps /\ status[taken] = "zombie"
    /\ status' = [status EXCEPT ![taken] = "gone"]
    /\ clean' = [clean EXCEPT ![taken] = TRUE]
    /\ taken' = None
    /\ Goto(t, IF pc[t] = "stop.reap" THEN "stop.ExecStopPost" ELSE "fail.ExecStopPost")
    /\ UNCHANGED <<state, main, stopping, cancel, starts, creds, job, command, rest, call_vars, posts>>

\* The rest of the group is killed before the leader is reaped.
Reap(t) ==
    /\ pc[t] \in ReapSteps /\ status[taken] = "zombie"
    /\ status' = [status EXCEPT ![taken] = "gone"]
    /\ rest' = [rest EXCEPT ![taken] = FALSE]
    /\ clean' = [clean EXCEPT ![taken] = TRUE]
    /\ taken' = None
    /\ Goto(t, IF pc[t] = "stop.reap" THEN "stop.ExecStopPost" ELSE "fail.ExecStopPost")
    /\ UNCHANGED <<state, main, stopping, cancel, starts, creds, job, command, call_vars, posts>>

-----------------------------------------------------------------------------
(* stop *)

\* Mutant: the unit is shown deactivating before the job is taken.
FlagStop_early(c) ==
    /\ pc[c] = "flag"
    /\ stopping' = TRUE
    /\ state' = "deactivating"
    /\ Goto(c, "cancel")
    /\ UNCHANGED <<main, cancel, starts, creds, job_vars, proc_vars, call_vars, posts>>

\* Before the job: the flags that keep watch() from restarting the unit ...
FlagStop(c) ==
    /\ pc[c] = "flag"
    /\ stopping' = TRUE
    /\ Goto(c, "cancel")
    /\ UNCHANGED <<state, main, cancel, starts, creds, job_vars, proc_vars, call_vars, posts>>

CancelRestart(c) ==
    /\ pc[c] = "cancel"
    /\ cancel' = TRUE
    /\ Goto(c, "signal")
    /\ UNCHANGED <<state, main, stopping, starts, creds, job_vars, proc_vars, call_vars, posts>>

\* ... and the command of a start under way: read once from Unit.current, found not reaped ...
ReadCurrent(c) ==
    /\ pc[c] = "signal"
    /\ IF command = "start"
       THEN target' = [target EXCEPT ![c] = "running"] /\ Goto(c, "kill")
       ELSE Goto(c, "job") /\ UNCHANGED target
    /\ UNCHANGED <<state, main, stopping, cancel, starts, creds, job_vars, proc_vars, then, posts>>

\* ... and sent SIGTERM.
SignalCurrent(c) ==
    /\ pc[c] = "kill"
    /\ target' = [target EXCEPT ![c] = "none"]
    /\ Goto(c, "job")
    /\ UNCHANGED <<state, main, stopping, cancel, starts, creds, job_vars, proc_vars, then, posts>>

\* Mutant: a failed unit's stop commands run once more.
IsDown_failed == state \in {"inactive", "auto-restart"} /\ main = None

\* Nothing to take down: no main process, and a state that has none.
IsDown == state \in Down /\ main = None

\* The job: a unit that is down only loses a restart to come; another is taken down.
TakeDown(c) ==
    /\ pc[c] = "job" /\ job = None
    /\ stopping' = TRUE
    /\ IF IsDown
       THEN /\ creds' = (creds /\ state # "auto-restart")
            /\ state' = "inactive"
            /\ Finish(c)
            /\ UNCHANGED <<job, main, taken>>
       ELSE /\ job' = c
            /\ state' = "deactivating"
            /\ taken' = main /\ main' = None
            /\ Goto(c, "stop.ExecStop")
            /\ UNCHANGED <<creds, then>>
    /\ UNCHANGED <<cancel, starts, command, proc_vars, target, posts>>

ExecStop(c) ==
    /\ Returned(c, "stop.ExecStop")
    /\ Goto(c, IF taken = None THEN "stop.ExecStopPost" ELSE "stop.term")
    /\ UNCHANGED <<state, main, stopping, cancel, starts, creds, job, taken, proc_vars, then>>

Stopped(c) ==
    /\ Returned(c, "stop.ExecStopPost")
    /\ creds' = FALSE
    /\ state' = "inactive"
    /\ stopping' = FALSE
    /\ Release /\ Finish(c)
    /\ UNCHANGED <<main, cancel, starts, taken, proc_vars>>

-----------------------------------------------------------------------------
(* watch *)

\* A main process exits, leaving others of its group behind or not.
Exit(p) ==
    /\ status[p] = "live"
    /\ status' = [status EXCEPT ![p] = "zombie"]
    /\ \E ok, left \in BOOLEAN :
          /\ clean' = [clean EXCEPT ![p] = ok]
          /\ rest' = [rest EXCEPT ![p] = left]
    /\ UNCHANGED <<state, main, stopping, cancel, starts, creds, job_vars, call_vars, pc, posts>>

\* Mutant: watch() waits with Popen.wait(), which reaps, and before it has the job.
NoticeExit_reap(p) ==
    /\ pc[p] = "wait" /\ status[p] # "live"
    /\ Goto(p, IF status[p] = "zombie" THEN "watch" ELSE "free")
    /\ status' = [status EXCEPT ![p] = "gone"]
    /\ UNCHANGED <<state, main, stopping, cancel, starts, creds, job_vars, clean, rest, call_vars, posts>>

\* Its exit is noticed; or it was reaped already, by terminate.
NoticeExit(p) ==
    /\ pc[p] = "wait" /\ status[p] # "live"
    /\ Goto(p, IF status[p] = "zombie" THEN "watch" ELSE "free")
    /\ UNCHANGED <<state, main, stopping, cancel, starts, creds, job_vars, proc_vars, call_vars, posts>>

\* Mutant: every clean exit leaves the unit active.
Remains_clean(p) == clean[p]

\* RemainAfterExit=: the unit stays active without a main process.
Remains(p) == clean[p] /\ RemainAfterExit /\ ~stopping

\* Under the job: an exit that is watch()'s to handle.  The rest of the group goes before
\* the reap, bar a unit that remains active.
TakeExit(p) ==
    /\ pc[p] = "watch" /\ job = None
    /\ IF main # p
       THEN Goto(p, "free") /\ UNCHANGED <<job, main, rest>>
       ELSE /\ job' = p
            /\ main' = None
            /\ IF Remains(p)
               THEN Goto(p, "watch.remain") /\ UNCHANGED rest
               ELSE Goto(p, "watch.reap") /\ rest' = [rest EXCEPT ![p] = FALSE]
    /\ UNCHANGED <<state, stopping, cancel, starts, creds, command, taken, status, clean, call_vars, posts>>

\* The reap; a stop() that asked meanwhile runs the stop commands itself.
ReapExit(p) ==
    /\ pc[p] \in Reaping
    /\ status' = [status EXCEPT ![p] = "gone"]
    /\ IF pc[p] = "watch.remain" \/ stopping
       THEN Release /\ Goto(p, "free") /\ clean' = [clean EXCEPT ![p] = TRUE]
       ELSE Goto(p, "watch.ExecStop") /\ UNCHANGED <<job, clean>>
    /\ UNCHANGED <<state, main, stopping, cancel, starts, creds, command, taken, rest, call_vars, posts>>

WatchExecStop(p) ==
    /\ Returned(p, "watch.ExecStop")
    /\ Goto(p, "watch.ExecStopPost")
    /\ UNCHANGED <<state, main, stopping, cancel, starts, creds, job, taken, proc_vars, then>>

RestartAgain(ok) == Restart = "always" \/ (Restart = "on-failure" /\ ~ok)

\* Restart=: the unit waits for RestartSec= or is down.
Decide(p) ==
    /\ Returned(p, "watch.ExecStopPost")
    /\ Release
    /\ clean' = [clean EXCEPT ![p] = TRUE]
    /\ IF RestartAgain(clean[p])
       THEN state' = "auto-restart" /\ Goto(p, "backoff") /\ UNCHANGED creds
       ELSE /\ creds' = FALSE
            /\ state' = IF clean[p] THEN "inactive" ELSE "failed"
            /\ Goto(p, "free")
    /\ UNCHANGED <<main, stopping, cancel, starts, taken, status, rest, then>>

\* Mutant: the wait has no timeout.
Backoff_untimed(p) ==
    /\ pc[p] = "backoff" /\ cancel
    /\ Goto(p, "free")
    /\ UNCHANGED <<state, main, stopping, cancel, starts, creds, job_vars, proc_vars, call_vars, posts>>

\* cancel.wait(delay): called off, or the delay is over.
Backoff(p) ==
    /\ pc[p] = "backoff"
    /\ Goto(p, IF cancel THEN "free" ELSE "deps")
    /\ UNCHANGED <<state, main, stopping, cancel, starts, creds, job_vars, proc_vars, call_vars, posts>>

\* Mutant: as start() has it, the failure is marked without the job.
RestartDeps_mark(p) ==
    /\ pc[p] = "deps" /\ p \in Procs
    /\ \/ Goto(p, "activate")
       \/ Requires /\ Goto(p, "mark")
    /\ UNCHANGED <<state, main, stopping, cancel, starts, creds, job_vars, proc_vars, call_vars, posts>>

\* As any start: what the unit Requires= first.
RestartDeps(p) ==
    /\ pc[p] = "deps" /\ p \in Procs
    /\ \/ Goto(p, "activate")
       \/ Requires /\ Goto(p, "depfail")
    /\ UNCHANGED <<state, main, stopping, cancel, starts, creds, job_vars, proc_vars, call_vars, posts>>

\* Mutant: the restart is given up and nothing said.
RestartDepsFailed_quiet(p) ==
    /\ pc[p] = "depfail" /\ job = None
    /\ Goto(p, "free")
    /\ UNCHANGED <<state, main, stopping, cancel, starts, creds, job_vars, proc_vars, call_vars, posts>>

RestartDepsFailed(p) ==
    /\ pc[p] = "depfail" /\ job = None
    /\ IF state = "auto-restart" /\ ~cancel
       THEN creds' = FALSE /\ state' = "failed"
       ELSE UNCHANGED <<state, creds>>
    /\ Goto(p, "free")
    /\ UNCHANGED <<main, stopping, cancel, starts, job_vars, proc_vars, call_vars, posts>>

-----------------------------------------------------------------------------
ActivateNext(t) ==
    \/ Activate(t) \/ Settled(t) \/ Condition(t) \/ StartWindow(t) \/ CountStart(t)
    \/ Begin(t) \/ ClearCancel(t) \/ LoadCredentials(t)
    \/ ExecStartPre(t) \/ ExecStart(t) \/ Spawn(t) \/ ExecStartPost(t)
    \/ EndOneshot(t) \/ Fail(t)
    \/ RunCommand(t) \/ Terminate(t) \/ Kill(t) \/ Reap(t)

StopNext(c) ==
    \/ FlagStop(c) \/ CancelRestart(c) \/ ReadCurrent(c) \/ SignalCurrent(c)
    \/ TakeDown(c) \/ ExecStop(c) \/ Stopped(c)

WatchNext(p) ==
    \/ Exit(p) \/ NoticeExit(p) \/ TakeExit(p) \/ ReapExit(p) \/ WatchExecStop(p)
    \/ Decide(p) \/ Backoff(p) \/ RestartDeps(p) \/ RestartDepsFailed(p)

CallNext(c) ==
    \/ CallStart(c) \/ CallStop(c) \/ CallReload(c)

\* Every step but the starts that fail on a required unit and the reset-faileds.
JobNext ==
    \/ \E t \in Threads : ActivateNext(t)
    \/ \E c \in Clients : CallNext(c) \/ RequiresUp(c) \/ Reload(c) \/ ExecReload(c) \/ StopNext(c)
    \/ \E p \in Procs : WatchNext(p)

\* The writes of Unit.state and Unit.start_limit that are made without the job.
UnlockedNext ==
    \E c \in Clients : RequiresFail(c) \/ MarkFailed(c) \/ ResetFailed(c) \/ MarkInactive(c)

Next == JobNext \/ UnlockedNext

Spec == Init /\ [][Next]_vars

\* The unit while its state is written under the job only.
JobSpec == Init /\ [][JobNext]_vars

-----------------------------------------------------------------------------
(* Fairness.  A thread's own steps are taken: an Exec line ends (the ones  *)
(* of a stop by STOP_COMMAND_TIMEOUT), a process outlived by STOP_TIMEOUT  *)
(* is killed, RestartSec= is over some time.  No request is ever forced,   *)
(* nor does a process have to exit by itself.  A thread that waits for the *)
(* job gets it if it is free again and again: whoever has it either        *)
(* returns for good or leaves it free for RestartSec=, which is longer     *)
(* than waking a waiter takes.                                             *)
OwnNext(t) ==
    \/ Condition(t) \/ StartWindow(t) \/ CountStart(t) \/ Begin(t) \/ ClearCancel(t)
    \/ LoadCredentials(t) \/ ExecStartPre(t) \/ ExecStart(t) \/ Spawn(t) \/ ExecStartPost(t)
    \/ EndOneshot(t) \/ Fail(t) \/ Settled(t) \/ Terminate(t) \/ Kill(t) \/ Reap(t)
    \/ t \in Clients /\ \/ RequiresUp(t) \/ ExecReload(t) \/ FlagStop(t) \/ CancelRestart(t)
                        \/ ReadCurrent(t) \/ SignalCurrent(t) \/ ExecStop(t) \/ Stopped(t)
    \/ t \in Procs /\ \/ NoticeExit(t) \/ ReapExit(t) \/ WatchExecStop(t) \/ Decide(t)
                      \/ Backoff(t) \/ RestartDeps(t)

TakeJobNext(t) ==
    \/ Activate(t)
    \/ t \in Clients /\ (TakeDown(t) \/ Reload(t))
    \/ t \in Procs /\ (TakeExit(t) \/ RestartDepsFailed(t))

Fairness == \A t \in Threads : WF_vars(OwnNext(t)) /\ SF_vars(TakeJobNext(t))

LiveSpec == JobSpec /\ Fairness

-----------------------------------------------------------------------------
(* Properties *)

\* A client takes no step of a watch() thread, nor the other way round.
PcOK ==
    /\ pc \in [Threads -> Steps]
    /\ \A c \in Clients : pc[c] \notin WatchSteps \ {"deps"}
    /\ \A p \in Procs : pc[p] \notin ClientSteps \ {"deps"}

\* The values that the variables can have.
TypeOK ==
    /\ state \in States
    /\ main \in Procs \union {None}
    /\ stopping \in BOOLEAN /\ cancel \in BOOLEAN /\ creds \in BOOLEAN
    /\ starts \in NoWindow .. Burst + 1
    /\ job \in Threads \union {None}
    /\ command \in {"none", "start", "stop"}
    /\ taken \in Procs \union {None}
    /\ status \in [Procs -> {"live", "zombie", "gone"}]
    /\ clean \in [Procs -> BOOLEAN]
    /\ rest \in [Procs -> BOOLEAN]
    /\ target \in [Clients -> {"none", "running", "reaped"}]
    /\ then \in [Clients -> {"idle", "deps"}]
    /\ posts \in 0 .. 2
    /\ PcOK

\* A unit's main process, and the one who will end it: every process that was started and
\* not yet reaped is Unit.main, or was taken from there by the thread that ends it now.  So
\* the service never runs twice, and no process is forgotten running.
OneProcess ==
    \A p \in Procs :
        status[p] # "gone" => \/ main = p /\ taken = None
                              \/ taken = p /\ main = None
                              \/ pc[p] \in Reaping /\ job = p /\ main = None /\ taken = None

\* A unit seen down (inactive, failed or waiting to restart) while nobody holds its job has
\* no process, and keeps credentials only for a restart to come.
DownIsDown ==
    job = None /\ state \in Down =>
        /\ main = None
        /\ \A p \in Procs : status[p] = "gone"
        /\ creds => state = "auto-restart"

\* A Type=simple unit that is active and not being stopped has its main process: the exit
\* of one never goes unnoticed with the unit left active.
UpIsUp ==
    Type = "simple" /\ job = None /\ state = "active" /\ ~stopping =>
        main # None \/ RemainAfterExit

\* Between two activations the unit's ExecStopPost= ran exactly once, whoever ended the
\* first: stop(), watch(), or the failed start itself.
StopPostOnce ==
    /\ posts < 2
    /\ job = None /\ state \in Down => posts = 1

\* No signal of terminate() or watch() goes to a group whose leader was reaped: its id may
\* lead another group by then.
SignalsOwnGroup ==
    /\ \A t \in Threads : pc[t] \in TermSteps => taken # None /\ status[taken] # "gone"
    /\ \A p \in Procs : pc[p] \in Reaping => status[p] = "zombie"

\* What a main process leaves behind in its group is ended before the process is reaped.
GroupEnded == \A p \in Procs : status[p] = "gone" /\ rest[p] => RemainAfterExit

\* A unit waiting for its restart has a watch() thread on its way to it, unless a stop() on
\* its way called it off: it is not stuck there.
RestartPending ==
    job = None /\ state = "auto-restart" =>
        \/ cancel /\ \E c \in Clients : pc[c] \in {"signal", "kill", "job"}
        \/ ~cancel /\ \E p \in Procs : pc[p] \in {"backoff", "deps", "depfail", "activate"}

\* A unit left activating with its job free is one that a stop() is about to take down.
ActivatingIsStopped ==
    job = None =>
        /\ state # "deactivating"
        /\ state = "activating" =>
              Type # "simple" /\ \E c \in Clients : pc[c] \in {"cancel", "signal", "kill", "job"}

\* A stop is final for Restart=: only a start that a client asked for takes an inactive
\* unit out of it, never the watch() thread of an earlier run.
NotUndone == [][state = "inactive" /\ state' # "inactive" => job \notin Procs]_vars

\* stop() returns.
StopReturns == \A c \in Clients : pc[c] = "flag" ~> pc[c] \in {"idle", "deps"}

\* A unit that waits for its restart starts, fails or is stopped.
RestartEnds == state = "auto-restart" ~> state # "auto-restart"

\* The exit of the main process is reaped.
ExitReaped == \A p \in Procs : status[p] = "zombie" ~> status[p] = "gone"

\* wait_settled returns: "Left activating, the unit would hold every later start in
\* wait_settled for good."
WaitSettledEnds == \A c \in Clients : pc[c] = "settle" ~> pc[c] # "settle"

\* A start that fails on a required unit: "Only this start failed: one already running
\* stays so."
RunningStaysSo == state = "failed" /\ job = None => main = None

-----------------------------------------------------------------------------
(* The inductive invariant behind OneProcess, DownIsDown and StopPostOnce. *)

\* unit.job excludes: the thread that holds it is the one at a step under it.
JobInv == \A t \in Threads : pc[t] \in JobSteps <=> job = t

\* A process that is not reaped has its watch() thread, which reaps it only as a zombie.
WatchInv ==
    \A p \in Procs :
        /\ status[p] # "gone" => pc[p] \in {"wait", "watch"} \union Reaping
        /\ pc[p] \in Reaping => status[p] = "zombie"
        /\ pc[p] = "watch" => status[p] # "live"

\* What main and taken are worth: a process not reaped.
MainInv ==
    /\ main # None => status[main] # "gone"
    /\ taken # None => status[taken] # "gone"

\* A unit that is down, as the next activation will find it.
AtRest == state \in Down /\ main = None /\ posts = 1 /\ (creds => state = "auto-restart")

IdleInv ==
    job = None =>
        /\ taken = None
        /\ \/ AtRest
           \/ state = "active" /\ posts = 0
           \/ state = "activating" /\ Type # "simple" /\ main = None /\ posts = 0

\* The steps under the job, by what they are for: an activation not begun yet, one under way,
\* an active unit's, a stop.
Starting   == {"condition", "window", "count", "begin", "clear"}
Activating == {"credentials", "ExecStartPre", "ExecStart", "spawn", "ExecStartPost", "settle",
               "end.ExecStopPost", "fail.term", "fail.reap", "fail.ExecStopPost"}
Watching   == {"ExecReload", "watch.ExecStop", "watch.ExecStopPost"} \union Reaping
Stopping   == {"stop.ExecStop", "stop.term", "stop.reap", "stop.ExecStopPost"}

NoProcess  == {"credentials", "ExecStartPre", "ExecStart", "spawn", "settle", "end.ExecStopPost",
               "fail.ExecStopPost", "stop.ExecStopPost", "watch.ExecStop", "watch.ExecStopPost"}
              \union Reaping
WithTaken  == TermSteps \union ReapSteps

\* What the thread that has the job knows at its step.
StepAt(t) ==
    /\ pc[t] \in Starting => AtRest /\ taken = None /\ (t \in Procs => state = "auto-restart")
    /\ pc[t] \in Activating => state = "activating" /\ posts = 0
    /\ pc[t] \in Watching => state = "active" /\ posts = 0
    /\ pc[t] \in Stopping => state = "deactivating" /\ posts = 0
    /\ pc[t] \in NoProcess => main = None /\ taken = None
    /\ pc[t] \in WithTaken => main = None /\ taken # None
    /\ pc[t] \in {"ExecStartPost", "ExecReload"} => taken = None
    /\ pc[t] = "ExecStartPost" => (main = None <=> Type # "simple")
    /\ pc[t] = "spawn" => Type = "simple"
    /\ pc[t] \in {"ExecStart", "settle"} => Type # "simple"
    /\ pc[t] = "stop.ExecStop" => main = None

StepInv == \A t \in Threads : StepAt(t)

IInv == TypeOK /\ JobInv /\ WatchInv /\ MainInv /\ OneProcess /\ IdleInv /\ StepInv

(* Further parts, each inductive beside IInv. *)

Signals == {"signal", "kill", "job"}

\* What is to be killed of a group is, before the leader is reaped (for GroupEnded).
GroupInv ==
    \A p \in Procs :
        /\ rest[p] => status[p] # "live"
        /\ rest[p] /\ status[p] = "gone" => RemainAfterExit
        /\ pc[p] = "watch.reap" => ~rest[p]
        /\ pc[p] = "watch.remain" => RemainAfterExit

\* Who raised stopping, and cancel, is on its way to the job, or the unit is down (for
\* ActivatingIsStopped and RestartPending).
StopAsked ==
    stopping /\ (state \in {"activating", "active"} \/ \E t \in Threads : pc[t] = "clear") =>
        \E c \in Clients : pc[c] \in Signals \union {"cancel"}
LeftActivating ==
    job = None /\ state = "activating" =>
        \E c \in Clients : pc[c] \in Signals \union {"cancel"}
CancelAsked ==
    cancel /\ state \in {"activating", "active"} => \E c \in Clients : pc[c] \in Signals
RestartInv ==
    /\ job = None /\ state = "auto-restart" =>
          IF cancel THEN \E c \in Clients : pc[c] \in Signals
                    ELSE \E p \in Procs : pc[p] \in {"backoff", "deps", "depfail", "activate"}
    /\ \A t \in Threads : pc[t] = "count" => starts # NoWindow

\* An active unit's main process (for UpIsUp).
UpInv ==
    Type = "simple" /\ state = "active" /\ ~stopping =>
        \/ main # None \/ RemainAfterExit
        \/ \E p \in Procs : pc[p] \in Watching \ {"ExecReload"}

PendingInv == GroupInv /\ StopAsked /\ LeftActivating /\ CancelAsked /\ RestartInv /\ UpInv

\* One service as is-active and the process table show it: the unit, its threads and its
\* job implement ServiceLife.
Life == INSTANCE ServiceLife WITH
    phase <- state, running <- \E p \in Procs : status[p] # "gone"
LifeSpec == Life!Spec

=============================================================================
