--------------------------- MODULE SupervisorTimers ---------------------------
(***************************************************************************)
(* A timer and a path unit of the process supervisor, and the oneshot they *)
(* start (src/pkgs/proxy-ctl/proxy_supervisor.py).  The daemon's loop      *)
(* ticks once a second; what is due starts in a thread of its own, which   *)
(* waits for the unit's job, held for all of a run.                        *)
(***************************************************************************)
EXTENDS Integers, Sequences, FiniteSets
LOCAL INSTANCE FiniteSetsExt

CONSTANTS
  Confs,    \* onActive, onBoot, onUnit: a time span or None; jitter: at most;
            \* remain: RemainAfterExit; watch: the path's unit is active from the start;
            \* burst, window: the start limit, 0 for none; changes, starts: bounds
  MaxTime,  \* bound: when time ends
  MaxRun,   \* how long a run may take
  None

VARIABLES
  conf,
  clock,   \* [now, ticked]
  timer,   \* [active, activated, fired, jitter]
  unit,    \* [state, activated: last_activated, starts, window: start_limit]
  threads, \* in_background: how many stop the unit first, and how many only start it
  file,    \* what the watched file says, a number
  seen,    \* what the watch has seen of it
  run,     \* [began, last: the last moment it ran, read: what the last one read of the file,
           \* all: with a limit, when each began; refused: when it last refused one]
  count    \* [fires, changes, starts, limited]

vars == <<conf, clock, timer, unit, threads, file, seen, run, count>>

now == clock.now
Later(a, b) == IF a > b THEN a ELSE b

-----------------------------------------------------------------------------
(* Timers                                                                   *)

\* Mutant: what has fired is due again.
Due_again(base) == TRUE
Due(base) == base \notin timer.fired

\* next_elapse: <<base, when>>.
Candidates ==
  {c \in {<<"active", conf.onActive, timer.activated>>, <<"boot", conf.onBoot, 0>>, <<"unit", conf.onUnit, unit.activated>>} :
     c[2] # None /\ c[3] # None /\ (c[1] # "unit" => Due(c[1]))}
When(c)  == c[2] + c[3]
Elapse   == Min({When(c) : c \in Candidates})
Bases    == {c[1] : c \in {c \in Candidates : When(c) <= Elapse}}
Elapsed  == timer.active /\ Candidates # {} /\ Elapse + timer.jitter <= now

Fresh(jitter) == [active |-> TRUE, activated |-> now, fired |-> {}, jitter |-> jitter]

\* start_timer; a reload that finds another definition makes another timer.
StartTimer ==
  /\ ~timer.active
  /\ \E jitter \in 0..conf.jitter : timer' = Fresh(jitter)
  /\ count' = [count EXCEPT !.fires = 0]
  /\ UNCHANGED <<conf, clock, unit, threads, file, seen, run>>
StopTimer ==
  /\ timer.active /\ count.starts < conf.starts
  /\ timer' = [timer EXCEPT !.active = FALSE]
  /\ count' = [count EXCEPT !.starts = @ + 1]
  /\ UNCHANGED <<conf, clock, unit, threads, file, seen, run>>

\* Mutant: a change is not followed while the unit is busy.
Follows_idle(changed) == changed /\ unit.state # "activating"
Follows(changed) == changed

\* tick(): the timers, then the paths.
Tick ==
  /\ ~clock.ticked
  /\ clock' = [clock EXCEPT !.ticked = TRUE]
  /\ \E jitter \in 0..conf.jitter :
       timer' = IF Elapsed THEN [timer EXCEPT !.fired = @ \union Bases, !.jitter = jitter] ELSE timer
  /\ unit' = IF Elapsed THEN [unit EXCEPT !.activated = now] ELSE unit
  /\ LET fires == Elapsed /\ unit.state # "activating"
         changed == conf.watch /\ file # seen
     IN  /\ threads' = [fresh |-> threads.fresh + (IF fires THEN 1 ELSE 0), start |-> threads.start + (IF Follows(changed) THEN 1 ELSE 0)]
         /\ seen' = IF conf.watch THEN file ELSE seen
         /\ count' = [count EXCEPT !.fires = @ + (IF Elapsed THEN 1 ELSE 0), !.limited = @ /\ ~changed]
  /\ UNCHANGED <<conf, file, run>>

-----------------------------------------------------------------------------
(* The threads                                                              *)

Free == unit.state # "activating"

\* activate_fresh, of a oneshot that stays active: its stop.
StopsFirst ==
  /\ threads.fresh > 0 /\ Free
  /\ threads' = [fresh |-> threads.fresh - 1, start |-> threads.start + 1]
  /\ unit' = [unit EXCEPT !.state = IF @ = "active" THEN "inactive" ELSE @]
  /\ UNCHANGED <<conf, clock, timer, file, seen, run, count>>

\* start_limited
InWindow == unit.window # None /\ now - unit.window <= conf.window
Counted  == IF InWindow THEN unit.starts + 1 ELSE 1
\* Mutant: the window's last start is refused.
Limited_last == conf.burst > 0 /\ Counted >= conf.burst
\* Mutant: one too many goes through.
Limited_next == conf.burst > 0 /\ Counted > conf.burst + 1
Limited  == conf.burst > 0 /\ Counted > conf.burst

Starts ==
  /\ threads.start > 0 /\ Free
  /\ threads' = [threads EXCEPT !.start = @ - 1]
  /\ IF unit.state = "active" THEN UNCHANGED <<unit, run, count>>
     ELSE LET limit == [unit EXCEPT !.starts = Counted, !.window = IF InWindow THEN @ ELSE now]
          IN  IF Limited
              THEN /\ unit' = [limit EXCEPT !.state = "failed"]
                   /\ count' = [count EXCEPT !.limited = TRUE] /\ run' = [run EXCEPT !.refused = now]
              ELSE /\ unit' = [limit EXCEPT !.state = "activating", !.activated = now]
                   /\ run' = [run EXCEPT !.began = now, !.last = now, !.read = file,
                                         !.all = IF conf.burst > 0 THEN Append(@, now) ELSE @]
                   /\ UNCHANGED count
  /\ UNCHANGED <<conf, clock, timer, file, seen>>

Ends ==
  /\ unit.state = "activating"
  /\ unit' = [unit EXCEPT !.state = IF conf.remain THEN "active" ELSE "inactive"]
  /\ run' = [run EXCEPT !.last = now]
  /\ UNCHANGED <<conf, clock, timer, threads, file, seen, count>>

-----------------------------------------------------------------------------
(* The host                                                                 *)

\* `systemctl start`
Asked ==
  /\ count.starts < conf.starts
  /\ count' = [count EXCEPT !.starts = @ + 1]
  /\ threads' = [threads EXCEPT !.start = @ + 1]
  /\ UNCHANGED <<conf, clock, timer, unit, file, seen, run>>

Changes ==
  /\ count.changes < conf.changes
  /\ count' = [count EXCEPT !.changes = @ + 1]
  /\ file' = file + 1
  /\ UNCHANGED <<conf, clock, timer, unit, threads, seen, run>>

Waiting == threads.fresh + threads.start

\* The loop and the threads are quick; a run is not.
Passes ==
  /\ clock.ticked /\ now < MaxTime
  /\ Free => Waiting = 0
  /\ ~Free => now - run.began < MaxRun
  /\ clock' = [now |-> now + 1, ticked |-> FALSE]
  /\ UNCHANGED <<conf, timer, unit, threads, file, seen, run, count>>

-----------------------------------------------------------------------------
Init ==
  /\ conf \in Confs
  /\ clock = [now |-> 0, ticked |-> FALSE]
  /\ \E jitter \in 0..conf.jitter : timer = Fresh(jitter)
  /\ unit = [state |-> "inactive", activated |-> None, starts |-> 0, window |-> None]
  /\ threads = [fresh |-> 0, start |-> 0]
  /\ file = 0 /\ seen = 0
  /\ run = [began |-> None, last |-> 0, read |-> 0, all |-> <<>>, refused |-> None]
  /\ count = [fires |-> 0, changes |-> 0, starts |-> 0, limited |-> FALSE]

Next == StartTimer \/ StopTimer \/ Tick \/ StopsFirst \/ Starts \/ Ends \/ Asked \/ Changes \/ Passes

-----------------------------------------------------------------------------
AtRest == clock.ticked /\ Waiting = 0 /\ Free

\* While a timer is active its unit runs again and again: never longer than its spans
\* apart, whoever else starts it, however long a run takes, and after a restart of the
\* timer (next_elapse, proxy_supervisor.py:1000).
RunsOn ==
  timer.active /\ AtRest /\ ~count.limited /\ conf.onUnit # None =>
    now - Later(run.last, timer.activated) <=
      Later(conf.onUnit, IF conf.onActive # None THEN conf.onActive ELSE conf.onBoot) + conf.jitter

\* But not without end: what has fired once does not go on firing.
NoStorm ==
  timer.active /\ conf.onUnit # None => count.fires <= 3 + (now - timer.activated) \div conf.onUnit

\* A run that began after the last change of the watched file has read it, whenever
\* the change came; bar a start that was refused by the limit, and then the next change
\* is followed again (tick, proxy_supervisor.py:1040).
ChangeFollowed == conf.watch /\ AtRest /\ ~count.limited => run.read >= seen

\* The start limit counts right: a start is refused only when as many as may have begun
\* in its interval, and no interval has more than two windows' full of them
\* (start_limited, "fixed window", proxy_supervisor.py:687).
LimitExact ==
  LET began(from) == {i \in 1..Len(run.all) : run.all[i] \in from..from + conf.window}
  IN  /\ run.refused # None => Cardinality(began(run.refused - conf.window)) >= conf.burst
      /\ conf.burst > 0 => \A from \in 0..now : Cardinality(began(from)) <= 2 * conf.burst

TimersHold == RunsOn /\ NoStorm /\ ChangeFollowed /\ LimitExact
=============================================================================
