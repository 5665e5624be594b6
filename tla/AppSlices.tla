------------------------------ MODULE AppSlices ------------------------------
(***************************************************************************)
(* `proxy-ctl apps run` (src/pkgs/proxy-ctl/proxy_ctl.py): commands of one *)
(* user wrapped in scopes of a route's slice, which a unit marks so that   *)
(* the route carries it.  The last run to end stops the marking.           *)
(*                                                                         *)
(* A run holds a shared lock from before its units start until its app is  *)
(* over.  The slice is there while its anchor, or a scope, is: one made    *)
(* anew since the marking was loaded goes unmarked.  The route's backend   *)
(* starts and stops with the marking.                                      *)
(***************************************************************************)
EXTENDS Integers, Sequences, FiniteSets

CONSTANTS
  Procs,               \* runs under way at a time
  Budget,              \* bounds: runs, and faults (kills and units that do not start or stop)
  None

VARIABLES
  run,     \* where each run is, or None
  shares,  \* holders of the shared lock
  alone,   \* the holder of the exclusive one, or None
  app,     \* [run -> None, "forked", "runs", or "over" with its scope still listed]
  strays,  \* apps whose run was gone before their scope was registered
  anchor,  \* the anchor unit is up
  slice,   \* which slice there is, 0 for none
  mark,    \* the slice the marking was loaded for, 0 if it is down
  left,    \* what is left of the budget
  late     \* a run that went on to look found scopes, or a stop failed

vars == <<run, shares, alone, app, strays, anchor, slice, mark, left, late>>

At(p, pc)   == run[p] = pc
To(p, pc)   == run' = [run EXCEPT ![p] = pc]
Listed      == {p \in Procs : app[p] \in {"runs", "over"}}
Spend(what) == left[what] > 0 /\ left' = [left EXCEPT ![what] = @ - 1]
Fault       == Spend("faults")

\* A slice comes with the first that is in it, another than the marking was loaded for.
SliceWith == slice' = IF slice # 0 THEN slice ELSE CHOOSE n \in 1..2 : n # mark
\* And goes with the last.
SliceWithout(anchored, listed) == slice' = IF anchored \/ listed # {} THEN slice ELSE 0

-----------------------------------------------------------------------------
\* _slice_lock: waits for a run that is stopping the units.
Ask(p) ==
  /\ At(p, None) /\ app[p] = None /\ Spend("runs") /\ alone = None
  /\ shares' = shares \union {p} /\ To(p, "anchor")
  /\ UNCHANGED <<alone, app, strays, anchor, slice, mark, late>>

StartAnchor(p) ==
  /\ At(p, "anchor")
  /\ \/ anchor' = TRUE /\ SliceWith /\ To(p, "mark") /\ UNCHANGED left
     \/ Fault /\ To(p, "close") /\ UNCHANGED <<anchor, slice>>
  /\ UNCHANGED <<shares, alone, app, strays, mark, late>>

\* Mutant: a marking that is up already is left as it is.
Loaded_once == IF mark # 0 THEN mark ELSE slice
\* reload-or-restart: for the slice there is now.
Loaded == slice
StartMark(p) ==
  /\ At(p, "mark")
  /\ \/ mark' = Loaded /\ To(p, "fork") /\ UNCHANGED left
     \/ Fault /\ To(p, "close") /\ UNCHANGED mark
  /\ UNCHANGED <<shares, alone, app, strays, anchor, slice, late>>

\* systemd-run: the scope is registered a moment later.
Fork(p) ==
  /\ At(p, "fork") /\ To(p, "app") /\ app' = [app EXCEPT ![p] = "forked"]
  /\ UNCHANGED <<shares, alone, strays, anchor, slice, mark, left, late>>
Register(p) ==
  /\ app[p] = "forked" /\ app' = [app EXCEPT ![p] = "runs"] /\ SliceWith
  /\ UNCHANGED <<run, shares, alone, strays, anchor, mark, left, late>>

\* The app ends; the manager takes its scope off its list in its own time.
AppEnds(p) ==
  /\ app[p] = "runs" /\ app' = [app EXCEPT ![p] = "over"]
  /\ IF At(p, "app") THEN To(p, "close") ELSE UNCHANGED run
  /\ UNCHANGED <<shares, alone, strays, anchor, slice, mark, left, late>>
Collect(p) ==
  /\ app[p] = "over" /\ app' = [app EXCEPT ![p] = None] /\ strays' = strays \ {p}
  /\ SliceWithout(anchor, Listed \ {p})
  /\ UNCHANGED <<run, shares, alone, anchor, mark, left, late>>

-----------------------------------------------------------------------------
\* _cleanup_slice_if_idle: the shared lock is given up for the exclusive one, or for good.
Close(p) ==
  /\ At(p, "close") /\ shares' = shares \ {p}
  /\ IF shares' = {} /\ alone = None THEN alone' = p /\ To(p, "look") ELSE UNCHANGED alone /\ To(p, None)
  /\ UNCHANGED <<app, strays, anchor, slice, mark, left, late>>

\* _stop_slice_if_idle
Look(p) ==
  /\ At(p, "look")
  /\ IF Listed # {} THEN To(p, None) /\ alone' = None /\ late' = TRUE
     ELSE To(p, "stop mark") /\ UNCHANGED <<alone, late>>
  /\ UNCHANGED <<shares, app, strays, anchor, slice, mark, left>>
\* The status of a stop is not looked at.
StopMark(p) ==
  /\ At(p, "stop mark") /\ To(p, "stop anchor")
  /\ \/ mark' = 0 /\ late' = FALSE /\ UNCHANGED left
     \/ Fault /\ late' = TRUE /\ UNCHANGED mark
  /\ UNCHANGED <<shares, alone, app, strays, anchor, slice>>
StopAnchor(p) ==
  /\ At(p, "stop anchor") /\ To(p, None) /\ alone' = None
  /\ anchor' = FALSE /\ SliceWithout(FALSE, Listed)
  /\ UNCHANGED <<shares, app, strays, mark, left, late>>

\* A run is told to end, or killed; its app goes on.
Leaves(p) == strays' = IF app[p] = "forked" THEN strays \union {p} ELSE strays
Terminate(p) ==
  /\ run[p] \in {"anchor", "mark", "app"} /\ Fault /\ To(p, "close") /\ Leaves(p)
  /\ UNCHANGED <<shares, alone, app, anchor, slice, mark, late>>
Kill(p) ==
  /\ run[p] # None /\ Fault /\ To(p, None) /\ Leaves(p)
  /\ shares' = shares \ {p} /\ alone' = (IF alone = p THEN None ELSE alone) /\ late' = TRUE
  /\ UNCHANGED <<app, anchor, slice, mark>>

-----------------------------------------------------------------------------
Init ==
  /\ run = [p \in Procs |-> None] /\ app = run /\ shares = {} /\ alone = None /\ strays = {}
  /\ anchor = FALSE /\ slice = 0 /\ mark = 0 /\ left = Budget /\ late = FALSE

Next == \E p \in Procs :
  \/ Ask(p) \/ StartAnchor(p) \/ StartMark(p) \/ Fork(p) \/ Register(p) \/ AppEnds(p) \/ Collect(p)
  \/ Close(p) \/ Look(p) \/ StopMark(p) \/ StopAnchor(p) \/ Terminate(p) \/ Kill(p)

-----------------------------------------------------------------------------
\* An app is in a slice that is marked for as long as it runs, whichever runs end, fail or
\* are killed meanwhile.
AppsMarked == \A p \in Procs \ strays : app[p] = "runs" => slice # 0 /\ mark = slice

\* Once all are over, so is the marking, unless the last run to look still found a scope.
IdleStops == (\A p \in Procs : run[p] = None /\ app[p] = None) /\ ~late => mark = 0 /\ ~anchor

SlicesHold == AppsMarked /\ IdleStops
=============================================================================
