------------------------------ MODULE FrontGui ------------------------------
(***************************************************************************)
(* The GUI's main loop and threads (ProxySuiteGui and Window of src/pkgs/  *)
(* proxy-ctl/proxy_gui.py, what they read with proxy_model.py): a thread   *)
(* loads what is shown, one at a time; others run proxy-ctl, as root       *)
(* through pkexec; both hand their results to the main loop, where a tick, *)
(* the window and the tray ask for the next load meanwhile.                *)
(*                                                                         *)
(* One tab, which only root can read.  A unit fails and recovers; of one   *)
(* in Events a failure is one run's, and its mark tells it from the next.  *)
(***************************************************************************)
EXTENDS Integers, Sequences, FiniteSets

CONSTANTS
  Units, Events,     \* FAILURE_EVENTS are among the units
  StaleUnknown,      \* STALE_READS_UNKNOWN
  Bounds,            \* [changes, asks, runs]: what may happen, one of them for each behaviour
  None

VARIABLES
  sys,      \* [up, failed, mark, root]: whether it can be read, what root only reads
  win,      \* the window: "none", "hidden", "away", "active"
  elevated, \* the toggle, and root_read_refused
  main,     \* [states, failed, root, badge, stale]: read, notified of, on screen, the tray's attention
  flags,    \* [loading, pending, fresh]
  marks,    \* [viewing, seen]: functions from some of Events to marks
  rootReads, \* the last root read, or None
  load,     \* the thread: [step, tab, elevated, seen, fresh, states, marks, root, kept]
  runs,     \* proxy-ctl runs: a sequence of [root, step]
  hist      \* history: [notes, shown, current, late, wanted, filled, changes, asks, runs]: what is left of the last three

gvars == <<sys, win, elevated, main, flags, marks, rootReads, load, runs, hist>>

NoLoad == [step |-> "none", tab |-> FALSE, elevated |-> FALSE, seen |-> <<>>, fresh |-> FALSE,
           states |-> None, marks |-> <<>>, root |-> None, kept |-> None]
Visible(w)  == w \in {"away", "active"}
Over(f, g)  == [x \in DOMAIN f \union DOMAIN g |-> IF x \in DOMAIN g THEN g[x] ELSE f[x]]

-----------------------------------------------------------------------------
(* The system                                                               *)

Changed == hist' = [hist EXCEPT !.changes = @ - 1, !.current = FALSE]

Change ==
  /\ hist.changes > 0
  /\ \/ \E u \in Units :
          sys' = IF u \in sys.failed THEN [sys EXCEPT !.failed = @ \ {u}]
                 ELSE [sys EXCEPT !.failed = @ \union {u},
                                  !.mark = IF u \in Events THEN [@ EXCEPT ![u] = @ + 1] ELSE @]
     \/ \E u \in Events \intersect sys.failed : sys' = [sys EXCEPT !.mark[u] = @ + 1]
     \/ sys' = [sys EXCEPT !.up = ~@]
  /\ Changed
  /\ UNCHANGED <<win, elevated, main, flags, marks, rootReads, load, runs>>

-----------------------------------------------------------------------------
(* reload                                                                   *)

\* Mutant: what is asked for while a load is under way is the load's to show.
Asked_dropped(freshRoot, flags0, win0, elevated0, seen0) ==
  IF flags0.loading THEN flags' = flags0 /\ UNCHANGED load
  ELSE /\ flags' = [flags0 EXCEPT !.loading = TRUE]
       /\ load' = [NoLoad EXCEPT !.step = "states", !.tab = Visible(win0), !.elevated = elevated0,
                                 !.seen = seen0, !.fresh = freshRoot]

\* One load at a time; one more once it lands.
Asked(freshRoot, flags0, win0, elevated0, seen0) ==
  IF flags0.loading THEN flags' = [flags0 EXCEPT !.pending = TRUE, !.fresh = @ \/ freshRoot] /\ UNCHANGED load
  ELSE /\ flags' = [flags0 EXCEPT !.loading = TRUE]
       /\ load' = [NoLoad EXCEPT !.step = "states", !.tab = Visible(win0), !.elevated = elevated0,
                                 !.seen = seen0, !.fresh = freshRoot]

\* A load that begins sees every change so far.
Begins(h) == IF flags.loading THEN h ELSE [h EXCEPT !.current = TRUE, !.late = FALSE]
Ask(freshRoot) ==
  /\ hist.asks > 0
  /\ hist' = Begins([hist EXCEPT !.asks = @ - 1, !.wanted = IF freshRoot THEN sys.root ELSE @])

\* tick, and F5.
Reload(freshRoot) ==
  /\ Ask(freshRoot)
  /\ Asked(freshRoot, flags, win, elevated.on, marks.seen)
  /\ UNCHANGED <<sys, win, elevated, main, marks, rootReads, runs>>

Present ==
  /\ Ask(FALSE)
  /\ win' = "active"
  /\ Asked(FALSE, flags, "active", elevated.on, marks.seen)
  /\ UNCHANGED <<sys, elevated, main, marks, rootReads, runs>>

\* leave_window: what it showed has been seen.  Closed to the tray, or switched away from.
Leave(to) ==
  /\ win = "active"
  /\ win' = to
  /\ LET seen == Over(marks.seen, marks.viewing)
     IN  IF marks.viewing = <<>> THEN UNCHANGED <<flags, load, marks, hist>>
         ELSE /\ marks' = [viewing |-> <<>>, seen |-> seen]
              /\ Asked(FALSE, flags, to, elevated.on, seen)
              /\ hist' = Begins(hist)
  /\ UNCHANGED <<sys, elevated, main, rootReads, runs>>

Back ==
  /\ win = "away" /\ win' = "active"
  /\ UNCHANGED <<sys, elevated, main, flags, marks, rootReads, load, runs, hist>>

\* on_elevated
Elevate ==
  /\ Ask(TRUE)
  /\ elevated' = [on |-> ~elevated.on, refused |-> FALSE]
  /\ rootReads' = None
  /\ Asked(TRUE, flags, win, ~elevated.on, marks.seen)
  /\ UNCHANGED <<sys, win, main, marks, runs>>

-----------------------------------------------------------------------------
(* load, in its thread                                                      *)

\* The states; an empty read is {"none"}: no unit at all.
ReadStates ==
  /\ load.step = "states"
  /\ load' = [load EXCEPT !.step = "marks", !.states = IF sys.up THEN sys.failed ELSE None]
  /\ UNCHANGED <<sys, win, elevated, main, flags, marks, rootReads, runs, hist>>

\* failure_marks, a systemctl call of its own, and unseen: those seen count no more.
ReadMarks ==
  /\ load.step = "marks"
  /\ LET failed == IF load.states = None THEN {} ELSE load.states \intersect Events
         read   == [u \in failed |-> sys.mark[u]]
         unseen(states) == {u \in states : ~(u \in failed /\ u \in DOMAIN load.seen /\ load.seen[u] = read[u])}
     IN  load' = [load EXCEPT !.step = IF load.tab THEN "tab" ELSE "landed", !.marks = read,
                              !.states = IF @ = None THEN None ELSE unseen(@)]
  /\ UNCHANGED <<sys, win, elevated, main, flags, marks, rootReads, runs, hist>>

\* load_tab: what only root can read, once, and again when asked to.
LoadTab ==
  /\ load.step = "tab"
  /\ \/ /\ ~load.elevated \/ elevated.refused
        /\ load' = [load EXCEPT !.step = "landed"]
        /\ UNCHANGED elevated
     \/ /\ load.elevated /\ ~elevated.refused /\ rootReads # None /\ ~load.fresh
        /\ load' = [load EXCEPT !.step = "landed", !.root = rootReads]
        /\ UNCHANGED elevated
     \/ /\ load.elevated /\ ~elevated.refused /\ (rootReads = None \/ load.fresh)
        /\ \/ load' = [load EXCEPT !.step = "keep", !.root = sys.root, !.kept = sys.root] /\ UNCHANGED elevated
           \/ load' = [load EXCEPT !.step = "landed"] /\ elevated' = [elevated EXCEPT !.refused = TRUE]
  /\ UNCHANGED <<sys, win, main, flags, marks, rootReads, runs, hist>>

Keep ==
  /\ load.step = "keep"
  /\ rootReads' = load.kept
  /\ load' = [load EXCEPT !.step = "landed"]
  /\ UNCHANGED <<sys, win, elevated, main, flags, marks, runs, hist>>

\* gather failed: landed all the same.
LoadFails ==
  /\ load.step = "tab"
  /\ load' = [load EXCEPT !.step = "failed"]
  /\ UNCHANGED <<sys, win, elevated, main, flags, marks, rootReads, runs, hist>>

\* notify_failures: those that failed since the last look; none on the first.
Notes(notes, was, failed) ==
  IF was = None THEN notes ELSE (notes \ (was \ failed)) \union (failed \ was)

\* landed, then the load that was asked for meanwhile.
Landed ==
  /\ load.step \in {"landed", "failed"}
  /\ LET good  == load.step = "landed"
         stale == good /\ load.states = None /\ main.states # None
         reads == IF stale THEN main.stale + 1 ELSE 0
         taken == good /\ ~stale
         still(f) == [u \in {u \in DOMAIN f : u \in DOMAIN load.marks /\ load.marks[u] = f[u]} |-> f[u]]
         seen  == IF taken THEN still(marks.seen) ELSE marks.seen
         view0 == IF taken THEN still(marks.viewing) ELSE marks.viewing
         view  == IF taken /\ load.tab /\ win = "active"
                  THEN Over(view0, [u \in DOMAIN load.marks \ DOMAIN seen |-> load.marks[u]]) ELSE view0
         filled == taken /\ load.tab /\ win # "none"
         noted  == taken /\ load.states # None
         fresh  == flags.fresh
     IN  /\ main' = [main EXCEPT
                !.states = IF taken THEN load.states ELSE @,
                !.failed = IF noted THEN load.states ELSE @,
                !.root   = IF filled THEN load.root ELSE @,
                !.badge  = IF stale /\ reads >= StaleUnknown THEN TRUE
                           ELSE IF taken THEN load.states # None /\ load.states # {} ELSE @,
                !.stale  = IF good THEN (IF reads > StaleUnknown THEN StaleUnknown ELSE reads) ELSE @]
         /\ marks' = [viewing |-> view, seen |-> seen]
         /\ LET h == [hist EXCEPT !.notes = IF noted THEN Notes(@, main.failed, load.states) ELSE @,
                                  !.shown = IF taken /\ load.tab /\ win = "active" /\ load.states # None
                                            THEN @ \union {<<u, load.marks[u]>> : u \in DOMAIN load.marks \intersect load.states} ELSE @,
                                  !.current = @ /\ good, !.filled = filled,
                                  !.wanted = IF (good /\ load.tab) \/ fresh THEN @ ELSE 0]
            IN  IF flags.pending
                THEN /\ Asked(fresh, [loading |-> FALSE, pending |-> FALSE, fresh |-> FALSE], win, elevated.on, seen)
                     /\ hist' = [h EXCEPT !.current = TRUE, !.late = FALSE]
                ELSE /\ flags' = [flags EXCEPT !.loading = FALSE]
                     /\ load' = NoLoad
                     /\ hist' = h
  /\ UNCHANGED <<sys, win, elevated, rootReads, runs>>

-----------------------------------------------------------------------------
(* run_argv, stream and ran                                                 *)

Run ==
  /\ hist.runs > 0
  /\ runs' = Append(runs, [root |-> elevated.on, step |-> "runs"])
  /\ hist' = [hist EXCEPT !.runs = @ - 1]
  /\ UNCHANGED <<sys, win, elevated, main, flags, marks, rootReads, load>>

\* It changes what it was run to change, or fails, or the password is not given.
Runs(i) ==
  /\ runs[i].step = "runs"
  /\ \/ /\ runs' = [runs EXCEPT ![i].step = "done"]
        /\ sys' = [sys EXCEPT !.root = @ + 1]
        /\ hist' = [hist EXCEPT !.current = FALSE]
     \/ runs' = [runs EXCEPT ![i].step = "failed"] /\ UNCHANGED <<sys, hist>>
  /\ UNCHANGED <<win, elevated, main, flags, marks, rootReads, load>>

\* ran: the last root reads no longer show what root changed.
Ran(i) ==
  /\ runs[i].step \in {"done", "failed"}
  /\ runs' = [n \in 1..(Len(runs) - 1) |-> runs[IF n < i THEN n ELSE n + 1]]
  /\ rootReads' = IF runs[i].root /\ runs[i].step = "done" THEN None ELSE rootReads
  /\ Asked(FALSE, flags, win, elevated.on, marks.seen)
  /\ hist' = Begins([hist EXCEPT !.late = TRUE])
  /\ UNCHANGED <<sys, win, elevated, main, marks>>

-----------------------------------------------------------------------------
Init ==
  /\ \E f \in SUBSET Units : sys = [up |-> TRUE, failed |-> f, mark |-> [u \in Events |-> 0], root |-> 0]
  /\ win \in {"none", "active"}
  /\ elevated \in [on : BOOLEAN, refused : {FALSE}]
  /\ main = [states |-> None, failed |-> None, root |-> None, badge |-> FALSE, stale |-> 0]
  /\ flags = [loading |-> FALSE, pending |-> FALSE, fresh |-> FALSE]
  /\ marks = [viewing |-> <<>>, seen |-> <<>>]
  /\ rootReads = None /\ load = NoLoad /\ runs = <<>>
  /\ \E b \in Bounds :
       hist = [notes |-> {}, shown |-> {}, current |-> FALSE, late |-> FALSE, wanted |-> 0, filled |-> FALSE,
              changes |-> b.changes, asks |-> b.asks, runs |-> b.runs]

Next ==
  \/ Change
  \/ Reload(FALSE) \/ Reload(TRUE) \/ Present \/ Leave("hidden") \/ Leave("away") \/ Back \/ Elevate
  \/ ReadStates \/ ReadMarks \/ LoadTab \/ Keep \/ LoadFails \/ Landed
  \/ Run \/ (\E i \in DOMAIN runs : Runs(i) \/ Ran(i))

-----------------------------------------------------------------------------
\* At rest the screen is no older than the end of the last command: the load that
\* was under way as it ended is followed by another.
WhatRanIsShown == ~flags.loading => ~hist.late

\* "Read a root-only tab as root again": what is on screen at rest was not read by
\* root before the last F5 or Ctrl+E, asked for during another load or not, unless
\* the read failed or the window was closed over it.
FreshIsFresh == ~flags.loading /\ hist.filled /\ main.root # None => main.root >= hist.wanted

\* If nothing changed since a load that landed, what failed is in the tray and among
\* the notifications, unless it failed before the first look; a failure is held
\* for seen only if a window in use showed that failure, not an earlier one of the
\* same unit.
FailuresAreTold ==
  /\ \A u \in DOMAIN marks.seen : <<u, marks.seen[u]>> \in hist.shown
  /\ hist.notes \subseteq Units
  /\ ~flags.loading /\ hist.current /\ sys.up =>
       /\ main.states = {u \in sys.failed : ~(u \in Events /\ u \in DOMAIN marks.seen /\ marks.seen[u] = sys.mark[u])}
       /\ main.badge = (main.states # {})
       /\ hist.notes \subseteq main.states
       /\ main.failed = main.states
=============================================================================
