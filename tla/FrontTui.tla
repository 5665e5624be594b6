------------------------------ MODULE FrontTui ------------------------------
(***************************************************************************)
(* The TUI's main loop and threads (ProxyTui of src/pkgs/proxy-ctl/        *)
(* proxy_tui.py): every reload starts a thread that reads one tab.  An     *)
(* earlier one is told to stop, which a thread does not hear: it reads on, *)
(* shares the readers' memo (_per_load of proxy_model.py) with the later   *)
(* ones and fills the screen when it is done.  Runs of proxy-ctl are       *)
(* threads too; one that only root could do may be retried.                *)
(*                                                                         *)
(* What is read is a number that changes; a tab shows the one it read.     *)
(***************************************************************************)
EXTENDS Integers, Sequences, FiniteSets

CONSTANTS
  Tabs, First,      \* tab ids; one that is there whatever the states
  MaxLoads,         \* at a time
  Bounds,           \* [changes, asks, runs]: what is left of each at first
  None

VARIABLES
  sys,     \* [ver, up, tabs]: what there is to read, whether the states are, the tabs available
  memo,    \* what a reader read in this load, or None
  loads,   \* a sequence of [tab, step, up, tabs, got, new]
  ui,      \* [active, shown, states, rows, modal, retry]
  runs,    \* a sequence of [root, step]: root, one that only root can do
  left,    \* what is left of Bounds
  alone    \* history: the last load was alone, and nothing has changed since it began

tvars == <<sys, memo, loads, ui, runs, left, alone>>

Without(s, i) == [n \in 1..(Len(s) - 1) |-> s[IF n < i THEN n ELSE n + 1]]
AtMain == ui.modal = "none"
Disturbed(ls) == [i \in DOMAIN ls |-> [ls[i] EXCEPT !.new = FALSE]]

Change ==
  /\ left.changes > 0
  /\ left' = [left EXCEPT !.changes = @ - 1]
  /\ \/ sys' = [sys EXCEPT !.ver = @ + 1]
     \/ sys' = [sys EXCEPT !.up = ~@]
     \/ \E tabs \in SUBSET Tabs : First \in tabs /\ tabs # sys.tabs /\ sys' = [sys EXCEPT !.tabs = tabs]
  /\ loads' = Disturbed(loads) /\ alone' = FALSE
  /\ UNCHANGED <<memo, ui, runs>>

ALoad(tab, others) == [tab |-> tab, step |-> "states", up |-> FALSE, tabs |-> {}, got |-> None, new |-> others = <<>>]

\* Mutant: readers keep what they read for another load.
NewLoad_kept(tab, others) == memo' = memo /\ loads' = Append(Disturbed(others), ALoad(tab, others))

\* load's thread starts, with model.new_load.
NewLoad(tab, others) == memo' = None /\ loads' = Append(Disturbed(others), ALoad(tab, others))

\* action_reload; the others under way are not alone any more.
Reload(tab) ==
  /\ Len(loads) < MaxLoads
  /\ NewLoad(tab, loads)
  /\ alone' = FALSE

\* tick, only over the main screen, and the r key.
Tick ==
  /\ AtMain /\ left.asks > 0
  /\ left' = [left EXCEPT !.asks = @ - 1]
  /\ Reload(ui.active)
  /\ UNCHANGED <<sys, ui, runs>>

\* action_jump, and on_tabbed_content_tab_activated.
Jump(tab) ==
  /\ AtMain /\ left.asks > 0 /\ tab \in ui.shown \ {ui.active}
  /\ left' = [left EXCEPT !.asks = @ - 1]
  /\ ui' = [ui EXCEPT !.active = tab]
  /\ Reload(tab)
  /\ UNCHANGED <<sys, runs>>

-----------------------------------------------------------------------------
(* load: the states, then a reader of the tab's rows through _per_load       *)

Step(i, step) == loads' = [loads EXCEPT ![i].step = step]

ReadStates(i) ==
  /\ loads[i].step = "states"
  /\ loads' = [loads EXCEPT ![i].step = "asked", ![i].up = sys.up, ![i].tabs = IF sys.up THEN sys.tabs ELSE {First}]
  /\ UNCHANGED <<sys, memo, ui, runs, left, alone>>

\* "if key not in _memo"
Asked(i) ==
  /\ loads[i].step = "asked"
  /\ Step(i, IF memo = None THEN "call" ELSE "return")
  /\ UNCHANGED <<sys, memo, ui, runs, left, alone>>

Call(i) ==
  /\ loads[i].step = "call"
  /\ loads' = [loads EXCEPT ![i].step = "store", ![i].got = sys.ver]
  /\ UNCHANGED <<sys, memo, ui, runs, left, alone>>

Store(i) ==
  /\ loads[i].step = "store"
  /\ memo' = loads[i].got
  /\ Step(i, "return")
  /\ UNCHANGED <<sys, ui, runs, left, alone>>

\* "return _memo[key]": if another load cleared it meanwhile, this one fails.
Return(i) ==
  /\ loads[i].step = "return"
  /\ loads' = [loads EXCEPT ![i].step = IF memo = None THEN "failed" ELSE "fill", ![i].got = memo]
  /\ UNCHANGED <<sys, memo, ui, runs, left, alone>>

-----------------------------------------------------------------------------
\* fill_table.  Nothing read after a read that worked keeps the last good view; a
\* load that failed shows that, with the states as they were.
Fill(i) ==
  LET l       == loads[i]
      failed  == l.step = "failed"
      up      == IF failed THEN ui.states ELSE l.up
      visible == IF failed THEN ui.shown ELSE l.tabs
      keep    == ~up /\ ui.states
      moved   == ~keep /\ ui.active \notin visible
      active  == IF moved THEN First ELSE ui.active
  IN  /\ l.step \in {"fill", "failed"}
      /\ ui' = IF keep THEN ui
               ELSE [ui EXCEPT !.states = up, !.shown = visible, !.active = active,
                               !.rows = IF l.tab \in visible THEN [@ EXCEPT ![l.tab] = IF failed THEN None ELSE l.got] ELSE @]
      \* show_tabs moved to another tab, which loads itself.
      /\ IF moved THEN NewLoad(First, Without(loads, i)) /\ alone' = FALSE
         ELSE UNCHANGED memo /\ loads' = Without(loads, i) /\ alone' = (l.new /\ Len(loads) = 1)
      /\ UNCHANGED <<sys, runs, left>>

-----------------------------------------------------------------------------
(* perform, run_argv, stream and finish                                     *)

\* A form, a confirmation, a menu: a screen above the main one, which no tick reloads.
Open  == AtMain /\ left.asks > 0 /\ ui' = [ui EXCEPT !.modal = "form"] /\ UNCHANGED <<sys, memo, loads, runs, left, alone>>
Close == ~AtMain /\ ui' = [ui EXCEPT !.modal = "none"] /\ UNCHANGED <<sys, memo, loads, runs, left, alone>>

Run(root) ==
  /\ left.runs > 0
  /\ left' = [left EXCEPT !.runs = @ - 1]
  /\ runs' = Append(runs, [root |-> root, step |-> "runs"])
  /\ ui' = [ui EXCEPT !.modal = "none"]
  /\ UNCHANGED <<sys, memo, loads, alone>>

Stream(i) ==
  /\ runs[i].step = "runs"
  /\ runs' = [runs EXCEPT ![i].step = "ran"]
  /\ IF runs[i].root THEN UNCHANGED <<sys, loads, alone>>
     ELSE sys' = [sys EXCEPT !.ver = @ + 1] /\ loads' = Disturbed(loads) /\ alone' = FALSE
  /\ UNCHANGED <<memo, ui, left>>

\* The dialog that shows it is closed: it is told to end, and nothing is reloaded.
Stopped(i) ==
  /\ runs' = Without(runs, i)
  /\ UNCHANGED <<sys, memo, loads, ui, left, alone>>

\* What is offered to be retried is the last run to end, if root could do it.
Finish(i) ==
  /\ runs[i].step = "ran"
  /\ runs' = Without(runs, i)
  /\ ui' = [ui EXCEPT !.retry = runs[i].root]
  /\ Reload(ui.active)
  /\ UNCHANGED <<sys, left>>

\* action_retry_root: in the foreground, with everything else of the loop waiting.
RetryRoot ==
  /\ AtMain /\ ui.retry
  /\ ui' = [ui EXCEPT !.retry = FALSE]
  /\ sys' = [sys EXCEPT !.ver = @ + 1]
  /\ Reload(ui.active)
  /\ UNCHANGED <<runs, left>>

-----------------------------------------------------------------------------
Init ==
  /\ sys = [ver |-> 0, up |-> TRUE, tabs |-> Tabs]
  /\ memo = None /\ runs = <<>> /\ alone = FALSE
  /\ ui = [active |-> First, shown |-> Tabs, states |-> TRUE, rows |-> [t \in Tabs |-> None], modal |-> "none", retry |-> FALSE]
  /\ loads = <<>>
  /\ left \in Bounds

Next ==
  \/ Change \/ Tick \/ (\E tab \in Tabs : Jump(tab)) \/ Open \/ Close
  \/ \E i \in DOMAIN loads : ReadStates(i) \/ Asked(i) \/ Call(i) \/ Store(i) \/ Return(i) \/ Fill(i)
  \/ \E root \in BOOLEAN : Run(root)
  \/ \E i \in DOMAIN runs : Stream(i) \/ Stopped(i) \/ Finish(i)
  \/ RetryRoot

-----------------------------------------------------------------------------
\* Whatever overtook whatever before, a load that had no other beside it leaves the
\* screen as things were when it began: nothing of an older read is left in the
\* memo, and the tabs are those that are available.
TickRepairs ==
  alone /\ sys.up => ui.rows[ui.active] = sys.ver /\ ui.shown = sys.tabs
=============================================================================
