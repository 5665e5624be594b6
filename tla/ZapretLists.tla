----------------------------- MODULE ZapretLists -----------------------------
(***************************************************************************)
(* `proxy-ctl zapret auto` (src/pkgs/proxy-ctl/proxy_ctl.py) on the files  *)
(* that the running nfqws2 keeps: the sites it learned and its verdicts,   *)
(* both appended to as it goes, and the strategies that work, which it     *)
(* rewrites whole under a lock file of its own.                            *)
(*                                                                         *)
(* One lock of proxy-ctl's own per file (_file_lock, of CtlGroupFiles)     *)
(* keeps its commands apart; nfqws2 does not take it.  A line is a site,   *)
(* what it says, and a number of its own.                                  *)
(***************************************************************************)
EXTENDS Integers, Sequences, FiniteSets, SequencesExt

CONSTANTS
  Procs, Sites,   \* proxy-ctl's, and what lines are about
  Budgets,        \* bounds, one of them: commands, lines and rows of nfqws2, deaths
  None

VARIABLES
  file,   \* [auto, verdicts: lines, oldest first; state: set of rows]
  mem,    \* the rows nfqws2 has, and those it has found or left in the file
  flush,  \* nfqws2's rewrite of the state: "idle", or "locked"
  lock,   \* the state's lock file, [by, stale], or None
  held,   \* proxy-ctl's own locks: [file -> process or None]
  proc,   \* a command under way, or None
  left,   \* commands, lines and kills left
  wrote,  \* lines nfqws2 appended, but those lost as a rename was about to follow
  gone,   \* lines and rows that a command has dropped
  crossed \* a state lock was removed that was not the one found stale

vars == <<file, mem, flush, lock, held, proc, left, wrote, gone, crossed>>

Files == {"auto", "state", "verdicts", "exclude"}
Nfqws == "nfqws2"
Line(site, kind) == [site |-> site, kind |-> kind, id |-> left.lines]

\* What stands in a file, as a set.
On(f) == IF f = "state" THEN file.state ELSE Range(file[f])
At(p, pc)   == proc[p] # None /\ proc[p].pc = pc
This(p)     == Head(proc[p].todo)
To(p, pc)   == proc' = [proc EXCEPT ![p].pc = pc]
Spend(what) == left[what] > 0 /\ left' = [left EXCEPT ![what] = @ - 1]

-----------------------------------------------------------------------------
(* nfqws2                                                                  *)

\* A site learned, or a verdict: one line, appended.  A process that has read the file's
\* end and is about to rename its own over it loses the line.
Appends(f, site, kind) ==
  /\ Spend("lines")
  /\ file' = [file EXCEPT ![f] = Append(@, Line(site, kind))]
  /\ wrote' = IF \E p \in Procs : At(p, "rename") /\ This(p).file = f THEN wrote ELSE wrote \union {Line(site, kind)}
  /\ UNCHANGED <<mem, flush, lock, held, proc, gone, crossed>>
Learns(site)  == Appends("auto", site, "learned")
Judges(site)  == \E kind \in {"works", "unfixable"} : Appends("verdicts", site, kind)

\* A strategy that works: in memory first.
Settles(site) ==
  /\ Spend("lines")
  /\ mem' = [mem EXCEPT !.rows = {r \in @ : r.site # site} \union {Line(site, "row")}]
  /\ UNCHANGED <<file, flush, lock, held, proc, wrote, gone, crossed>>

\* Its rewrite takes the lock or leaves it for another time, takes what is gone from the
\* file to be dropped, and writes the rest.
FlushBegins ==
  /\ flush = "idle" /\ mem.rows # mem.known
  /\ lock # None => lock.stale
  /\ lock' = [by |-> Nfqws, stale |-> FALSE] /\ flush' = "locked"
  /\ mem' = [mem EXCEPT !.rows = @ \ (mem.known \ file.state)]
  /\ UNCHANGED <<file, held, proc, left, wrote, gone, crossed>>
FlushEnds ==
  /\ flush = "locked"
  /\ file' = [file EXCEPT !.state = mem.rows] /\ mem' = [mem EXCEPT !.known = mem.rows]
  /\ flush' = "idle" /\ lock' = None
  /\ UNCHANGED <<held, proc, left, wrote, gone, crossed>>

\* A restart in the middle of it leaves the lock file, and reads the state again.
Restart(held1) == flush' = "idle" /\ mem' = [rows |-> file.state, known |-> file.state] /\ lock' = held1
NfqwsDies == Spend("kills") /\ Restart(lock) /\ UNCHANGED <<file, held, proc, wrote, gone, crossed>>

-----------------------------------------------------------------------------
(* proxy-ctl                                                               *)

\* One rewrite of a file: the lines of the sites go, and the extra ones come.
Edit(f, drops, adds) == [file |-> f, drops |-> drops, adds |-> adds]

\* _zapret_covers: a host and its site, either way round.
Covered(site) == IF site[1] = "www" THEN {site, <<site[2]>>} ELSE {site, <<"www", site[1]>>}

\* _zapret_strategy_drop: of the domain and its parents.
Parents(site) == IF site[1] = "www" THEN {site, <<site[2]>>} ELSE {site}

\* cmd_zapret_auto, the edits of a verb one after the other.
Edits(verb, site) ==
  LET forget == <<Edit("auto", {site}, <<>>), Edit("state", Parents(site), <<>>), Edit("verdicts", Covered(site), <<>>)>>
  IN  CASE verb = "forget"  -> forget
        [] verb = "exclude" -> Append(forget, Edit("exclude", {site}, <<site>>))
        [] verb = "include" -> <<Edit("exclude", {site}, <<>>)>>
        [] verb = "retry"   -> <<Edit("verdicts", {}, <<site>>)>>
        [] OTHER            -> <<Edit("auto", Sites, <<>>), Edit("state", Sites, <<>>), Edit("verdicts", Sites, <<>>)>>

\* The last verdict of a site stands.
Standing(site) ==
  LET of == SelectSeq(file.verdicts, LAMBDA l : l.site = site)
  IN  IF of = <<>> THEN None ELSE Last(of).kind

Ask(p, verb, site) ==
  /\ proc[p] = None /\ Spend("cmds")
  /\ verb = "retry" => Standing(site) = "unfixable"
  /\ proc' = [proc EXCEPT ![p] = [verb |-> verb, todo |-> Edits(verb, site), pc |-> "open", read |-> {}, kept |-> {}, z2k |-> FALSE]]
  /\ UNCHANGED <<file, mem, flush, lock, held, wrote, gone, crossed>>

Next1(p)  == proc' = [proc EXCEPT ![p] = IF Len(@.todo) = 1 THEN None
                                         ELSE [@ EXCEPT !.todo = Tail(@), !.pc = "open", !.read = {}, !.kept = {}, !.z2k = FALSE]]

\* A file that is not there, or that there is nothing of, is left alone.
Skips(p) == This(p).file # "exclude" /\ This(p).adds = <<>> /\ On(This(p).file) = {}
Skip(p)  == At(p, "open") /\ Skips(p) /\ Next1(p) /\ UNCHANGED <<file, mem, flush, lock, held, left, wrote, gone, crossed>>

\* _z2k_state_lock: free, or stale and removed; else waited for.
TakeZ2k(p) ==
  /\ At(p, "open") /\ ~Skips(p) /\ This(p).file = "state" /\ lock = None
  /\ lock' = [by |-> p, stale |-> FALSE] /\ proc' = [proc EXCEPT ![p].pc = "lock", ![p].z2k = TRUE]
  /\ UNCHANGED <<file, mem, flush, held, left, wrote, gone, crossed>>
FindStale(p) ==
  /\ At(p, "open") /\ This(p).file = "state" /\ lock # None /\ lock.stale
  /\ To(p, "unlink")
  /\ UNCHANGED <<file, mem, flush, lock, held, left, wrote, gone, crossed>>
RemoveStale(p) ==
  /\ At(p, "unlink") /\ To(p, "open")
  /\ lock' = None /\ crossed' = (crossed \/ (lock # None /\ ~lock.stale))
  /\ UNCHANGED <<file, mem, flush, held, left, wrote, gone>>

\* _z2k_lock_stale: one whose maker is dead becomes old.
MakerIsDead == IF lock.by = Nfqws THEN flush = "idle" ELSE proc[lock.by] # None => ~proc[lock.by].z2k
Age ==
  /\ lock # None /\ ~lock.stale /\ MakerIsDead
  /\ lock' = [lock EXCEPT !.stale = TRUE]
  /\ UNCHANGED <<file, mem, flush, held, proc, left, wrote, gone, crossed>>

\* _file_lock: this process's turn.
TakeFile(p) ==
  /\ \/ At(p, "lock")
     \/ At(p, "open") /\ ~Skips(p) /\ This(p).file # "state"
  /\ held[This(p).file] = None /\ held' = [held EXCEPT ![This(p).file] = p] /\ To(p, "read")
  /\ UNCHANGED <<file, mem, flush, lock, left, wrote, gone, crossed>>

\* Past ten seconds of waiting the command ends, and lets go of what it holds.
Unlocks(p) == lock' = IF proc[p].z2k THEN None ELSE lock
GiveUp(p) ==
  /\ \/ At(p, "lock") /\ held[This(p).file] # None
     \/ At(p, "open") /\ ~Skips(p) /\ This(p).file = "state" /\ lock # None /\ ~lock.stale
     \/ At(p, "open") /\ ~Skips(p) /\ This(p).file # "state" /\ held[This(p).file] # None
  /\ Unlocks(p) /\ proc' = [proc EXCEPT ![p] = None]
  /\ UNCHANGED <<file, mem, flush, held, left, wrote, gone, crossed>>

\* _replace_lines: the file as it is, then the kept lines written aside, then what was
\* appended meanwhile, then the rename.
Read(p) ==
  /\ At(p, "read")
  /\ LET lines == On(This(p).file)
     IN  proc' = [proc EXCEPT ![p].read = lines, ![p].pc = "carry",
                              ![p].kept = {l \in lines : l.site \notin This(p).drops}]
  /\ UNCHANGED <<file, mem, flush, lock, held, left, wrote, gone, crossed>>

\* Mutant: the file is taken to be as it was read.
Appended_none(p) == {}
\* _appended_since: only if it grew and nothing else.
Appended(p) == IF proc[p].read \subseteq On(This(p).file) THEN On(This(p).file) \ proc[p].read ELSE {}
Carry(p) ==
  /\ At(p, "carry")
  /\ proc' = [proc EXCEPT ![p].kept = @ \union Appended(p), ![p].pc = "rename"]
  /\ UNCHANGED <<file, mem, flush, lock, held, left, wrote, gone, crossed>>

\* Its own line is the newest; ids tell the order, and a command's own comes after what it
\* read.  The retry restarts nfqws2.
Rename(p) ==
  /\ At(p, "rename")
  /\ LET f    == This(p).file
         old  == IF f = "state" THEN <<>> ELSE SelectSeq(file[f], LAMBDA l : l \in proc[p].kept)
         kind == IF proc[p].verb = "retry" THEN "retry" ELSE "mine"
         mine == [i \in DOMAIN This(p).adds |-> [site |-> This(p).adds[i], kind |-> kind, id |-> -left.cmds]]
     IN  /\ file' = [file EXCEPT ![f] = IF f = "state" THEN proc[p].kept ELSE old \o mine]
         /\ gone' = gone \union (proc[p].read \ proc[p].kept)
         /\ held' = [held EXCEPT ![f] = None]
         /\ IF proc[p].verb = "retry" THEN Restart(lock) ELSE Unlocks(p) /\ UNCHANGED <<flush, mem>>
  /\ Next1(p)
  /\ UNCHANGED <<left, wrote, crossed>>

\* A kill lets go of proxy-ctl's own locks; the state's lock file stays.
Kill(p) ==
  /\ proc[p] # None /\ Spend("kills")
  /\ proc' = [proc EXCEPT ![p] = None]
  /\ held' = [f \in Files |-> IF held[f] = p THEN None ELSE held[f]]
  /\ UNCHANGED <<file, mem, flush, lock, wrote, gone, crossed>>

-----------------------------------------------------------------------------
Init ==
  /\ file = [auto |-> <<>>, verdicts |-> <<>>, exclude |-> <<>>, state |-> {}]
  /\ mem = [rows |-> {}, known |-> {}] /\ flush = "idle"
  /\ lock = None /\ held = [f \in Files |-> None] /\ proc = [p \in Procs |-> None]
  /\ left \in Budgets
  /\ wrote = {} /\ gone = {} /\ crossed = FALSE

Verbs == {"forget", "exclude", "include", "retry", "clear"}
Next ==
  \/ \E s \in Sites : Learns(s) \/ Judges(s) \/ Settles(s)
  \/ FlushBegins \/ FlushEnds \/ NfqwsDies \/ Age
  \/ \E p \in Procs :
       \/ \E verb \in Verbs, s \in Sites : Ask(p, verb, s)
       \/ Skip(p) \/ TakeZ2k(p) \/ FindStale(p) \/ RemoveStale(p) \/ TakeFile(p) \/ GiveUp(p) \/ Read(p) \/ Carry(p) \/ Rename(p) \/ Kill(p)

-----------------------------------------------------------------------------
Lines == UNION {On(f) : f \in {"auto", "state", "verdicts"}}

\* What nfqws2 appended or wrote while a command was at the file is there, unless a command
\* dropped it: no rewrite undoes another's, of either program.
NothingLost == ~crossed => (wrote \union mem.known) \ gone \subseteq Lines

\* And what a command dropped stays dropped, whatever nfqws2 has in memory and whoever dies.
DroppedStay == ~crossed => gone \intersect Lines = {}

ListsKeep == NothingLost /\ DroppedStay
=============================================================================
