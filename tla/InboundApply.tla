---------------------------- MODULE InboundApply ----------------------------
(***************************************************************************)
(* The live apply of the inbounds (inbound_apply.py): a change of users,   *)
(* rules or links is rendered, compared with the rendering that runs, and  *)
(* carried out through XRay's API, or by restarting the inbounds.          *)
(*                                                                         *)
(* Two callers apply: the inbound manager (its handlers and its tick, one  *)
(* at a time) and the reload unit that proxy-ctl starts after a change to  *)
(* the spool.  The third party is the inbounds unit: its start script      *)
(* renders by itself, in steps that interleave with an apply's, and its    *)
(* runtime directory, with the rendering and the lock in it, goes with it  *)
(* whenever it stops.                                                      *)
(***************************************************************************)
EXTENDS Integers

CONSTANTS
    Users,         \* users
    Out,           \* no entry: switched off, expired, removed, or never there
    NoSing,        \* sing-box serves nothing
    Gens,          \* identities of the runtime directory
    None,          \* no directory, no rendering, nothing applied yet
    Confs          \* what there is and what may happen: one of these in a behaviour

VARIABLE conf

Creds  == conf.creds     \* what a user's entry in a listener can be
Shapes == conf.shapes    \* what only a restart changes: the listeners and all but their users
Rules  == conf.rules     \* routing rules, with the serverSource outbounds and addresses they need
Sings  == conf.sings     \* the part that sing-box serves
Tokens == conf.tokens    \* what shows only in the share links and subscriptions
Ips    == conf.ips       \* client addresses; {} leaves connections out
Awg    == conf.awg       \* there are AmneziaWG listeners
Traffic      == "traffic" \in conf.may    \* traffic limits can be reached
Parallel     == "parallel" \in conf.may   \* proxy-ctl commands may run at once
ApiFails     == "api" \in conf.may        \* an API call may fail
OutputsFail  == "outputs" \in conf.may    \* writing the links may fail
RestartFails == "restart" \in conf.may    \* systemctl may fail or time out
RenderFails  == "render" \in conf.may     \* what the files say may not be renderable, or not be readable
PrepareFails == "prepare" \in conf.may    \* preparing the AmneziaWG configs may fail
CutFails     == "cut" \in conf.may        \* ss or nft may be missing, fail or hang
MaxChanges   == conf.changes   \* bound on the changes to what the files render to
MaxDowns     == conf.downs     \* bound on stops and crashes of the inbounds
MaxCrashes   == conf.crashes   \* bound on kills of the manager and of the reload

\* What build_inbounds makes of the spec and the files (render), and what XRay has of it.
RenderingsOf(c) ==
    [shape: c.shapes, users: [Users -> c.creds \union {Out}], rules: c.rules, sing: c.sings, token: c.tokens]
ServedOf(c) == [users: [Users -> c.creds \union {Out}], rules: c.rules]

ASSUME ApplyAssumption ==
    /\ None \notin Gens /\ None \notin (SUBSET Users) \X (SUBSET Users)
    /\ \A c \in Confs :
          /\ Out \notin c.creds /\ NoSing \in c.sings
          /\ None \notin RenderingsOf(c) /\ None \notin ServedOf(c)
          /\ {c.changes, c.downs, c.crashes} \subseteq Nat /\ c.awg \in BOOLEAN

Appliers   == {"manager", "reload"}
Entries    == Creds \union {Out}
Renderings == RenderingsOf(conf)
Served     == ServedOf(conf)

VARIABLES
    want,     \* what the spec, policies and spool render to, with every term and traffic limit ahead
    ended,    \* users who are switched off or whose term is over
    spent,    \* users whose traffic is used up
    known,    \* ended at the manager's `now`
    dir,      \* the runtime directory, or None
    saved,    \* rendered.json in it, or None
    args,     \* render-args.json is in it
    pending,  \* rendered.json has outputsPending
    outputs,  \* the rendering whose links and subscriptions are written, or None
    unit,     \* the inbounds unit: stopped, a step of its start script, or up
    fresh,    \* what its start script rendered, or None
    xray,     \* [users, rules] that the running XRay has; None while it is down
    sing,     \* what sing-box serves
    conns,    \* open connections: <<user, entry they came in with, address>>
    awgFile,  \* the users in the AmneziaWG listeners' configs
    awgRuns,  \* the peers of their interfaces
    pc,       \* [Appliers -> Steps]
    old,      \* [Appliers -> rendering or None]: rendered.json as it was loaded
    new,      \* [Appliers -> rendering or None]: what it rendered
    due,      \* [Appliers -> BOOLEAN]: the links are to be written
    ips,      \* [Appliers -> SUBSET Ips]: where the leaving users were connected from; once
              \* cut is through, which does not look at it again, where it closed them
    inode,    \* [Appliers -> directory whose apply.lock it opened, or None]
    applied,  \* Manager.applied: the view it last applied, or None
    changes, downs, crashes

want_vars  == <<want, ended, spent>>
files_vars == <<dir, saved, args, pending, outputs>>
unit_vars  == <<unit, fresh>>
runs_vars  == <<xray, sing, conns>>
awg_vars   == <<awgFile, awgRuns>>
call_vars  == <<old, new, due, ips, inode>>
count_vars == <<conf, changes, downs, crashes>>
vars == <<want_vars, known, files_vars, unit_vars, runs_vars, awg_vars, pc, call_vars, applied, count_vars>>

\* The steps between flock and the close of the lock's descriptor.
Locked == {"awg", "awgsync", "awgrestart", "load", "render", "online", "rmu", "adu", "cut", "rules",
           "sing", "singrestart", "save", "outputs", "restart"}
Steps  == Locked \union {"idle", "begin", "open", "lock", "norun", "view"}
UnitSteps == {"stopped", "render", "write", "args", "outputs", "exec", "up"}

Active(r) == {u \in Users : r.users[u] # Out}

\* The rendering with the users in over switched off: now, at the manager's time, an applier's.
Without(over) == [want EXCEPT !.users = [u \in Users |-> IF u \in over THEN Out ELSE @[u]]]
Now           == Without(ended \union spent)
Known         == Without(known \union spent)
Wanted(a)     == IF a = "manager" THEN Known ELSE Now

\* Manager.view: who there is, and who of them is active.
ViewOf(r) == <<Active(want), Active(r)>>

\* Who leaves and who comes in the plan from one rendering to another: a user whose entry
\* changed does both.
Leaving(r, s) == {u \in Active(r) : s.users[u] # r.users[u]}
Joining(r, s) == {u \in Active(s) : s.users[u] # r.users[u]}

\* The links and subscriptions of a rendering.
Links(r) == <<r.shape, r.users, r.sing, r.token>>

\* The inbounds are up, the manager starts.
Init ==
    /\ conf \in Confs
    /\ want \in Renderings
    /\ ended = {} /\ spent = {} /\ known = {}
    /\ dir \in Gens /\ saved = want /\ args = TRUE /\ pending = FALSE /\ outputs = want
    /\ unit = "up" /\ fresh = None
    /\ xray = [users |-> want.users, rules |-> want.rules] /\ sing = want.sing /\ conns = {}
    /\ awgFile = Active(want) /\ awgRuns = Active(want)
    /\ pc = [a \in Appliers |-> "idle"]
    /\ old = [a \in Appliers |-> None] /\ new = [a \in Appliers |-> None]
    /\ due = [a \in Appliers |-> FALSE]
    /\ ips = [a \in Appliers |-> {}]
    /\ inode = [a \in Appliers |-> None]
    /\ applied = None
    /\ changes = 0 /\ downs = 0 /\ crashes = 0

Goto(a, step) == pc' = [pc EXCEPT ![a] = step]

-----------------------------------------------------------------------------
(* What changes the rendering: a handler of the manager, proxy-ctl, time. *)

\* A handler of the manager saves a change, of a user's entry, term or traffic or of
\* anything else, and applies it, under the manager's lock.
ManagerChange ==
    /\ pc["manager"] = "idle" /\ changes < MaxChanges
    /\ \/ want' \in Renderings \ {want} /\ UNCHANGED <<ended, spent>>
       \/ \E u \in Active(want) :
             /\ ended' = IF u \in ended THEN ended \ {u} ELSE ended \union {u}
             /\ UNCHANGED <<want, spent>>
       \/ \E u \in spent : spent' = spent \ {u} /\ UNCHANGED <<want, ended>>
    /\ changes' = changes + 1
    /\ Goto("manager", "begin")
    /\ UNCHANGED <<known, files_vars, unit_vars, runs_vars, awg_vars, call_vars, applied, downs, crashes, conf>>

\* proxy-ctl writes the spool and starts the reload unit: one that runs already is not run
\* again, and the start waits for the end of that run.
SpoolChange ==
    /\ Parallel \/ pc["reload"] = "idle"
    /\ changes < MaxChanges
    /\ want' \in {r \in Renderings : r.token = want.token} \ {want}
    /\ changes' = changes + 1
    /\ IF pc["reload"] = "idle" THEN Goto("reload", "begin") ELSE UNCHANGED pc
    /\ UNCHANGED <<ended, spent, known, files_vars, unit_vars, runs_vars, awg_vars, call_vars, applied, downs, crashes, conf>>

\* A user's term runs out ...
Expire(u) ==
    /\ changes < MaxChanges
    /\ u \in Active(want) \ ended
    /\ ended' = ended \union {u}
    /\ changes' = changes + 1
    /\ UNCHANGED <<want, spent, known, files_vars, unit_vars, runs_vars, awg_vars, pc, call_vars, applied, downs, crashes, conf>>

\* ... or the collector counts the last of their traffic.
Spend(u) ==
    /\ Traffic /\ changes < MaxChanges
    /\ u \in Active(want) \ spent
    /\ spent' = spent \union {u}
    /\ changes' = changes + 1
    /\ UNCHANGED <<want, ended, known, files_vars, unit_vars, runs_vars, awg_vars, pc, call_vars, applied, downs, crashes, conf>>

\* A tick of the manager applies when who may connect is not what was last applied.
Tick ==
    /\ pc["manager"] = "idle"
    /\ applied # ViewOf(Now)
    /\ Goto("manager", "begin")
    /\ UNCHANGED <<want_vars, known, files_vars, unit_vars, runs_vars, awg_vars, call_vars, applied, count_vars>>

-----------------------------------------------------------------------------
(* The inbounds unit: systemd's part, and the start script's *)

\* systemd removes the runtime directory whenever the unit stops.
DirGone ==
    /\ dir' = None /\ saved' = None /\ args' = FALSE /\ pending' = FALSE /\ outputs' = None

\* A new directory, whose lock file is none of those that appliers still have open.
DirAnew ==
    /\ dir' \in Gens \ {inode[a] : a \in Appliers}
    /\ saved' = None /\ args' = FALSE /\ pending' = FALSE /\ outputs' = None

NothingRuns == xray' = None /\ sing' = NoSing /\ conns' = {}

\* A stop, or a crash before systemd's restart: a start script that cannot render is one.
UnitDown ==
    /\ unit # "stopped" /\ downs < MaxDowns
    /\ unit' = "stopped" /\ fresh' = None /\ downs' = downs + 1
    /\ DirGone /\ NothingRuns
    /\ UNCHANGED <<want_vars, known, awg_vars, pc, call_vars, applied, changes, crashes, conf>>

UnitStart ==
    /\ unit = "stopped"
    /\ unit' = "render"
    /\ DirAnew
    /\ UNCHANGED <<want_vars, known, fresh, runs_vars, awg_vars, pc, call_vars, applied, count_vars>>

\* The start script renders ...
StartRender ==
    /\ unit = "render"
    /\ fresh' = Now /\ unit' = "write"
    /\ UNCHANGED <<want_vars, known, files_vars, runs_vars, awg_vars, pc, call_vars, applied, count_vars>>

\* ... writes rendered.json ...
StartWrite ==
    /\ unit = "write"
    /\ saved' = fresh /\ pending' = FALSE /\ unit' = "args"
    /\ UNCHANGED <<want_vars, known, dir, args, outputs, fresh, runs_vars, awg_vars, pc, call_vars, applied, count_vars>>

\* ... render-args.json and the configs, one of which sing-box's unit waits for ...
StartArgs ==
    /\ unit = "args"
    /\ args' = TRUE /\ unit' = "outputs"
    /\ sing' = fresh.sing
    /\ UNCHANGED <<want_vars, known, dir, saved, pending, outputs, fresh, xray, conns, awg_vars, pc, call_vars, applied, count_vars>>

\* ... the links and subscriptions, from its own copy of the rendering ...
StartOutputs ==
    /\ unit = "outputs"
    /\ outputs' = fresh /\ unit' = "exec"
    /\ UNCHANGED <<want_vars, known, dir, saved, args, pending, fresh, runs_vars, awg_vars, pc, call_vars, applied, count_vars>>

\* ... and becomes XRay.
StartExec ==
    /\ unit = "exec"
    /\ xray' = [users |-> fresh.users, rules |-> fresh.rules]
    /\ unit' = "up" /\ fresh' = None
    /\ UNCHANGED <<want_vars, known, files_vars, sing, conns, awg_vars, pc, call_vars, applied, count_vars>>

\* A client connects.
Connect(u, ip) ==
    /\ xray # None
    /\ xray.users[u] # Out
    /\ conns' = conns \union {<<u, xray.users[u], ip>>}
    /\ UNCHANGED <<want_vars, known, files_vars, unit_vars, xray, sing, awg_vars, pc, call_vars, applied, count_vars>>

\* systemctl try-restart: nothing for a stopped unit; otherwise the unit stops and its start
\* script is running when the call returns.
TryRestart ==
    IF unit = "stopped"
    THEN UNCHANGED <<files_vars, unit_vars, runs_vars>>
    ELSE unit' = "render" /\ fresh' = None /\ DirAnew /\ NothingRuns

\* ... or it fails or times out, with its effect or without.
RestartFailing == RestartFails /\ (TryRestart \/ UNCHANGED <<files_vars, unit_vars, runs_vars>>)

-----------------------------------------------------------------------------
(* apply: the lock, and the AmneziaWG side *)

Begin(a) ==
    /\ pc[a] = "begin"
    /\ Goto(a, IF dir # None THEN "open" ELSE IF Awg THEN "awg" ELSE "norun")
    /\ known' = IF a = "manager" THEN ended ELSE known
    /\ UNCHANGED <<want_vars, files_vars, unit_vars, runs_vars, awg_vars, call_vars, applied, count_vars>>

\* What apply knew goes with it, and so does its lock.
Leave(a) ==
    /\ old' = [old EXCEPT ![a] = None] /\ new' = [new EXCEPT ![a] = None]
    /\ due' = [due EXCEPT ![a] = FALSE]
    /\ ips' = [ips EXCEPT ![a] = {}]
    /\ inode' = [inode EXCEPT ![a] = None]

\* An exception leaves apply: a handler answers an error, a tick is over, proxy-ctl says so.
Raise(a) == Goto(a, "idle") /\ Leave(a)

\* apply returns: the manager then looks at who is active now.
Done(a) == Goto(a, IF a = "manager" THEN "view" ELSE "idle") /\ Leave(a)

Open(a) ==
    /\ pc[a] = "open"
    /\ IF dir = None
       THEN Raise(a)
       ELSE Goto(a, "lock") /\ inode' = [inode EXCEPT ![a] = dir] /\ UNCHANGED <<old, new, due, ips>>
    /\ UNCHANGED <<want_vars, known, files_vars, unit_vars, runs_vars, awg_vars, applied, count_vars>>

\* Mutant: whoever has the file open counts, not just the lock's holder.
Flock_all(a) ==
    /\ pc[a] = "lock"
    /\ \A b \in Appliers \ {a} : inode[b] # inode[a]
    /\ Goto(a, IF Awg THEN "awg" ELSE "load")
    /\ UNCHANGED <<want_vars, known, files_vars, unit_vars, runs_vars, awg_vars, call_vars, applied, count_vars>>

\* flock on the file opened, which may be one of a directory that is gone.
Flock(a) ==
    /\ pc[a] = "lock"
    /\ \A b \in Appliers \ {a} : pc[b] \in Locked => inode[b] # inode[a]
    /\ Goto(a, IF Awg THEN "awg" ELSE "load")
    /\ UNCHANGED <<want_vars, known, files_vars, unit_vars, runs_vars, awg_vars, call_vars, applied, count_vars>>

AfterAwg(a) == IF inode[a] = None THEN "norun" ELSE "load"

\* prepare writes the listeners' configs, then the interface is synced if its config changed.
\* One that fails, before the config or after it, fails the apply.
AwgPrepare(a) ==
    /\ pc[a] = "awg"
    /\ \/ /\ awgFile' = Active(Wanted(a))
          /\ Goto(a, IF awgFile = awgFile' THEN AfterAwg(a) ELSE "awgsync") /\ UNCHANGED call_vars
       \/ PrepareFails /\ awgFile' \in {awgFile, Active(Wanted(a))} /\ Raise(a)
    /\ UNCHANGED <<want_vars, known, files_vars, unit_vars, runs_vars, awgRuns, applied, count_vars>>

\* Mutant: a sync that fails is taken for one that worked.
AwgSync_blind(a) ==
    /\ pc[a] = "awgsync"
    /\ awgRuns' = awgFile \/ (ApiFails /\ UNCHANGED awgRuns)
    /\ Goto(a, AfterAwg(a))
    /\ UNCHANGED <<want_vars, known, files_vars, unit_vars, runs_vars, awgFile, call_vars, applied, count_vars>>

\* awg syncconf; should it fail, the interfaces' unit is restarted.
AwgSync(a) ==
    /\ pc[a] = "awgsync"
    /\ \/ awgRuns' = awgFile /\ Goto(a, AfterAwg(a))
       \/ ApiFails /\ UNCHANGED awgRuns /\ Goto(a, "awgrestart")
    /\ UNCHANGED <<want_vars, known, files_vars, unit_vars, runs_vars, awgFile, call_vars, applied, count_vars>>

\* Its start prepares the configs itself.
AwgRestart(a) ==
    /\ pc[a] = "awgrestart"
    /\ \/ /\ awgFile' = Active(Now) /\ awgRuns' = awgFile'
          /\ Goto(a, AfterAwg(a)) /\ UNCHANGED call_vars
       \/ RestartFails /\ Raise(a) /\ UNCHANGED awg_vars
    /\ UNCHANGED <<want_vars, known, files_vars, unit_vars, runs_vars, applied, count_vars>>

\* The inbounds were not running when apply looked: try-restart, without the lock.
NotRunning(a) ==
    /\ pc[a] = "norun"
    /\ \/ TryRestart /\ Done(a)
       \/ RestartFailing /\ Raise(a)
    /\ UNCHANGED <<want_vars, known, awg_vars, applied, count_vars>>

-----------------------------------------------------------------------------
(* apply_xray: load, render, plan *)

Load(a) ==
    /\ pc[a] = "load"
    /\ IF saved = None \/ ~args
       THEN Goto(a, "restart") /\ UNCHANGED <<old, due>>
       ELSE /\ Goto(a, "render")
            /\ old' = [old EXCEPT ![a] = saved] /\ due' = [due EXCEPT ![a] = pending]
    /\ UNCHANGED <<want_vars, known, files_vars, unit_vars, runs_vars, awg_vars, new, ips, inode, applied, count_vars>>

\* plan: a restart, nothing, or API calls and new links.  What cannot be rendered, a restart.
Render(a) ==
    /\ pc[a] = "render"
    /\ LET r == Wanted(a)
           d == due[a] \/ Links(r) # Links(old[a])
       IN  \/ /\ r.shape # old[a].shape \/ RenderFails
              /\ Goto(a, "restart") /\ UNCHANGED call_vars
           \/ /\ r = old[a] /\ ~d
              /\ Done(a)
           \/ /\ r.shape = old[a].shape /\ (r # old[a] \/ d)
              /\ new' = [new EXCEPT ![a] = r] /\ due' = [due EXCEPT ![a] = d]
              /\ Goto(a, "online") /\ UNCHANGED <<old, ips, inode>>
    /\ UNCHANGED <<want_vars, known, files_vars, unit_vars, runs_vars, awg_vars, applied, count_vars>>

-----------------------------------------------------------------------------
(* run_steps: the API calls.  One that fails, or finds no XRay, is        *)
(* answered with a restart; it may have had its effect all the same.       *)

\* Where the users going away are connected from; XRay not answering, from nowhere.
Online(a) ==
    /\ pc[a] = "online"
    /\ \/ ips' = [ips EXCEPT ![a] = {c[3] : c \in {d \in conns : d[1] \in Leaving(old[a], new[a])}}]
       \/ ApiFails /\ ips' = [ips EXCEPT ![a] = {}]
    /\ Goto(a, "rmu")
    /\ UNCHANGED <<want_vars, known, files_vars, unit_vars, runs_vars, awg_vars, old, new, due, inode, applied, count_vars>>

Call(a, next, after) ==
    \/ xray # None /\ xray' = after /\ Goto(a, next)
    \/ (xray = None \/ ApiFails) /\ UNCHANGED xray /\ Goto(a, "restart")
    \/ xray # None /\ ApiFails /\ xray' = after /\ Goto(a, "restart")

NoCall(a, next) == UNCHANGED xray /\ Goto(a, next)

\* rmu: those who leave; XRay has no complaint about one it does not have.
RemoveUsers(a) ==
    /\ pc[a] = "rmu"
    /\ IF Leaving(old[a], new[a]) = {}
       THEN NoCall(a, "adu")
       ELSE Call(a, "adu", [xray EXCEPT !.users =
                [u \in Users |-> IF u \in Leaving(old[a], new[a]) THEN Out ELSE @[u]]])
    /\ UNCHANGED <<want_vars, known, files_vars, unit_vars, sing, conns, awg_vars, call_vars, applied, count_vars>>

\* adu: those who come; one that XRay has already keeps the entry it has.
AddUsers(a) ==
    /\ pc[a] = "adu"
    /\ IF Joining(old[a], new[a]) = {}
       THEN NoCall(a, "cut")
       ELSE Call(a, "cut", [xray EXCEPT !.users =
                [u \in Users |-> IF u \in Joining(old[a], new[a]) /\ @[u] = Out
                                 THEN new[a].users[u] ELSE @[u]]])
    /\ UNCHANGED <<want_vars, known, files_vars, unit_vars, sing, conns, awg_vars, call_vars, applied, count_vars>>

\* The connections from these addresses are closed, whoever's they are.
CutFrom(a, closed) ==
    /\ conns' = {c \in conns : c[3] \notin closed}
    /\ ips' = [ips EXCEPT ![a] = closed]
    /\ UNCHANGED <<want_vars, known, files_vars, unit_vars, xray, sing, awg_vars, old, new, due, inode, applied, count_vars>>

\* Mutant: nobody's connections are cut.
Cut_none(a) ==
    /\ pc[a] = "cut"
    /\ Goto(a, "rules")
    /\ UNCHANGED <<want_vars, known, files_vars, unit_vars, runs_vars, awg_vars, call_vars, applied, count_vars>>

\* cut: whether ss and nft worked is not looked at.  One that hangs or cannot be run is
\* answered like an API call that fails.
Cut(a) ==
    /\ pc[a] = "cut"
    /\ \/ CutFrom(a, ips[a]) /\ Goto(a, "rules")
       \/ /\ CutFails /\ ips[a] # {}
          /\ \E closed \in SUBSET ips[a] : CutFrom(a, closed)
          /\ Goto(a, "rules") \/ Goto(a, "restart")

\* Mutant: whether the call worked is not looked at.
ReplaceRules_blind(a) ==
    /\ pc[a] = "rules"
    /\ \/ xray # None /\ xray' = [xray EXCEPT !.rules = new[a].rules]
       \/ (xray = None \/ ApiFails) /\ UNCHANGED xray
    /\ Goto(a, "sing")
    /\ UNCHANGED <<want_vars, known, files_vars, unit_vars, sing, conns, awg_vars, call_vars, applied, count_vars>>

\* adrules, with the outbounds and addresses around it.
ReplaceRules(a) ==
    /\ pc[a] = "rules"
    /\ IF old[a].rules = new[a].rules
       THEN NoCall(a, "sing")
       ELSE Call(a, "sing", [xray EXCEPT !.rules = new[a].rules])
    /\ UNCHANGED <<want_vars, known, files_vars, unit_vars, sing, conns, awg_vars, call_vars, applied, count_vars>>

-----------------------------------------------------------------------------
(* What follows the API calls *)

\* sync_sing_box.  From or to none takes a restart, as does a reload that fails; the apply
\* goes on after it.
SyncSing(a) ==
    /\ pc[a] = "sing"
    /\ \/ /\ old[a].sing = new[a].sing
          /\ Goto(a, "save") /\ UNCHANGED sing
       \/ /\ old[a].sing # new[a].sing /\ NoSing \in {old[a].sing, new[a].sing}
          /\ Goto(a, "singrestart") /\ UNCHANGED sing
       \/ /\ old[a].sing # new[a].sing /\ NoSing \notin {old[a].sing, new[a].sing}
          /\ IF unit \notin {"outputs", "exec", "up"}   \* no sing-box.json to write to
             THEN Goto(a, "restart") /\ UNCHANGED sing
             ELSE \/ sing' = new[a].sing /\ Goto(a, "save")
                  \/ ApiFails /\ UNCHANGED sing /\ Goto(a, "singrestart")
    /\ UNCHANGED <<want_vars, known, files_vars, unit_vars, xray, conns, awg_vars, call_vars, applied, count_vars>>

SingRestart(a) ==
    /\ pc[a] = "singrestart"
    /\ \/ TryRestart /\ Goto(a, "save") /\ UNCHANGED call_vars
       \/ RestartFailing /\ Raise(a)
    /\ UNCHANGED <<want_vars, known, awg_vars, applied, count_vars>>

\* save_rendering and sync_config, in whatever directory is there now.
SaveRendering(a) ==
    /\ pc[a] = "save"
    /\ IF dir = None
       THEN Raise(a) /\ UNCHANGED <<saved, pending>>
       ELSE /\ saved' = new[a] /\ pending' = FALSE
            /\ IF due[a] THEN Goto(a, "outputs") /\ UNCHANGED call_vars
                         ELSE Done(a)
    /\ UNCHANGED <<want_vars, known, dir, args, outputs, unit_vars, runs_vars, awg_vars, applied, count_vars>>

\* The links and subscriptions of rendered.json.  If they cannot be written, the rendering is
\* saved again with outputsPending.
WriteOutputs(a) ==
    /\ pc[a] = "outputs"
    /\ \/ /\ saved # None
          /\ outputs' = saved
          /\ Done(a) /\ UNCHANGED <<saved, pending>>
       \/ /\ saved = None \/ OutputsFail
          /\ UNCHANGED outputs
          /\ IF dir = None
             THEN Raise(a) /\ UNCHANGED <<saved, pending>>
             ELSE Done(a) /\ saved' = new[a] /\ pending' = TRUE
    /\ UNCHANGED <<want_vars, known, dir, args, unit_vars, runs_vars, awg_vars, applied, count_vars>>

\* The restart that stands in for whatever the API could not do.
Restart(a) ==
    /\ pc[a] = "restart"
    /\ \/ TryRestart /\ Done(a)
       \/ RestartFailing /\ Raise(a)
    /\ UNCHANGED <<want_vars, known, awg_vars, applied, count_vars>>

\* Mutant: who is active after the apply, not at its time.
View_late ==
    /\ pc["manager"] = "view"
    /\ applied' = ViewOf(Now)
    /\ Goto("manager", "idle")
    /\ UNCHANGED <<want_vars, known, files_vars, unit_vars, runs_vars, awg_vars, call_vars, count_vars>>

\* apply_now keeps who was active at its time as applied.
View ==
    /\ pc["manager"] = "view"
    /\ applied' = ViewOf(Known)
    /\ Goto("manager", "idle")
    /\ UNCHANGED <<want_vars, known, files_vars, unit_vars, runs_vars, awg_vars, call_vars, count_vars>>

\* The manager or the reload is killed: the kernel lets go of its lock.  A manager comes back
\* with nothing applied.
Crash(a) ==
    /\ pc[a] # "idle" /\ crashes < MaxCrashes
    /\ crashes' = crashes + 1
    /\ Raise(a)
    /\ applied' = IF a = "manager" THEN None ELSE applied
    /\ UNCHANGED <<want_vars, known, files_vars, unit_vars, runs_vars, awg_vars, changes, downs, conf>>

-----------------------------------------------------------------------------
Apply(a) ==
    \/ Begin(a) \/ Open(a) \/ Flock(a) \/ AwgPrepare(a) \/ AwgSync(a) \/ AwgRestart(a)
    \/ NotRunning(a) \/ Load(a) \/ Render(a) \/ Online(a) \/ RemoveUsers(a) \/ AddUsers(a)
    \/ Cut(a) \/ ReplaceRules(a) \/ SyncSing(a) \/ SingRestart(a) \/ SaveRendering(a)
    \/ WriteOutputs(a) \/ Restart(a)

StartScript == StartRender \/ StartWrite \/ StartArgs \/ StartOutputs \/ StartExec

Environment ==
    \/ ManagerChange \/ SpoolChange \/ \E u \in Users : Expire(u) \/ Spend(u)
    \/ UnitDown \/ \E u \in Users, ip \in Ips : Connect(u, ip)
    \/ \E a \in Appliers : Crash(a)

Next ==
    \/ Environment \/ Tick \/ View \/ UnitStart \/ StartScript
    \/ \E a \in Appliers : Apply(a)

Spec == Init /\ [][Next]_vars

\* The processes keep running, the start script too; systemd and the tick come round; nobody
\* waits for a lock for ever that is let go of again and again (the kernel serves in turn).
Fairness ==
    /\ \A a \in Appliers : WF_vars(Apply(a))
    /\ \A a \in Appliers : SF_vars(Flock(a))
    /\ WF_vars(StartScript) /\ WF_vars(UnitStart) /\ WF_vars(Tick) /\ WF_vars(View)

LiveSpec == Spec /\ Fairness

-----------------------------------------------------------------------------
(* Properties *)

\* The values that the variables can have.
TypeOK ==
    /\ conf \in Confs
    /\ want \in Renderings /\ ended \subseteq Users /\ spent \subseteq Users /\ known \subseteq Users
    /\ fresh \in Renderings \union {None}
    /\ dir \in Gens \union {None}
    /\ saved \in Renderings \union {None} /\ outputs \in Renderings \union {None}
    /\ {args, pending} \subseteq BOOLEAN
    /\ unit \in UnitSteps
    /\ xray \in Served \union {None}
    /\ sing \in Sings
    /\ conns \subseteq Users \X Creds \X Ips
    /\ awgFile \subseteq Users /\ awgRuns \subseteq Users
    /\ pc \in [Appliers -> Steps]
    /\ old \in [Appliers -> Renderings \union {None}] /\ new \in [Appliers -> Renderings \union {None}]
    /\ due \in [Appliers -> BOOLEAN]
    /\ ips \in [Appliers -> SUBSET Ips]
    /\ inode \in [Appliers -> Gens \union {None}]
    /\ applied \in ((SUBSET Users) \X (SUBSET Users)) \union {None}
    /\ changes \in 0..MaxChanges /\ downs \in 0..MaxDowns /\ crashes \in 0..MaxCrashes

Runs(r) == xray = [users |-> r.users, rules |-> r.rules] /\ sing = r.sing

Holding(a) == pc[a] \in Locked /\ inode[a] # None
Idle       == \A a \in Appliers : pc[a] = "idle"

\* "One apply at a time (a lock in the runtime directory)": no two are between flock and close
\* with a lock file open each.  apply looks for the directory, opens and locks in three steps.
OneApply == \A a, b \in Appliers : Holding(a) /\ Holding(b) => a = b

\* rendered.json is "what the inbounds run now" whenever no apply holds the lock: plan compares
\* with it, so what it does not tell of XRay no later apply puts right.
SavedIsRun ==
    unit = "up" /\ (\A a \in Appliers : ~Holding(a)) => saved # None /\ Runs(saved)

\* With no apply under way and who is active just as the manager last applied it, its tick does
\* nothing: the inbounds must then run what the files say, all of it.
QuietIsRight == unit = "up" /\ Idle /\ applied = ViewOf(Now) => Runs(Now)

\* The links and subscriptions are those of rendered.json once no apply is under way, or
\* outputsPending says that they are due: plan has no other way to see that they are old.
LinksAreSaved ==
    unit = "up" /\ Idle => pending \/ (outputs # None /\ saved # None /\ Links(outputs) = Links(saved))

\* The AmneziaWG interfaces have the peers of their configs once no apply is under way:
\* apply_awg syncs only those whose config it changes.
PeersAreRun == Idle => awgRuns = awgFile

\* "The connections of those removed cut": from an address that run_steps found a leaving user at,
\* and that ss and nft closed, they have no connection with the entry that went from then on,
\* however many they opened between.
SeenAreCut ==
    \A a \in Appliers : pc[a] \in {"rules", "sing", "save", "outputs"} =>
        \A c \in conns : c[1] \in Leaving(old[a], new[a]) /\ c[3] \in ips[a] => c[2] # old[a].users[c[1]]

\* What those four rest on.  The inbounds and the appliers keep running, and systemctl and
\* prepare work ...
Steady == downs = 0 /\ crashes = 0 /\ ~RestartFails /\ ~PrepareFails

\* ... appliers take turns, and none restarts sing-box's unit, after which it goes on with what
\* the start script is rendering over ...
Alone == OneApply /\ \A a \in Appliers : pc[a] # "singrestart"

\* ... nor saves while the start script has the links of what it rendered yet to write.
Calm == Alone /\ (unit = "outputs" => \A a \in Appliers : pc[a] # "save")

\* Where they hold: SavedIsRun as long as the appliers are Alone, LinksAreSaved as long as they
\* are Calm, and what the tick sees as long as the changes of proxy-ctl and of traffic, which it
\* does not look for, are applied by those who make them.
SteadySaved   == Steady => SavedIsRun
SteadyOutputs == Steady => LinksAreSaved /\ PeersAreRun
SteadyQuiet   == Steady /\ ~Parallel /\ ~Traffic => QuietIsRight

\* Every apply ends, whoever else waits for the lock and whatever is restarted or removed on
\* the way (apply's flock has no timeout).
ApplyEnds == \A a \in Appliers : pc[a] # "idle" ~> pc[a] = "idle"

\* Once nothing changes any more, the inbounds come to run what the files say: by the applies
\* of the changes, the restarts they fall back to, and the manager's tick.
Converges == <>[](unit = "up" /\ Runs(Now))
=============================================================================
