-------------------------- MODULE InboundApplyProofs --------------------------
(***************************************************************************)
(* Proofs about InboundApply, for any users, listeners, rules and links,   *)
(* any number of changes, and either applier.                              *)
(***************************************************************************)
EXTENDS InboundApply, TLAPS

-----------------------------------------------------------------------------
(* Types *)

\* The steps of apply_xray between the load of rendered.json and the end of the apply, and
\* those of them that follow the plan.
Within == {"render", "online", "rmu", "adu", "cut", "rules", "sing", "singrestart", "save", "outputs"}
After  == Within \ {"render"}

\* The types of what an applier has, with what it works from at the steps that read it ...
CallInv ==
    /\ pc \in [Appliers -> Steps]
    /\ old \in [Appliers -> Renderings \union {None}] /\ new \in [Appliers -> Renderings \union {None}]
    /\ due \in [Appliers -> BOOLEAN]
    /\ ips \in [Appliers -> SUBSET Ips]
    /\ inode \in [Appliers -> Gens \union {None}]
    /\ \A a \in Appliers : /\ pc[a] \in Within => old[a] \in Renderings
                           /\ pc[a] \in After => new[a] \in Renderings

\* ... and those of everything else, with what the start script works from.
RestInv ==
    /\ conf \in Confs
    /\ want \in Renderings /\ ended \subseteq Users /\ spent \subseteq Users /\ known \subseteq Users
    /\ fresh \in Renderings \union {None}
    /\ dir \in Gens \union {None}
    /\ saved \in Renderings \union {None} /\ outputs \in Renderings \union {None}
    /\ {args, pending} \subseteq BOOLEAN
    /\ unit \in UnitSteps
    /\ xray \in Served \union {None}
    /\ sing \in Sings
    /\ conns \subseteq Users \X Creds \X Ips
    /\ awgFile \subseteq Users /\ awgRuns \subseteq Users
    /\ applied \in ((SUBSET Users) \X (SUBSET Users)) \union {None}
    /\ changes \in 0..MaxChanges /\ downs \in 0..MaxDowns /\ crashes \in 0..MaxCrashes
    /\ unit \in {"write", "args", "outputs", "exec"} => fresh \in Renderings

TypeInv == CallInv /\ RestInv

\* It is stronger than the type invariant.
LEMMA TypeInvOK == TypeInv => TypeOK
  BY DEF TypeInv, CallInv, RestInv, TypeOK

\* What there is and what may happen stays as it is.
LEMMA ConfKept == ASSUME [Next]_vars PROVE conf' = conf
  BY DEF Next, vars, Environment, StartScript, Apply, want_vars, files_vars, unit_vars, runs_vars, awg_vars,
     call_vars, count_vars, ManagerChange, SpoolChange, Expire, Spend, Tick, UnitDown, UnitStart,
     StartRender, StartWrite, StartArgs, StartOutputs, StartExec, Connect, Begin, Open, Flock, AwgPrepare,
     AwgSync, AwgRestart, NotRunning, Load, Render, Online, RemoveUsers, AddUsers, Cut, CutFrom, ReplaceRules, SyncSing,
     SingRestart, SaveRendering, WriteOutputs, Restart, View, Crash

\* Stops and kills are counted.
LEMMA StepsCount ==
  ASSUME [Next]_vars, downs \in Nat, crashes \in Nat PROVE downs' >= downs /\ crashes' >= crashes
  <1>1. CASE UnitDown \/ \E a \in Appliers : Crash(a)
    BY <1>1 DEF UnitDown, Crash
  <1>2. CASE ~(UnitDown \/ \E a \in Appliers : Crash(a))
    <2>1. downs' = downs /\ crashes' = crashes
      BY <1>2 DEF Next, vars, Environment, StartScript, Apply, want_vars, files_vars, unit_vars, runs_vars,
         awg_vars, call_vars, count_vars, ManagerChange, SpoolChange, Expire, Spend, Tick, UnitStart,
         StartRender, StartWrite, StartArgs, StartOutputs, StartExec, Connect, Begin, Open, Flock, AwgPrepare,
         AwgSync, AwgRestart, NotRunning, Load, Render, Online, RemoveUsers, AddUsers, Cut, CutFrom, ReplaceRules, SyncSing,
         SingRestart, SaveRendering, WriteOutputs, Restart, View
    <2> QED
      BY <2>1
  <1> QED
    BY <1>1, <1>2

\* With conf, the sets and bounds taken from it stay.
LEMMA SetsKept ==
  ASSUME conf' = conf
  PROVE  /\ Renderings' = Renderings /\ Served' = Served /\ Entries' = Entries /\ Creds' = Creds
         /\ Rules' = Rules /\ Sings' = Sings /\ Ips' = Ips
         /\ MaxChanges' = MaxChanges /\ MaxDowns' = MaxDowns /\ MaxCrashes' = MaxCrashes
  BY DEF Renderings, Served, Entries, Creds, Rules, Sings, Ips, MaxChanges, MaxDowns, MaxCrashes

\* The bounds are numbers, and sing-box may serve nothing.
LEMMA BoundsType == ASSUME RestInv PROVE MaxChanges \in Nat /\ MaxDowns \in Nat /\ MaxCrashes \in Nat /\ NoSing \in Sings
  BY ApplyAssumption DEF RestInv, MaxChanges, MaxDowns, MaxCrashes, Sings

\* What a rendering is made of.
LEMMA RenderingType ==
  ASSUME NEW r \in Renderings
  PROVE  /\ r.users \in [Users -> Entries] /\ r.rules \in Rules /\ r.sing \in Sings
         /\ [users |-> r.users, rules |-> r.rules] \in Served
         /\ \A over \in SUBSET Users : [r EXCEPT !.users = [u \in Users |-> IF u \in over THEN Out ELSE @[u]]] \in Renderings
  BY DEF Renderings, RenderingsOf, Served, ServedOf, Entries, Creds, Rules, Sings

\* An apply that ends leaves what appliers have well-typed ...
LEMMA LeaveType ==
  ASSUME CallInv, conf' = conf, NEW a \in Appliers, NEW step \in {"idle", "view"}, Goto(a, step), Leave(a)
  PROVE  CallInv'
  <1>1. /\ pc' \in [Appliers -> Steps]
        /\ \A b \in Appliers : pc'[b] = (IF b = a THEN step ELSE pc[b])
        /\ step \notin Within
    BY DEF CallInv, Goto, Steps, Within
  <1>2. /\ old' \in [Appliers -> Renderings \union {None}] /\ new' \in [Appliers -> Renderings \union {None}]
        /\ due' \in [Appliers -> BOOLEAN] /\ ips' \in [Appliers -> SUBSET Ips]
        /\ inode' \in [Appliers -> Gens \union {None}]
        /\ \A b \in Appliers \ {a} : old'[b] = old[b] /\ new'[b] = new[b]
    BY DEF CallInv, Leave
  <1> QED
    BY <1>1, <1>2, SetsKept DEF CallInv, After

\* ... and so does one that goes on with what it has.
LEMMA GotoType ==
  ASSUME CallInv, conf' = conf, NEW a \in Appliers, NEW step \in Steps, Goto(a, step), UNCHANGED call_vars,
         step \in Within => pc[a] \in After
  PROVE  CallInv'
  <1>1. /\ pc' \in [Appliers -> Steps]
        /\ \A b \in Appliers : pc'[b] = (IF b = a THEN step ELSE pc[b])
    BY DEF CallInv, Goto
  <1> QED
    BY <1>1, SetsKept DEF CallInv, After, call_vars

\* One that raises, and one that is done, end.
LEMMA RaiseType == ASSUME CallInv, conf' = conf, NEW a \in Appliers, Raise(a) PROVE CallInv'
  BY LeaveType DEF Raise

\* ... or a return.
LEMMA DoneType == ASSUME CallInv, conf' = conf, NEW a \in Appliers, Done(a) PROVE CallInv'
  BY LeaveType DEF Done
-----------------------------------------------------------------------------
(* The steps of an apply keep the types *)

\* From its begin to the AmneziaWG listeners.
LEMMA TypeLock ==
  ASSUME TypeInv, conf' = conf, NEW a \in Appliers,
         Begin(a) \/ Open(a) \/ Flock(a) \/ AwgPrepare(a) \/ AwgSync(a) \/ AwgRestart(a)
  PROVE  TypeInv'
  <1> USE SetsKept DEF TypeInv, want_vars, files_vars, unit_vars, runs_vars, awg_vars, call_vars, count_vars
  <1>1. CASE Begin(a)
    <2>1. CallInv'
      BY <1>1, GotoType, RaiseType, DoneType DEF Begin, Steps, Locked, Within, After, AfterAwg, CallInv
    <2>2. RestInv'
      BY <1>1 DEF Begin, RestInv, Active
    <2> QED
      BY <2>1, <2>2
  <1>2. CASE Open(a)
    <2>1. CallInv'
      <3>1. CASE dir = None
        BY <1>2, <3>1, RaiseType DEF Open
      <3>2. CASE dir # None
        BY <1>2, <3>2 DEF Open, CallInv, RestInv, Goto, Steps, Locked, Within, After
      <3> QED
        BY <3>1, <3>2
    <2>2. RestInv'
      BY <1>2 DEF Open, RestInv, Active
    <2> QED
      BY <2>1, <2>2
  <1>3. CASE Flock(a)
    <2>1. CallInv'
      BY <1>3, GotoType, RaiseType, DoneType DEF Flock, Steps, Locked, Within, After, AfterAwg, CallInv
    <2>2. RestInv'
      BY <1>3 DEF Flock, RestInv, Active
    <2> QED
      BY <2>1, <2>2
  <1>4. CASE AwgPrepare(a)
    <2>1. CallInv'
      BY <1>4, GotoType, RaiseType, DoneType DEF AwgPrepare, Steps, Locked, Within, After, AfterAwg, CallInv
    <2>2. RestInv'
      BY <1>4 DEF AwgPrepare, RestInv, Active
    <2> QED
      BY <2>1, <2>2
  <1>5. CASE AwgSync(a)
    <2>1. CallInv'
      BY <1>5, GotoType, RaiseType, DoneType DEF AwgSync, Steps, Locked, Within, After, AfterAwg, CallInv
    <2>2. RestInv'
      BY <1>5 DEF AwgSync, RestInv, Active
    <2> QED
      BY <2>1, <2>2
  <1>6. CASE AwgRestart(a)
    <2>1. CallInv'
      BY <1>6, GotoType, RaiseType, DoneType DEF AwgRestart, Steps, Locked, Within, After, AfterAwg, CallInv
    <2>2. RestInv'
      BY <1>6 DEF AwgRestart, RestInv, Active
    <2> QED
      BY <2>1, <2>2
  <1> QED
    BY <1>1, <1>2, <1>3, <1>4, <1>5, <1>6

\* What an applier renders is a rendering.
LEMMA WantedType == ASSUME RestInv, NEW a \in Appliers PROVE Wanted(a) \in Renderings
  <1>1. \A over \in SUBSET Users : Without(over) \in Renderings
    BY RenderingType DEF Without, RestInv
  <1> QED
    BY <1>1 DEF Wanted, Known, Now, RestInv

\* A restart of the inbounds, one that fails included, keeps the types of what it changes.
LEMMA RestartType ==
  ASSUME RestInv, conf' = conf, TryRestart \/ UNCHANGED <<files_vars, unit_vars, runs_vars>>
  PROVE  /\ dir' \in Gens \union {None} /\ saved' \in Renderings \union {None}
         /\ outputs' \in Renderings \union {None} /\ {args', pending'} \subseteq BOOLEAN
         /\ unit' \in UnitSteps /\ xray' \in Served \union {None} /\ sing' \in Sings
         /\ conns' \subseteq Users \X Creds \X Ips /\ fresh' \in Renderings \union {None}
         /\ unit' \in {"write", "args", "outputs", "exec"} => fresh' \in Renderings
  <1>1. NoSing \in Sings
    BY BoundsType
  <1>2. CASE UNCHANGED <<files_vars, unit_vars, runs_vars>>
    BY <1>2 DEF RestInv, files_vars, unit_vars, runs_vars
  <1>3. CASE unit' = "render" /\ fresh' = None /\ DirAnew /\ NothingRuns
    BY <1>1, <1>3 DEF RestInv, DirAnew, NothingRuns, UnitSteps
  <1> QED
    BY <1>2, <1>3 DEF TryRestart

\* The plan.
LEMMA TypePlan ==
  ASSUME TypeInv, conf' = conf, NEW a \in Appliers,
         Load(a) \/ Render(a) \/ Online(a)
  PROVE  TypeInv'
  <1> USE SetsKept DEF TypeInv, want_vars, files_vars, unit_vars, runs_vars, awg_vars, call_vars, count_vars
  <1>1. CASE Load(a)
    <2>1. CallInv'
      <3>1. CASE saved = None \/ ~args
        BY <1>1, <3>1, GotoType DEF Load, Steps, Locked, Within
      <3>2. CASE ~(saved = None \/ ~args)
        BY <1>1, <3>2 DEF Load, CallInv, RestInv, Goto, Steps, Locked, Within, After
      <3> QED
        BY <3>1, <3>2
    <2>2. RestInv'
      BY <1>1 DEF Load, RestInv
    <2> QED
      BY <2>1, <2>2
  <1>2. CASE Render(a)
    <2>1. CallInv'
      <3> DEFINE d == due[a] \/ Links(Wanted(a)) # Links(old[a])
      <3>1. CASE UNCHANGED call_vars /\ Goto(a, "restart")
        BY <3>1, GotoType DEF Steps, Locked, Within
      <3>2. CASE Done(a)
        BY <3>2, DoneType
      <3>3. CASE /\ new' = [new EXCEPT ![a] = Wanted(a)] /\ due' = [due EXCEPT ![a] = d]
                 /\ Goto(a, "online") /\ UNCHANGED <<old, ips, inode>>
        <4>1. d \in BOOLEAN /\ old[a] \in Renderings
          BY <1>2 DEF CallInv, Render, Within
        <4> HIDE DEF d
        <4> QED
          BY <3>3, <4>1, WantedType DEF CallInv, Goto, Steps, Locked, Within, After
      <3> QED
        BY <1>2, <3>1, <3>2, <3>3 DEF Render
    <2>2. RestInv'
      BY <1>2 DEF Render, RestInv
    <2> QED
      BY <2>1, <2>2
  <1>3. CASE Online(a)
    <2>1. CallInv'
      <3>1. {c[3] : c \in {d \in conns : d[1] \in Leaving(old[a], new[a])}} \subseteq Ips
        BY DEF RestInv
      <3>2. Goto(a, "rmu") /\ UNCHANGED <<old, new, due, inode>> /\ pc[a] = "online" /\ ips' \in [Appliers -> SUBSET Ips]
        BY <1>3, <3>1 DEF Online, CallInv
      <3> QED
        BY <3>2 DEF CallInv, Goto, Steps, Locked, Within, After
    <2>2. RestInv'
      BY <1>3 DEF Online, RestInv
    <2> QED
      BY <2>1, <2>2
  <1> QED
    BY <1>1, <1>2, <1>3

\* The API calls.
LEMMA TypeCalls ==
  ASSUME TypeInv, conf' = conf, NEW a \in Appliers,
         RemoveUsers(a) \/ AddUsers(a) \/ Cut(a) \/ ReplaceRules(a) \/ SyncSing(a)
  PROVE  TypeInv'
  <1> USE SetsKept DEF TypeInv, want_vars, files_vars, unit_vars, runs_vars, awg_vars, call_vars, count_vars
  <1>1. CASE RemoveUsers(a)
    <2>1. CallInv'
      BY <1>1, GotoType, RaiseType, DoneType DEF RemoveUsers, Steps, Locked, Within, After, Call, NoCall
    <2>2. RestInv'
      <3>1. new[a] \in Renderings
        BY <1>1 DEF RemoveUsers, CallInv, Within, After
      <3>2. xray \in Served => [xray EXCEPT !.users = [u \in Users |-> IF u \in Leaving(old[a], new[a]) THEN Out ELSE @[u]]] \in Served
        BY <3>1 DEF Renderings, RenderingsOf, Served, ServedOf
      <3>3. xray' \in Served \union {None}
        BY <1>1, <3>2 DEF RemoveUsers, RestInv, Call, NoCall
      <3> QED
        BY <1>1, <3>3 DEF RemoveUsers, RestInv
    <2> QED
      BY <2>1, <2>2
  <1>2. CASE AddUsers(a)
    <2>1. CallInv'
      BY <1>2, GotoType, RaiseType, DoneType DEF AddUsers, Steps, Locked, Within, After, Call, NoCall
    <2>2. RestInv'
      <3>1. new[a] \in Renderings
        BY <1>2 DEF AddUsers, CallInv, Within, After
      <3>2. xray \in Served => [xray EXCEPT !.users = [u \in Users |-> IF u \in Joining(old[a], new[a]) /\ @[u] = Out THEN new[a].users[u] ELSE @[u]]] \in Served
        BY <3>1 DEF Renderings, RenderingsOf, Served, ServedOf
      <3>3. xray' \in Served \union {None}
        BY <1>2, <3>2 DEF AddUsers, RestInv, Call, NoCall
      <3> QED
        BY <1>2, <3>3 DEF AddUsers, RestInv
    <2> QED
      BY <2>1, <2>2
  <1>3. CASE Cut(a)
    <2>1. CallInv'
      <3>1. PICK closed \in SUBSET ips[a], step \in {"rules", "restart"} : CutFrom(a, closed) /\ Goto(a, step)
        BY <1>3 DEF Cut
      <3>2. pc[a] = "cut" /\ ips' \in [Appliers -> SUBSET Ips]
        BY <1>3, <3>1 DEF Cut, CutFrom, CallInv
      <3> QED
        BY <3>1, <3>2 DEF CutFrom, CallInv, Goto, Steps, Locked, Within, After
    <2>2. RestInv'
      <3>1. PICK closed \in SUBSET ips[a] : CutFrom(a, closed)
        BY <1>3 DEF Cut
      <3> QED
        BY <3>1 DEF CutFrom, RestInv
    <2> QED
      BY <2>1, <2>2
  <1>4. CASE ReplaceRules(a)
    <2>1. CallInv'
      BY <1>4, GotoType, RaiseType, DoneType DEF ReplaceRules, Steps, Locked, Within, After, Call, NoCall
    <2>2. RestInv'
      <3>1. new[a] \in Renderings
        BY <1>4 DEF ReplaceRules, CallInv, Within, After
      <3>2. xray \in Served => [xray EXCEPT !.rules = new[a].rules] \in Served
        BY <3>1 DEF Renderings, RenderingsOf, Served, ServedOf
      <3>3. xray' \in Served \union {None}
        BY <1>4, <3>2 DEF ReplaceRules, RestInv, Call, NoCall
      <3> QED
        BY <1>4, <3>3 DEF ReplaceRules, RestInv
    <2> QED
      BY <2>1, <2>2
  <1>5. CASE SyncSing(a)
    <2>1. CallInv'
      BY <1>5, GotoType, RaiseType, DoneType DEF SyncSing, Steps, Locked, Within, After, Call, NoCall
    <2>2. RestInv'
      <3>1. new[a].sing \in Sings
        BY <1>5, RenderingType DEF SyncSing, CallInv, Within, After
      <3> QED
        BY <1>5, <3>1 DEF SyncSing, RestInv
    <2> QED
      BY <2>1, <2>2
  <1> QED
    BY <1>1, <1>2, <1>3, <1>4, <1>5

\* What ends it.
LEMMA TypeEnd ==
  ASSUME TypeInv, conf' = conf, NEW a \in Appliers,
         NotRunning(a) \/ SingRestart(a) \/ SaveRendering(a) \/ WriteOutputs(a) \/ Restart(a)
  PROVE  TypeInv'
  <1> USE SetsKept DEF TypeInv, want_vars, files_vars, unit_vars, runs_vars, awg_vars, call_vars, count_vars
  <1>1. CASE NotRunning(a)
    <2>1. CallInv'
      BY <1>1, GotoType, RaiseType, DoneType DEF NotRunning, Steps, Locked, Within, After
    <2>2. RestInv'
      BY <1>1, RestartType DEF NotRunning, RestartFailing, RestInv
    <2> QED
      BY <2>1, <2>2
  <1>2. CASE SingRestart(a)
    <2>1. CallInv'
      <3>1. CASE Goto(a, "save") /\ UNCHANGED call_vars
        BY <1>2, <3>1, GotoType DEF SingRestart, Steps, Locked, Within, After
      <3> QED
        BY <1>2, <3>1, RaiseType DEF SingRestart
    <2>2. RestInv'
      BY <1>2, RestartType DEF SingRestart, RestartFailing, RestInv
    <2> QED
      BY <2>1, <2>2
  <1>3. CASE SaveRendering(a)
    <2>1. CallInv'
      BY <1>3, GotoType, RaiseType, DoneType DEF SaveRendering, Steps, Locked, Within, After
    <2>2. RestInv'
      BY <1>3 DEF SaveRendering, RestInv, CallInv, Within, After, TryRestart, RestartFailing, DirAnew, NothingRuns, UnitSteps
    <2> QED
      BY <2>1, <2>2
  <1>4. CASE WriteOutputs(a)
    <2>1. CallInv'
      BY <1>4, GotoType, RaiseType, DoneType DEF WriteOutputs, Steps, Locked, Within, After
    <2>2. RestInv'
      BY <1>4 DEF WriteOutputs, RestInv, CallInv, Within, After, TryRestart, RestartFailing, DirAnew, NothingRuns, UnitSteps
    <2> QED
      BY <2>1, <2>2
  <1>5. CASE Restart(a)
    <2>1. CallInv'
      BY <1>5, GotoType, RaiseType, DoneType DEF Restart, Steps, Locked, Within, After
    <2>2. RestInv'
      BY <1>5, RestartType DEF Restart, RestartFailing, RestInv
    <2> QED
      BY <2>1, <2>2
  <1> QED
    BY <1>1, <1>2, <1>3, <1>4, <1>5

\* Every step of an apply keeps the types ...
LEMMA TypeApply == ASSUME TypeInv, conf' = conf, NEW a \in Appliers, Apply(a) PROVE TypeInv'
  BY TypeLock, TypePlan, TypeCalls, TypeEnd DEF Apply

-----------------------------------------------------------------------------
(* So do those of everybody else *)

\* The start script's, and systemd's.
LEMMA TypeStart ==
  ASSUME TypeInv, conf' = conf, UnitStart \/ StartScript \/ UnitDown PROVE TypeInv'
  <1> USE SetsKept DEF TypeInv, want_vars, files_vars, unit_vars, runs_vars, awg_vars, call_vars, count_vars
  <1>1. CallInv'
    BY DEF CallInv, UnitStart, StartScript, UnitDown, StartRender, StartWrite, StartArgs, StartOutputs, StartExec
  <1>2. NoSing \in Sings
    BY BoundsType
  <1>3. Now \in Renderings
    BY WantedType DEF Wanted, Appliers
  <1>4. CASE UnitStart
    BY <1>1, <1>4 DEF UnitStart, DirAnew, RestInv, UnitSteps
  <1>5. CASE StartRender
    BY <1>1, <1>3, <1>5 DEF StartRender, RestInv, UnitSteps
  <1>6. CASE StartWrite
    BY <1>1, <1>6 DEF StartWrite, RestInv, UnitSteps
  <1>7. CASE StartArgs
    BY <1>1, <1>7, RenderingType DEF StartArgs, RestInv, UnitSteps
  <1>8. CASE StartOutputs
    BY <1>1, <1>8 DEF StartOutputs, RestInv, UnitSteps
  <1>9. CASE StartExec
    BY <1>1, <1>9, RenderingType DEF StartExec, RestInv, UnitSteps
  <1>10. CASE UnitDown
    <2>1. downs' \in 0..MaxDowns
      BY <1>10, BoundsType DEF UnitDown, RestInv
    <2> QED
      BY <1>1, <1>2, <1>10, <2>1 DEF UnitDown, DirGone, NothingRuns, RestInv, UnitSteps
  <1> QED
    BY <1>4, <1>5, <1>6, <1>7, <1>8, <1>9, <1>10 DEF StartScript

\* What changes the rendering, clients, kills, and the manager between its applies.
LEMMA TypeOthers ==
  ASSUME TypeInv, conf' = conf,
         ManagerChange \/ SpoolChange \/ (\E u \in Users : Expire(u) \/ Spend(u)) \/ Tick \/ View
           \/ (\E u \in Users, ip \in Ips : Connect(u, ip)) \/ (\E a \in Appliers : Crash(a))
  PROVE  TypeInv'
  <1> USE SetsKept DEF TypeInv, want_vars, files_vars, unit_vars, runs_vars, awg_vars, call_vars, count_vars
  <1>1. CASE ManagerChange
    <2>1. CallInv'
      BY <1>1, GotoType DEF ManagerChange, Appliers, Steps, Within
    <2>2. changes' \in 0..MaxChanges
      BY <1>1, BoundsType DEF ManagerChange, RestInv
    <2>3. want' \in Renderings /\ ended' \subseteq Users /\ spent' \subseteq Users
      BY <1>1 DEF ManagerChange, RestInv, Active
    <2> QED
      BY <1>1, <2>1, <2>2, <2>3 DEF ManagerChange, RestInv
  <1>2. CASE SpoolChange
    <2>1. CallInv'
      BY <1>2, GotoType DEF SpoolChange, Appliers, Steps, Within, CallInv
    <2> QED
      BY <1>2, <2>1, BoundsType DEF SpoolChange, RestInv
  <1>3. CASE \E u \in Users : Expire(u) \/ Spend(u)
    <2>1. CallInv'
      BY <1>3 DEF Expire, Spend, CallInv
    <2> QED
      BY <1>3, <2>1, BoundsType DEF Expire, Spend, RestInv
  <1>4. CASE Tick
    <2>1. CallInv'
      BY <1>4, GotoType DEF Tick, Appliers, Steps, Within
    <2> QED
      BY <1>4, <2>1 DEF Tick, RestInv
  <1>5. CASE View
    <2>1. CallInv'
      BY <1>5, GotoType DEF View, Appliers, Steps, Within
    <2> QED
      BY <1>5, <2>1 DEF View, RestInv, ViewOf, Active
  <1>6. ASSUME NEW u \in Users, NEW ip \in Ips, Connect(u, ip) PROVE TypeInv'
    <2>1. CallInv'
      BY <1>6 DEF Connect, CallInv
    <2>2. xray.users[u] \in Creds
      BY <1>6 DEF Connect, RestInv, Served, ServedOf, Creds
    <2> QED
      BY <1>6, <2>1, <2>2 DEF Connect, RestInv
  <1>7. ASSUME NEW a \in Appliers, Crash(a) PROVE TypeInv'
    <2>1. CallInv'
      BY <1>7, RaiseType DEF Crash
    <2> QED
      BY <1>7, <2>1, BoundsType DEF Crash, RestInv
  <1> QED
    BY <1>1, <1>2, <1>3, <1>4, <1>5, <1>6, <1>7

\* ... and so does everything else that happens.
LEMMA TypeInvKept == Spec => []TypeInv
  <1>1. Init => TypeInv
    <2> SUFFICES ASSUME Init PROVE TypeInv
      OBVIOUS
    <2>1. CallInv
      BY DEF Init, CallInv, Steps, Locked, Within, After
    <2>2. RestInv
      <3>1. want \in Renderings /\ xray \in Served /\ sing \in Sings
        BY RenderingType DEF Init
      <3>2. 0 \in 0..MaxChanges /\ 0 \in 0..MaxDowns /\ 0 \in 0..MaxCrashes
        BY ApplyAssumption DEF Init, MaxChanges, MaxDowns, MaxCrashes
      <3>3. Active(want) \subseteq Users
        BY DEF Active
      <3> QED
        BY <3>1, <3>2, <3>3 DEF Init, RestInv, UnitSteps
    <2> QED
      BY <2>1, <2>2 DEF TypeInv
  <1>2. TypeInv /\ [Next]_vars => TypeInv'
    <2> SUFFICES ASSUME TypeInv, [Next]_vars PROVE TypeInv'
      OBVIOUS
    <2>1. conf' = conf
      BY ConfKept
    <2>2. CASE UNCHANGED vars
      BY <2>1, <2>2, SetsKept
      DEF TypeInv, CallInv, RestInv, vars, want_vars, files_vars, unit_vars, runs_vars, awg_vars, call_vars, count_vars
    <2>3. CASE Next
      BY <2>1, <2>3, TypeApply, TypeStart, TypeOthers DEF Next, Environment
    <2> QED
      BY <2>2, <2>3
  <1> QED
    BY <1>1, <1>2, PTL DEF Spec

\* The values that TypeOK names are all that the variables ever have.
THEOREM TypesKept == Spec => []TypeOK
  BY TypeInvKept, TypeInvOK, PTL
-----------------------------------------------------------------------------
(* AmneziaWG's peers *)

\* Between its configs and its interfaces an applier is on the way to make them the same.
PeersInv == (\A a \in Appliers : pc[a] \notin {"awgsync", "awgrestart"}) => awgRuns = awgFile

\* Unless an applier is killed or systemctl or prepare fails, the interfaces have the peers of
\* their configs whenever no apply is under way: with any number of applies at once, and whatever stops.
THEOREM PeersKept == Spec => [](crashes = 0 /\ ~RestartFails /\ ~PrepareFails => PeersAreRun)
  <1> DEFINE Inv == crashes = 0 /\ ~RestartFails /\ ~PrepareFails => PeersInv
  <1>1. Init => Inv
    BY DEF Init, PeersInv
  <1>2. TypeOK /\ Inv /\ [Next]_vars => Inv'
    <2> SUFFICES ASSUME TypeOK, Inv, [Next]_vars, crashes' = 0, ~RestartFails', ~PrepareFails'
                 PROVE  PeersInv'
      OBVIOUS
    <2> USE DEF want_vars, files_vars, unit_vars, runs_vars, awg_vars, call_vars, count_vars
    <2>1. conf' = conf /\ ~RestartFails /\ ~PrepareFails
      BY ConfKept DEF RestartFails, PrepareFails
    <2>2. pc \in [Appliers -> Steps] /\ crashes \in Nat
      BY DEF TypeOK
    <2>3. CASE \E a \in Appliers : AwgPrepare(a) \/ AwgSync(a) \/ AwgRestart(a)
      BY <2>1, <2>2, <2>3 DEF PeersInv, AwgPrepare, AwgSync, AwgRestart, Goto, AfterAwg, Raise
    <2>4. CASE \E a \in Appliers : Begin(a) \/ Open(a) \/ Flock(a) \/ NotRunning(a) \/ Load(a) \/ Render(a)
      BY <2>1, <2>2, <2>4 DEF PeersInv, Begin, Open, Flock, NotRunning, Load, Render, Goto, Raise, Done
    <2>5. CASE \E a \in Appliers : Online(a) \/ RemoveUsers(a) \/ AddUsers(a) \/ Cut(a) \/ ReplaceRules(a)
      BY <2>1, <2>2, <2>5 DEF PeersInv, Online, RemoveUsers, AddUsers, Cut, CutFrom, ReplaceRules, Call, NoCall, Goto
    <2>6. CASE \E a \in Appliers : SyncSing(a) \/ SingRestart(a) \/ SaveRendering(a) \/ WriteOutputs(a) \/ Restart(a)
      BY <2>1, <2>2, <2>6 DEF PeersInv, SyncSing, SingRestart, SaveRendering, WriteOutputs, Restart, Goto, Raise, Done
    <2>7. CASE \E a \in Appliers : Crash(a)
      BY <2>2, <2>7 DEF Crash
    <2>8. CASE ManagerChange \/ SpoolChange \/ (\E u \in Users : Expire(u) \/ Spend(u)) \/ Tick \/ View
      BY <2>1, <2>2, <2>8 DEF PeersInv, ManagerChange, SpoolChange, Expire, Spend, Tick, View, Goto
    <2>9. CASE UnitStart \/ StartScript \/ UnitDown \/ (\E u \in Users, ip \in Ips : Connect(u, ip)) \/ UNCHANGED vars
      BY <2>1, <2>2, <2>9
      DEF PeersInv, UnitStart, StartScript, UnitDown, Connect, StartRender, StartWrite, StartArgs, StartOutputs, StartExec, vars
    <2> QED
      BY <2>3, <2>4, <2>5, <2>6, <2>7, <2>8, <2>9 DEF Next, Environment, Apply
  <1>3. Inv => (crashes = 0 /\ ~RestartFails /\ ~PrepareFails => PeersAreRun)
    BY DEF PeersInv, PeersAreRun, Idle
  <1> QED
    BY <1>1, <1>2, <1>3, TypesKept, PTL DEF Spec
-----------------------------------------------------------------------------
(* rendered.json and what runs *)

\* The inbounds keep their directory, and whoever locks or waits has a lock file open.
StaysUp ==
    /\ dir # None /\ unit # "stopped"
    /\ \A a \in Appliers : pc[a] # "norun" /\ (pc[a] \in Locked \union {"lock"} => inode[a] # None)

\* The start script's files, at its steps: an apply that has loaded them before it became XRay
\* can have changed no users and no rules.
StartInv ==
    /\ unit \in {"render", "write"} => saved = None /\ ~args /\ xray = None
    /\ unit = "args" => saved = fresh /\ ~args /\ xray = None
    /\ unit \in {"outputs", "exec"} =>
          args /\ xray = None /\ saved # None /\ saved.users = fresh.users /\ saved.rules = fresh.rules
    /\ unit = "up" => args /\ saved # None /\ xray # None

Serving == {"outputs", "exec", "up"}

\* How far an apply from o to n has come with rendered.json and sing-box ...
Come(step, o, n) ==
    /\ unit \in Serving
    /\ saved = IF step = "outputs" THEN n ELSE o
    /\ sing = IF step \in {"save", "outputs"} THEN n.sing ELSE o.sing

\* ... with XRay ...
ComeUp(step, o, n) ==
    /\ xray.rules = IF step \in {"sing", "save", "outputs"} THEN n.rules ELSE o.rules
    /\ step \in {"render", "online", "rmu"} => xray.users = o.users
    /\ step = "adu" => xray.users = [u \in Users |-> IF u \in Leaving(o, n) THEN Out ELSE o.users[u]]
    /\ step \in {"cut", "rules", "sing", "save", "outputs"} => xray.users = n.users

\* ... and without it, which every call to it ends.
ComeDown(step, o, n) ==
    /\ step = "adu" => Leaving(o, n) = {}
    /\ step \in {"cut", "rules", "sing", "save", "outputs"} => n.users = o.users
    /\ step \in {"sing", "save", "outputs"} => n.rules = o.rules

RunsOf(a) ==
    pc[a] \in Within =>
       /\ Come(pc[a], old[a], new[a])
       /\ IF unit = "up" THEN ComeUp(pc[a], old[a], new[a]) ELSE ComeDown(pc[a], old[a], new[a])

\* With no apply past its load, what runs is what rendered.json says.
Between ==
    (\A a \in Appliers : pc[a] \notin Within \union {"restart"}) =>
       /\ unit \in Serving => sing = saved.sing
       /\ unit = "up" => Runs(saved)

RunInv == StaysUp /\ StartInv /\ (\A a \in Appliers : RunsOf(a)) /\ Between

\* The plan's removals and additions lead from the users of one rendering to those of the other.
LEMMA PlanReaches ==
  ASSUME NEW r \in Renderings, NEW s \in Renderings,
         NEW gone, gone = [u \in Users |-> IF u \in Leaving(r, s) THEN Out ELSE r.users[u]]
  PROVE  /\ [u \in Users |-> IF u \in Joining(r, s) /\ gone[u] = Out THEN s.users[u] ELSE gone[u]] = s.users
         /\ Leaving(r, s) = {} => gone = r.users
         /\ Joining(r, s) = {} => gone = s.users
  <1>1. r.users \in [Users -> Entries] /\ s.users \in [Users -> Entries]
    BY RenderingType
  <1>2. \A u \in Users : gone[u] = (IF r.users[u] # Out /\ s.users[u] # r.users[u] THEN Out ELSE r.users[u])
    BY DEF Leaving, Active
  <1>3. ASSUME NEW u \in Users
        PROVE  /\ (IF u \in Joining(r, s) /\ gone[u] = Out THEN s.users[u] ELSE gone[u]) = s.users[u]
               /\ Joining(r, s) = {} => gone[u] = s.users[u]
    BY <1>2 DEF Joining, Active
  <1>4. Leaving(r, s) = {} => gone = r.users
    BY <1>1
  <1> QED
    BY <1>1, <1>3, <1>4

\* One apply at a time: no two have the lock.
LEMMA OnlyOne ==
  ASSUME StaysUp, OneApply, NEW a \in Appliers, NEW b \in Appliers, pc[a] \in Locked, pc[b] \in Locked
  PROVE  a = b
  BY DEF StaysUp, OneApply, Holding

\* From load to the end, an apply is between flock and close.
LEMMA WithinLocked == Within \union {"restart", "awg", "awgsync", "awgrestart", "load"} \subseteq Locked
  BY DEF Within, Locked

\* A step that changes neither files nor what runs, by an applier on its way to the load.
LEMMA Aside ==
  ASSUME RunInv, NEW a \in Appliers, NEW step, pc \in [Appliers -> Steps],
         Goto(a, step), UNCHANGED <<saved, args, unit, fresh, xray, sing, old, new>>,
         pc[a] \notin Within \union {"restart"}, step \notin Within \union {"restart"}
  PROVE  StartInv' /\ (\A b \in Appliers : RunsOf(b)') /\ Between'
  <1>1. \A b \in Appliers : pc'[b] = IF b = a THEN step ELSE pc[b]
    BY DEF Goto
  <1>2. StartInv'
    BY DEF RunInv, StartInv
  <1>3. \A b \in Appliers : RunsOf(b)'
    BY <1>1 DEF RunInv, RunsOf, Come, ComeUp, ComeDown, Leaving, Active
  <1>4. Between'
    BY <1>1 DEF RunInv, Between, Runs
  <1> QED
    BY <1>2, <1>3, <1>4

\* Nor does one by nobody.
LEMMA UnchangedRun ==
  ASSUME RunInv, UNCHANGED <<files_vars, unit_vars, xray, sing, pc, old, new, inode>>
  PROVE  RunInv'
  BY DEF RunInv, StaysUp, StartInv, RunsOf, Come, ComeUp, ComeDown, Between, Runs, Leaving, Active, files_vars, unit_vars

\* What is known at a step that the theorems below are about.
RunStep == TypeInv /\ TypeInv' /\ RunInv /\ Steady /\ Steady' /\ Alone /\ Alone' /\ conf' = conf

\* What does not touch what runs keeps all of it.
LEMMA RunAside ==
  ASSUME RunStep,
         \/ ManagerChange \/ SpoolChange \/ (\E u \in Users : Expire(u) \/ Spend(u)) \/ Tick \/ View
         \/ \E u \in Users, ip \in Ips : Connect(u, ip)
         \/ \E a \in Appliers : Begin(a) \/ Open(a) \/ Flock(a) \/ AwgPrepare(a) \/ AwgSync(a) \/ AwgRestart(a)
  PROVE  RunInv'
  <1> USE DEF want_vars, files_vars, unit_vars, runs_vars, awg_vars, call_vars, count_vars
  <1>1. pc \in [Appliers -> Steps] /\ inode \in [Appliers -> Gens \union {None}] /\ dir \in Gens \union {None}
    BY DEF RunStep, TypeInv, CallInv, RestInv
  <1>2. StaysUp /\ ~RestartFails /\ ~PrepareFails
    BY DEF RunStep, RunInv, Steady
  <1>3. ASSUME NEW a \in Appliers, NEW step \in {"begin", "idle"}, Goto(a, step), pc[a] \in {"idle", "view"},
               UNCHANGED <<files_vars, unit_vars, runs_vars, call_vars>>
        PROVE  RunInv'
    <2>1. StaysUp'
      BY <1>1, <1>2, <1>3 DEF StaysUp, Goto, Locked
    <2>2. RunInv /\ pc[a] \notin Within \union {"restart"} /\ step \notin Within \union {"restart"}
      BY <1>3 DEF RunStep, Within
    <2>3. StartInv' /\ (\A b \in Appliers : RunsOf(b)') /\ Between'
      BY <1>1, <1>3, <2>2, Aside
    <2> QED
      BY <2>1, <2>3 DEF RunInv
  <1>4. CASE ManagerChange \/ SpoolChange \/ Tick \/ View
    BY <1>3, <1>4, UnchangedRun DEF ManagerChange, SpoolChange, Tick, View, Appliers, RunStep
  <1>5. CASE (\E u \in Users : Expire(u) \/ Spend(u)) \/ \E u \in Users, ip \in Ips : Connect(u, ip)
    BY <1>5, UnchangedRun DEF Expire, Spend, Connect, RunStep
  <1>6. ASSUME NEW a \in Appliers, Begin(a) \/ Open(a) \/ Flock(a) \/ AwgPrepare(a) \/ AwgSync(a) \/ AwgRestart(a)
        PROVE  RunInv'
    <2>1. PICK step \in {"open", "lock", "awg", "awgsync", "awgrestart", "load"} :
             /\ Goto(a, step) /\ UNCHANGED <<dir, saved, args, unit, fresh, xray, sing, old, new>>
             /\ inode' = (IF step = "lock" THEN [inode EXCEPT ![a] = dir] ELSE inode)
             /\ step \in {"awg", "awgsync", "awgrestart", "load"} => pc[a] \in Locked \union {"lock"}
             /\ pc[a] \in {"begin", "open", "lock", "awg", "awgsync", "awgrestart"}
      <3>1. CASE Begin(a) \/ Open(a)
        BY <1>1, <1>2, <3>1 DEF Begin, Open, StaysUp
      <3>2. CASE Flock(a)
        BY <1>1, <1>2, <3>2 DEF Flock
      <3>3. CASE AwgPrepare(a) \/ AwgSync(a) \/ AwgRestart(a)
        BY <1>1, <1>2, <3>3 DEF AwgPrepare, AwgSync, AwgRestart, StaysUp, AfterAwg, Locked
      <3> QED
        BY <1>6, <3>1, <3>2, <3>3
    <2>2. StaysUp'
      BY <1>1, <1>2, <2>1 DEF StaysUp, Goto, Locked
    <2>3. pc[a] \notin Within \union {"restart"} /\ step \notin Within \union {"restart"}
      BY <2>1 DEF Within
    <2>4. RunInv
      BY DEF RunStep
    <2>5. StartInv' /\ (\A b \in Appliers : RunsOf(b)') /\ Between'
      BY <1>1, <2>1, <2>3, <2>4, Aside
    <2> QED
      BY <2>2, <2>5 DEF RunInv
  <1> QED
    BY <1>4, <1>5, <1>6

\* An applier with the lock that goes on to another step, or is done.
LEMMA HolderGoes ==
  ASSUME RunStep, NEW a \in Appliers, NEW step, Goto(a, step), pc[a] \in Within \union {"load"},
         UNCHANGED <<dir, unit>>,
         step \in Within \union {"restart"} => UNCHANGED inode,
         step \notin Within \union {"restart"} => Leave(a) /\ step \in {"idle", "view"},
         StartInv', RunsOf(a)',
         step \notin Within \union {"restart"} =>
            (unit' \in Serving => sing' = saved'.sing) /\ (unit' = "up" => Runs(saved)')
  PROVE  RunInv'
  <1>1. pc \in [Appliers -> Steps] /\ inode \in [Appliers -> Gens \union {None}] /\ StaysUp /\ OneApply
    BY DEF RunStep, TypeInv, CallInv, RunInv, Alone
  <1>2. \A b \in Appliers : pc'[b] = IF b = a THEN step ELSE pc[b]
    BY <1>1 DEF Goto
  <1>3. pc[a] \in Locked /\ \A b \in Appliers \ {a} : pc[b] \notin Locked
    BY <1>1, OnlyOne, WithinLocked
  <1>4. StaysUp'
    <2>1. CASE step \in Within \union {"restart"}
      BY <1>1, <1>2, <1>3, <2>1 DEF StaysUp, Within
    <2>2. CASE step \in {"idle", "view"} /\ Leave(a)
      BY <1>1, <1>2, <1>3, <2>2 DEF StaysUp, Leave, Locked
    <2> QED
      BY <2>1, <2>2
  <1>5. \A b \in Appliers : RunsOf(b)'
    BY <1>2, <1>3, WithinLocked DEF RunsOf
  <1>6. Between'
    BY <1>2 DEF Between
  <1> QED
    BY <1>4, <1>5, <1>6 DEF RunInv
\* What the holder of the lock knows.
LEMMA HolderKnows ==
  ASSUME RunStep, NEW a \in Appliers, pc[a] \in Within \union {"load"}
  PROVE  /\ pc \in [Appliers -> Steps] /\ old \in [Appliers -> Renderings \union {None}]
         /\ new \in [Appliers -> Renderings \union {None}]
         /\ StaysUp /\ StartInv /\ RunsOf(a) /\ ~RestartFails /\ ~RestartFails'
         /\ unit \in UnitSteps /\ xray \in Served \union {None}
         /\ pc[a] \in Within => old[a] \in Renderings
         /\ pc[a] \in After => new[a] \in Renderings
         /\ pc[a] = "load" => (unit \in Serving => sing = saved.sing) /\ (unit = "up" => Runs(saved))
  <1>1. \A b \in Appliers \ {a} : pc[b] \notin Within \union {"restart"}
    BY OnlyOne, WithinLocked DEF RunStep, RunInv, Alone
  <1>2. pc[a] = "load" => (unit \in Serving => sing = saved.sing) /\ (unit = "up" => Runs(saved))
    BY <1>1 DEF RunStep, RunInv, Between, Within
  <1> QED
    BY <1>2 DEF RunStep, RunInv, TypeInv, CallInv, RestInv, Steady

\* The load and the plan.
LEMMA RunPlan ==
  ASSUME RunStep, NEW a \in Appliers, Load(a) \/ Render(a) \/ Online(a) PROVE RunInv'
  <1> USE DEF want_vars, files_vars, unit_vars, runs_vars, awg_vars, call_vars, count_vars
  <1>1. CASE Load(a)
    <2>1. PICK step \in {"restart", "render"} : Goto(a, step) /\ (step = "render" => old' = [old EXCEPT ![a] = saved] /\ args)
      BY <1>1 DEF Load
    <2>2. /\ pc[a] = "load" /\ UNCHANGED <<dir, saved, args, unit, fresh, xray, sing, new, inode>>
          /\ pc'[a] = step
      BY <1>1, <2>1, HolderKnows DEF Load, Goto
    <2>3. StartInv'
      BY <2>2, HolderKnows DEF StartInv
    <2>4. RunsOf(a)'
      <3>1. CASE step = "restart"
        BY <2>2, <3>1 DEF RunsOf, Within
      <3>2. CASE step = "render"
        <4>1. args /\ old'[a] = saved
          BY <2>1, <2>2, <3>2, HolderKnows
        <4>2. unit \in Serving /\ sing = saved.sing /\ (unit = "up" => Runs(saved))
          BY <2>2, <4>1, HolderKnows DEF StaysUp, StartInv, UnitSteps, Serving
        <4>3. Come("render", saved, new[a])' /\ (unit' = "up" => ComeUp("render", saved, new[a])')
              /\ ComeDown("render", saved, new[a])'
          BY <2>2, <4>2 DEF Come, ComeUp, ComeDown, Runs
        <4> QED
          BY <2>2, <3>2, <4>1, <4>3 DEF RunsOf, Come, ComeUp, ComeDown
      <3> QED
        BY <3>1, <3>2
    <2> QED
      BY <2>1, <2>2, <2>3, <2>4, HolderGoes DEF Within
  <1>2. CASE Render(a)
    <2>1. pc[a] = "render" /\ UNCHANGED <<dir, saved, args, unit, fresh, xray, sing>>
      BY <1>2 DEF Render
    <2>2. StartInv'
      BY <2>1, HolderKnows DEF StartInv, Within
    <2>3. CASE Goto(a, "restart") /\ UNCHANGED call_vars
      <3>1. RunsOf(a)'
        BY <2>1, <2>3, HolderKnows DEF RunsOf, Within, Goto
      <3> QED
        BY <2>1, <2>2, <2>3, <3>1, HolderGoes DEF Within
    <2>4. CASE Done(a)
      <3>1. PICK step \in {"idle", "view"} : Goto(a, step) /\ Leave(a) /\ pc'[a] = step
        BY <2>1, <2>4, HolderKnows DEF Done, Goto, Within
      <3>2. RunsOf(a)'
        BY <3>1 DEF RunsOf, Within
      <3>3. (unit' \in Serving => sing' = saved'.sing) /\ (unit' = "up" => Runs(saved)')
        BY <2>1, HolderKnows DEF RunsOf, Come, ComeUp, Within, Runs, StartInv, Served, ServedOf
      <3> QED
        BY <2>1, <2>2, <3>1, <3>2, <3>3, HolderGoes DEF Within
    <2>5. CASE Goto(a, "online") /\ UNCHANGED <<old, ips, inode>>
      <3>1. pc'[a] = "online" /\ RunsOf(a)
        BY <2>1, <2>5, HolderKnows DEF Goto, Within
      <3>2. RunsOf(a)'
        BY <2>1, <2>5, <3>1 DEF RunsOf, Come, ComeUp, ComeDown, Within
      <3> QED
        BY <2>1, <2>2, <2>5, <3>1, <3>2, HolderGoes DEF Within
    <2> QED
      BY <1>2, <2>3, <2>4, <2>5 DEF Render
  <1>3. CASE Online(a)
    <2>1. /\ pc[a] = "online" /\ UNCHANGED <<dir, saved, args, unit, fresh, xray, sing, old, new, inode>>
          /\ Goto(a, "rmu") /\ pc'[a] = "rmu"
      BY <1>3, HolderKnows DEF Online, Within, Goto
    <2>2. StartInv' /\ RunsOf(a)'
      BY <2>1, HolderKnows DEF StartInv, RunsOf, Come, ComeUp, ComeDown, Within
    <2> QED
      BY <2>1, <2>2, HolderGoes DEF Within
  <1> QED
    BY <1>1, <1>2, <1>3
\* A call to XRay that fails, or finds none, is on the way to a restart.
LEMMA RunFails ==
  ASSUME RunStep, NEW a \in Appliers, pc[a] \in Within, Goto(a, "restart"),
         UNCHANGED <<dir, saved, args, unit, fresh, inode>>, xray' = None => xray = None, unit # "up" => UNCHANGED xray
  PROVE  RunInv'
  <1>1. StartInv'
    BY HolderKnows DEF StartInv
  <1>2. pc'[a] = "restart"
    BY HolderKnows DEF Goto
  <1>3. RunsOf(a)'
    BY <1>2 DEF RunsOf, Within
  <1> QED
    BY <1>1, <1>3, HolderGoes DEF Within

\* One that works, with what the next step then finds.
LEMMA RunWorks ==
  ASSUME RunStep, NEW a \in Appliers, NEW next \in Within, pc[a] \in Within, Goto(a, next),
         UNCHANGED <<dir, saved, args, unit, fresh, sing, old, new, inode>>,
         next \notin {"save", "outputs"}, pc[a] \notin {"save", "outputs"},
         unit = "up" => xray' # None /\ ComeUp(next, old[a], new[a])',
         unit # "up" => UNCHANGED xray /\ ComeDown(next, old[a], new[a])
  PROVE  RunInv'
  <1>1. StartInv'
    BY HolderKnows DEF StartInv
  <1>2. pc'[a] = next /\ RunsOf(a)
    BY HolderKnows DEF Goto
  <1>3. RunsOf(a)'
    BY <1>2 DEF RunsOf, Come, ComeUp, ComeDown, Leaving, Active
  <1> QED
    BY <1>1, <1>3, HolderGoes

\* The calls.
LEMMA RunCalls ==
  ASSUME RunStep, NEW a \in Appliers, RemoveUsers(a) \/ AddUsers(a) \/ Cut(a) \/ ReplaceRules(a) PROVE RunInv'
  <1> DEFINE o == old[a] n == new[a] gone == [u \in Users |-> IF u \in Leaving(o, n) THEN Out ELSE o.users[u]]
  <1>1. /\ pc[a] \in {"rmu", "adu", "cut", "rules"}
        /\ UNCHANGED <<dir, saved, args, unit, fresh, sing, old, new, inode>>
    BY DEF RemoveUsers, AddUsers, Cut, CutFrom, ReplaceRules, files_vars, unit_vars, call_vars
  <1>2. o \in Renderings /\ n \in Renderings
    BY <1>1, HolderKnows DEF Within, After
  <1>3. /\ [u \in Users |-> IF u \in Joining(o, n) /\ gone[u] = Out THEN n.users[u] ELSE gone[u]] = n.users
        /\ Leaving(o, n) = {} => gone = o.users
        /\ Joining(o, n) = {} => gone = n.users
    BY <1>2, PlanReaches
  <1>4. /\ unit = "up" => ComeUp(pc[a], o, n) /\ xray \in Served /\ xray # None
        /\ unit # "up" => ComeDown(pc[a], o, n) /\ xray = None
    BY <1>1, HolderKnows DEF RunsOf, Within, StartInv, Come, Serving
  <1>5. ASSUME NEW next, NEW after, Call(a, next, after), next \in {"adu", "cut", "sing"}, xray \in Served => after \in Served,
               unit = "up" => (xray' = after => ComeUp(next, o, n)')
        PROVE  RunInv'
    <2>0. None \notin Served /\ xray \in Served \union {None}
      BY <1>1, HolderKnows, ApplyAssumption DEF RunStep, TypeInv, RestInv, Served, Within
    <2>1. CASE Goto(a, "restart") /\ (xray' = after \/ UNCHANGED xray) /\ (xray = None => UNCHANGED xray)
      BY <1>1, <1>4, <1>5, <2>0, <2>1, RunFails DEF Within
    <2>2. CASE xray # None /\ xray' = after /\ Goto(a, next)
      BY <1>1, <1>4, <1>5, <2>0, <2>2, RunWorks DEF Within
    <2> QED
      BY <1>5, <2>1, <2>2 DEF Call
  <1>6. ASSUME NEW next, Goto(a, next), UNCHANGED xray, next \in {"adu", "cut", "rules", "sing"},
               unit = "up" => ComeUp(next, o, n), unit # "up" => ComeDown(next, o, n)
        PROVE  RunInv'
    <2>1. unit = "up" => ComeUp(next, o, n)'
      BY <1>1, <1>6 DEF ComeUp, Leaving, Active
    <2> QED
      BY <1>1, <1>4, <1>6, <2>1, RunWorks DEF Within
  <1>7. CASE RemoveUsers(a)
    <2>1. CASE Leaving(o, n) = {}
      <3>1. unit = "up" => ComeUp("adu", o, n)
        BY <1>3, <1>4, <1>7, <2>1 DEF RemoveUsers, ComeUp
      <3>2. ComeDown("adu", o, n)
        BY <2>1 DEF ComeDown
      <3> QED
        BY <1>6, <1>7, <2>1, <3>1, <3>2 DEF RemoveUsers, NoCall
    <2>2. CASE Leaving(o, n) # {}
      <3> DEFINE after == [xray EXCEPT !.users = [u \in Users |-> IF u \in Leaving(o, n) THEN Out ELSE @[u]]]
      <3>1. Call(a, "adu", after)
        BY <1>7, <2>2 DEF RemoveUsers
      <3>2. unit = "up" => (xray' = after => ComeUp("adu", o, n)')
        BY <1>1, <1>4, <1>7 DEF RemoveUsers, ComeUp, Served, ServedOf, Leaving, Active
      <3>3. xray \in Served => after \in Served
        BY DEF Served, ServedOf
      <3> HIDE DEF after
      <3> QED
        BY <1>5, <3>1, <3>2, <3>3
    <2> QED
      BY <2>1, <2>2
  <1>8. CASE AddUsers(a)
    <2>1. CASE Joining(o, n) = {}
      <3>1. unit = "up" => ComeUp("cut", o, n)
        BY <1>3, <1>4, <1>8, <2>1 DEF AddUsers, ComeUp
      <3>2. unit # "up" => ComeDown("cut", o, n)
        BY <1>3, <1>4, <1>8, <2>1 DEF AddUsers, ComeDown
      <3> QED
        BY <1>6, <1>8, <2>1, <3>1, <3>2 DEF AddUsers, NoCall
    <2>2. CASE Joining(o, n) # {}
      <3> DEFINE after == [xray EXCEPT !.users =
                             [u \in Users |-> IF u \in Joining(o, n) /\ @[u] = Out THEN n.users[u] ELSE @[u]]]
      <3>1. Call(a, "cut", after)
        BY <1>8, <2>2 DEF AddUsers
      <3>2. unit = "up" => xray.users = gone /\ xray.rules = o.rules
        BY <1>4, <1>8 DEF AddUsers, ComeUp
      <3>3. unit = "up" => after.users = n.users /\ after.rules = o.rules
        BY <1>3, <1>4, <3>2 DEF Served, ServedOf
      <3>4. unit = "up" => (xray' = after => ComeUp("cut", o, n)')
        BY <1>1, <3>3 DEF ComeUp
      <3>5. xray \in Served => after \in Served
        BY <1>2, RenderingType DEF Served, ServedOf, Entries, Creds
      <3> HIDE DEF after
      <3> QED
        BY <1>5, <3>1, <3>4, <3>5
    <2> QED
      BY <2>1, <2>2
  <1>9. CASE Cut(a)
    <2>1. unit = "up" => ComeUp("rules", o, n)
      BY <1>4, <1>9 DEF Cut, ComeUp
    <2>2. unit # "up" => ComeDown("rules", o, n)
      BY <1>4, <1>9 DEF Cut, ComeDown
    <2>3. CASE Goto(a, "rules")
      BY <1>6, <1>9, <2>1, <2>2, <2>3 DEF Cut, CutFrom
    <2>4. CASE Goto(a, "restart")
      BY <1>1, <1>4, <1>9, <2>4, RunFails DEF Cut, CutFrom, Within
    <2> QED
      BY <1>9, <2>3, <2>4 DEF Cut
  <1>10. CASE ReplaceRules(a)
    <2>1. CASE o.rules = n.rules
      <3>1. unit = "up" => ComeUp("sing", o, n)
        BY <1>4, <1>10, <2>1 DEF ReplaceRules, ComeUp
      <3>2. unit # "up" => ComeDown("sing", o, n)
        BY <1>4, <1>10, <2>1 DEF ReplaceRules, ComeDown
      <3> QED
        BY <1>6, <1>10, <2>1, <3>1, <3>2 DEF ReplaceRules, NoCall
    <2>2. CASE o.rules # n.rules
      <3> DEFINE after == [xray EXCEPT !.rules = n.rules]
      <3>1. Call(a, "sing", after)
        BY <1>10, <2>2 DEF ReplaceRules
      <3>2. unit = "up" => (xray' = after => ComeUp("sing", o, n)')
        BY <1>1, <1>4, <1>10 DEF ReplaceRules, ComeUp, Served, ServedOf
      <3>3. xray \in Served => after \in Served
        BY <1>2, RenderingType DEF Served, ServedOf, Rules
      <3> HIDE DEF after
      <3> QED
        BY <1>5, <3>1, <3>2, <3>3
    <2> QED
      BY <2>1, <2>2
  <1> QED
    BY <1>7, <1>8, <1>9, <1>10
\* What follows the calls: sing-box, rendered.json, the links.
LEMMA RunEnd ==
  ASSUME RunStep, NEW a \in Appliers, SyncSing(a) \/ SaveRendering(a) \/ WriteOutputs(a) PROVE RunInv'
  <1> DEFINE o == old[a] n == new[a]
  <1> USE DEF want_vars, files_vars, unit_vars, runs_vars, awg_vars, call_vars, count_vars
  <1>1. pc[a] \in {"sing", "save", "outputs"} /\ UNCHANGED <<dir, args, unit, fresh, xray>>
    BY DEF SyncSing, SaveRendering, WriteOutputs
  <1>2. /\ o \in Renderings /\ n \in Renderings /\ None \notin Renderings
        /\ StaysUp /\ StartInv /\ Come(pc[a], o, n)
        /\ unit = "up" => ComeUp(pc[a], o, n)
        /\ unit # "up" => ComeDown(pc[a], o, n)
    BY <1>1, HolderKnows, ApplyAssumption DEF Within, After, RunsOf, RunStep, TypeInv, RestInv, Renderings
  <1>3. \A step : Goto(a, step) => pc'[a] = step
    BY <1>1, HolderKnows DEF Goto, Within
  <1>4. CASE SyncSing(a)
    <2>1. UNCHANGED <<saved, call_vars>> /\ pc[a] = "sing"
      BY <1>4 DEF SyncSing
    <2>2. StartInv'
      BY <1>1, <1>2, <2>1 DEF StartInv
    <2>3. CASE Goto(a, "restart")
      <3>1. RunsOf(a)'
        BY <1>3, <2>3 DEF RunsOf, Within
      <3> QED
        BY <1>1, <2>1, <2>2, <2>3, <3>1, HolderGoes DEF Within
    <2>4. CASE Goto(a, "save") /\ sing' = n.sing
      <3>1. Come("save", o, n)' /\ (unit' = "up" => ComeUp("save", o, n)') /\ (unit' # "up" => ComeDown("save", o, n)')
        BY <1>1, <1>2, <2>1, <2>4 DEF Come, ComeUp, ComeDown, Leaving, Active
      <3>2. RunsOf(a)'
        BY <1>3, <2>1, <2>4, <3>1 DEF RunsOf
      <3> QED
        BY <1>1, <2>1, <2>2, <2>4, <3>2, HolderGoes DEF Within
    <2>5. Goto(a, "restart") \/ (Goto(a, "save") /\ sing' = n.sing)
      <3>1. sing = o.sing
        BY <1>2, <2>1 DEF Come
      <3>2. ~Goto(a, "singrestart")
        BY <1>3 DEF RunStep, Alone
      <3> QED
        BY <1>4, <3>1, <3>2 DEF SyncSing
    <2> QED
      BY <2>3, <2>4, <2>5
  <1>5. CASE SaveRendering(a)
    <2>1. /\ pc[a] = "save" /\ saved' = n /\ UNCHANGED sing
          /\ (Goto(a, "outputs") /\ UNCHANGED call_vars) \/ Done(a)
      BY <1>2, <1>5 DEF SaveRendering, StaysUp
    <2>2. StartInv'
      BY <1>1, <1>2, <2>1 DEF StartInv, Come, ComeDown, Serving
    <2>3. CASE Goto(a, "outputs") /\ UNCHANGED call_vars
      <3>1. Come("outputs", o, n)' /\ (unit' = "up" => ComeUp("outputs", o, n)') /\ (unit' # "up" => ComeDown("outputs", o, n)')
        BY <1>1, <1>2, <2>1, <2>3 DEF Come, ComeUp, ComeDown, Leaving, Active
      <3>2. RunsOf(a)'
        BY <1>3, <2>3, <3>1 DEF RunsOf
      <3> QED
        BY <1>1, <2>1, <2>2, <2>3, <3>2, HolderGoes DEF Within
    <2>4. CASE Done(a)
      <3>1. PICK step \in {"idle", "view"} : Goto(a, step) /\ Leave(a)
        BY <2>4 DEF Done
      <3>2. RunsOf(a)'
        BY <1>3, <3>1 DEF RunsOf, Within
      <3>3. sing' = saved'.sing /\ (unit' = "up" => Runs(saved)')
        BY <1>1, <1>2, <2>1, HolderKnows DEF Come, ComeUp, Runs, StartInv, Served, ServedOf, Within
      <3> QED
        BY <1>1, <2>2, <3>1, <3>2, <3>3, HolderGoes DEF Within
    <2> QED
      BY <2>1, <2>3, <2>4
  <1>6. CASE WriteOutputs(a)
    <2>1. pc[a] = "outputs" /\ saved' = n /\ UNCHANGED sing /\ Done(a)
      BY <1>2, <1>6 DEF WriteOutputs, StaysUp, Come
    <2>2. StartInv'
      BY <1>1, <1>2, <2>1 DEF StartInv, Come
    <2>3. PICK step \in {"idle", "view"} : Goto(a, step) /\ Leave(a)
      BY <2>1 DEF Done
    <2>4. RunsOf(a)'
      BY <1>3, <2>3 DEF RunsOf, Within
    <2>5. sing' = saved'.sing /\ (unit' = "up" => Runs(saved)')
      BY <1>1, <1>2, <2>1, HolderKnows DEF Come, ComeUp, Runs, StartInv, Served, ServedOf, Within
    <2> QED
      BY <1>1, <2>1, <2>2, <2>3, <2>4, <2>5, HolderGoes DEF Within
  <1> QED
    BY <1>4, <1>5, <1>6

\* A restart of the inbounds, by the holder of the lock.
LEMMA RunRestart ==
  ASSUME RunStep, NEW a \in Appliers, Restart(a) PROVE RunInv'
  <1>1. pc[a] = "restart" /\ TryRestart /\ Done(a) /\ unit # "stopped" /\ ~RestartFails /\ StaysUp
    BY DEF Restart, RestartFailing, RunStep, RunInv, StaysUp, Steady
  <1>2. unit' = "render" /\ DirAnew /\ NothingRuns
    BY <1>1 DEF TryRestart
  <1>3. PICK step \in {"idle", "view"} : Goto(a, step) /\ Leave(a)
    BY <1>1 DEF Done
  <1>4. pc \in [Appliers -> Steps] /\ inode \in [Appliers -> Gens \union {None}]
    BY DEF RunStep, TypeInv, CallInv
  <1>5. \A b \in Appliers : pc'[b] = IF b = a THEN step ELSE pc[b]
    BY <1>3, <1>4 DEF Goto
  <1>6. StaysUp'
    BY <1>1, <1>2, <1>3, <1>4, <1>5, ApplyAssumption DEF StaysUp, DirAnew, Leave, Locked
  <1>7. StartInv'
    BY <1>2 DEF StartInv, DirAnew, NothingRuns
  <1>8. \A b \in Appliers : pc'[b] \notin Within
    <2>1. \A b \in Appliers \ {a} : pc[b] \notin Within
      BY <1>1, OnlyOne, WithinLocked DEF RunStep, Alone, Locked
    <2> QED
      BY <1>5, <2>1 DEF Within
  <1>9. (\A b \in Appliers : RunsOf(b)') /\ Between'
    BY <1>2, <1>8 DEF RunsOf, Between, Serving
  <1> QED
    BY <1>6, <1>7, <1>9 DEF RunInv

\* The start script, up to XRay.
LEMMA RunStart ==
  ASSUME RunStep, StartScript PROVE RunInv'
  <1> USE DEF want_vars, files_vars, unit_vars, runs_vars, awg_vars, call_vars, count_vars
  <1>1. StaysUp /\ StartInv /\ Between /\ (\A a \in Appliers : RunsOf(a)) /\ UNCHANGED <<pc, old, new, inode>>
    BY DEF RunStep, RunInv, StartScript, StartRender, StartWrite, StartArgs, StartOutputs, StartExec
  <1>2. StaysUp'
    BY <1>1 DEF StartScript, StartRender, StartWrite, StartArgs, StartOutputs, StartExec, StaysUp
  <1>3. /\ None \notin Renderings /\ None \notin Served
        /\ unit \in {"write", "args", "outputs", "exec"} => fresh \in Renderings
    BY ApplyAssumption DEF RunStep, TypeInv, RestInv, Renderings, Served
  <1>4. CASE StartRender \/ StartWrite \/ StartArgs
    <2>1. unit \notin Serving /\ unit' # "up"
      BY <1>4 DEF StartRender, StartWrite, StartArgs, Serving
    <2>2. \A a \in Appliers : pc[a] \notin Within
      BY <1>1, <2>1 DEF RunsOf, Come
    <2>3. StartInv'
      BY <1>1, <1>3, <1>4 DEF StartInv, StartRender, StartWrite, StartArgs
    <2>4. Between'
      BY <1>1, <1>4, <2>1 DEF Between, StartInv, StartRender, StartWrite, StartArgs, Serving
    <2> QED
      BY <1>1, <1>2, <2>2, <2>3, <2>4 DEF RunInv, RunsOf
  <1>5. CASE StartOutputs
    <2>1. unit = "outputs" /\ unit' = "exec" /\ UNCHANGED <<saved, args, fresh, xray, sing>>
      BY <1>5 DEF StartOutputs
    <2>2. StartInv' /\ Between'
      BY <1>1, <2>1 DEF StartInv, Between, Serving
    <2>3. \A a \in Appliers : RunsOf(a)'
      BY <1>1, <2>1 DEF RunsOf, Come, ComeDown, Serving, Leaving, Active
    <2> QED
      BY <1>2, <2>2, <2>3 DEF RunInv
  <1>6. CASE StartExec
    <2>1. /\ unit = "exec" /\ unit' = "up" /\ UNCHANGED <<saved, args, sing>>
          /\ xray' = [users |-> saved.users, rules |-> saved.rules]
      BY <1>1, <1>6 DEF StartExec, StartInv
    <2>2. StartInv'
      <3>1. fresh \in Renderings
        BY <2>1 DEF RunStep, TypeInv, RestInv
      <3>2. xray' \in Served
        BY <1>1, <2>1, <3>1, RenderingType DEF StartInv
      <3> QED
        BY <1>1, <1>3, <2>1, <3>2 DEF StartInv
    <2>3. Between'
      BY <1>1, <2>1 DEF Between, Serving, Runs
    <2>4. ASSUME NEW a \in Appliers PROVE RunsOf(a)'
      <3> DEFINE o == old[a] n == new[a]
      <3>1. pc[a] \in Within => Come(pc[a], o, n) /\ ComeDown(pc[a], o, n) /\ o \in Renderings
        BY <1>1, <2>1 DEF RunsOf, RunStep, TypeInv, CallInv
      <3>2. pc[a] \in Within /\ Leaving(o, n) = {} => [u \in Users |-> IF u \in Leaving(o, n) THEN Out ELSE o.users[u]] = o.users
        BY <3>1, RenderingType
      <3>3. pc[a] \in Within => ComeUp(pc[a], o, n)'
        BY <1>1, <2>1, <3>1, <3>2 DEF ComeUp, ComeDown, Come, Leaving, Active, Within
      <3>4. pc[a] \in Within => Come(pc[a], o, n)'
        BY <1>1, <2>1, <3>1 DEF Come, Serving
      <3> QED
        BY <1>1, <2>1, <3>3, <3>4 DEF RunsOf
    <2> QED
      BY <1>2, <2>2, <2>3, <2>4 DEF RunInv
  <1> QED
    BY <1>4, <1>5, <1>6 DEF StartScript

\* Any step that the theorems are about keeps RunInv.
LEMMA RunNext ==
  ASSUME RunStep, [Next]_vars PROVE RunInv'
  <1>1. CASE UNCHANGED vars
    BY <1>1, UnchangedRun DEF RunStep, vars, files_vars, unit_vars, runs_vars, call_vars
  <1>2. downs \in Nat /\ crashes \in Nat /\ downs' = 0 /\ crashes' = 0 /\ ~RestartFails
    BY DEF RunStep, TypeInv, RestInv, Steady
  <1>3. CASE UnitDown \/ (\E a \in Appliers : Crash(a)) \/ UnitStart
    BY <1>2, <1>3 DEF UnitDown, Crash, UnitStart, RunStep, RunInv, StaysUp
  <1>4. CASE \E a \in Appliers : NotRunning(a) \/ SingRestart(a)
    BY <1>4 DEF NotRunning, SingRestart, RunStep, RunInv, StaysUp, Alone
  <1>5. CASE \E a \in Appliers : Load(a) \/ Render(a) \/ Online(a)
    BY <1>5, RunPlan
  <1>6. CASE \E a \in Appliers : RemoveUsers(a) \/ AddUsers(a) \/ Cut(a) \/ ReplaceRules(a)
    BY <1>6, RunCalls
  <1>7. CASE \E a \in Appliers : SyncSing(a) \/ SaveRendering(a) \/ WriteOutputs(a)
    BY <1>7, RunEnd
  <1>8. CASE \E a \in Appliers : Restart(a)
    BY <1>8, RunRestart
  <1>9. CASE StartScript
    BY <1>9, RunStart
  <1>10. CASE \/ ManagerChange \/ SpoolChange \/ (\E u \in Users : Expire(u) \/ Spend(u)) \/ Tick \/ View
              \/ \E u \in Users, ip \in Ips : Connect(u, ip)
              \/ \E a \in Appliers : Begin(a) \/ Open(a) \/ Flock(a) \/ AwgPrepare(a) \/ AwgSync(a) \/ AwgRestart(a)
    BY <1>10, RunAside
  <1> QED
    BY <1>1, <1>3, <1>4, <1>5, <1>6, <1>7, <1>8, <1>9, <1>10 DEF Next, Environment, Apply

\* It is there as long as the inbounds are Steady and the appliers Alone.
LEMMA RunKept == Spec /\ []Alone => [](Steady => RunInv)
  <1>1. Init => RunInv
    <2> SUFFICES ASSUME Init PROVE RunInv
      OBVIOUS
    <2>1. want \in Renderings /\ None \notin Renderings /\ None \notin Gens
      BY ApplyAssumption DEF Init, Renderings
    <2>2. [users |-> want.users, rules |-> want.rules] # None
      BY <2>1, RenderingType, ApplyAssumption DEF Init, Served
    <2> QED
      BY <2>1, <2>2 DEF Init, RunInv, StaysUp, StartInv, RunsOf, Between, Within, Locked, Runs
  <1>2. TypeInv /\ TypeInv' /\ Alone /\ Alone' /\ (Steady => RunInv) /\ [Next]_vars => (Steady => RunInv)'
    <2> SUFFICES ASSUME TypeInv, TypeInv', Alone, Alone', Steady => RunInv, [Next]_vars, Steady'
                 PROVE  RunInv'
      OBVIOUS
    <2>1. conf' = conf
      BY ConfKept
    <2>2. Steady
      BY <2>1, StepsCount DEF Steady, RestartFails, PrepareFails, TypeInv, RestInv
    <2> QED
      BY <2>1, <2>2, RunNext DEF RunStep
  <1> QED
    BY <1>1, <1>2, TypeInvKept, PTL DEF Spec

\* rendered.json is what the inbounds run whenever no apply holds the lock, however many changes,
\* failing calls and restarts there were: what can make it wrong is a stop, a kill, a systemctl
\* or a prepare that fails, two applies at a time or sing-box coming and going, and nothing else.
THEOREM SavedKept == Spec /\ []Alone => []SteadySaved
  <1>1. TypeInv /\ (Steady => RunInv) => SteadySaved
    <2> SUFFICES ASSUME TypeInv, RunInv, unit = "up", \A a \in Appliers : ~Holding(a)
                 PROVE  saved # None /\ Runs(saved)
      BY DEF SteadySaved, SavedIsRun
    <2>1. \A a \in Appliers : pc[a] \notin Within \union {"restart"}
      BY WithinLocked DEF Holding, RunInv, StaysUp
    <2> QED
      BY <2>1 DEF RunInv, Between, StartInv
  <1> QED
    BY <1>1, RunKept, TypeInvKept, PTL
-----------------------------------------------------------------------------
(* Who is cut *)

Later == {"rules", "sing", "save", "outputs"}

\* What an applier knows of whom it cut stays, or is what its cut makes of it.
Stays(a) == UNCHANGED <<old[a], new[a]>> /\ ((pc[a] \in Later /\ UNCHANGED ips[a]) \/ Cut(a))

\* What an applier knows at the steps after its cut stays while it is there, and only a cut and
\* a client that connects add to what SeenAreCut is about.
LEMMA LaterKept ==
  ASSUME RunStep, [Next]_vars
  PROVE  /\ conns' \subseteq conns \/ \E u \in Users, ip \in Ips : Connect(u, ip)
         /\ \A a \in Appliers :
               pc'[a] \in Later => Stays(a)
  <1> USE DEF want_vars, files_vars, unit_vars, runs_vars, awg_vars, call_vars, count_vars
  <1>1. /\ pc \in [Appliers -> Steps] /\ old \in [Appliers -> Renderings \union {None}]
        /\ new \in [Appliers -> Renderings \union {None}] /\ ips \in [Appliers -> SUBSET Ips]
    BY DEF RunStep, TypeInv, CallInv
  <1>2. ASSUME NEW a \in Appliers, NEW step, Goto(a, step), step \notin Later,
               \A b \in Appliers \ {a} : UNCHANGED <<old[b], new[b], ips[b]>>
        PROVE  \A b \in Appliers :
                  pc'[b] \in Later => Stays(b)
    BY <1>1, <1>2 DEF Goto, Stays
  <1>3. ASSUME NEW a \in Appliers, Leave(a)
        PROVE  \A b \in Appliers \ {a} : UNCHANGED <<old[b], new[b], ips[b]>>
    BY <1>1, <1>3 DEF Leave
  <1>4. TryRestart => conns' \subseteq conns
    BY DEF TryRestart, NothingRuns
  <1>5. CASE \E a \in Appliers : Begin(a) \/ Flock(a) \/ AwgPrepare(a) \/ AwgSync(a)
    <2>1. ~PrepareFails
      BY DEF RunStep, Steady
    <2> QED
      BY <1>2, <1>5, <2>1 DEF Begin, Flock, AwgPrepare, AwgSync, AfterAwg, Later
  <1>6. CASE \E a \in Appliers : Open(a) \/ AwgRestart(a) \/ NotRunning(a) \/ Restart(a) \/ Crash(a)
    BY <1>2, <1>3, <1>4, <1>6
    DEF Open, AwgRestart, NotRunning, Restart, Crash, RestartFailing, AfterAwg, Raise, Done, Later
  <1>7. ASSUME NEW a \in Appliers, Load(a) \/ Render(a) \/ Online(a)
        PROVE  conns' \subseteq conns /\ \A b \in Appliers :
                  pc'[b] \in Later => Stays(b)
    <2>1. conns' = conns /\ \A b \in Appliers \ {a} : UNCHANGED <<old[b], new[b], ips[b]>>
      BY <1>1, <1>3, <1>7 DEF Load, Render, Online, Done
    <2>2. \E step : Goto(a, step) /\ step \notin Later
      BY <1>7 DEF Load, Render, Online, Done, Later
    <2> QED
      BY <1>2, <2>1, <2>2
  <1>8. CASE \E a \in Appliers : RemoveUsers(a) \/ AddUsers(a) \/ ReplaceRules(a) \/ SyncSing(a)
    BY <1>1, <1>8 DEF RemoveUsers, AddUsers, ReplaceRules, SyncSing, Call, NoCall, Goto, Later, Stays
  <1>9. ASSUME NEW a \in Appliers, SaveRendering(a) \/ WriteOutputs(a)
        PROVE  conns' \subseteq conns /\ \A b \in Appliers :
                  pc'[b] \in Later => Stays(b)
    <2>1. conns' = conns /\ \A b \in Appliers \ {a} : UNCHANGED <<old[b], new[b], ips[b]>>
      BY <1>3, <1>9 DEF SaveRendering, WriteOutputs, Raise, Done
    <2>2. CASE Raise(a) \/ Done(a)
      BY <1>2, <2>1, <2>2 DEF Raise, Done, Later
    <2>3. CASE pc[a] = "save" /\ Goto(a, "outputs") /\ UNCHANGED call_vars
      BY <1>1, <2>1, <2>3 DEF Goto, Later, Stays
    <2> QED
      BY <1>9, <2>1, <2>2, <2>3 DEF SaveRendering, WriteOutputs
  <1>10. CASE \E a \in Appliers : SingRestart(a)
    BY <1>10 DEF SingRestart, RunStep, Alone
  <1>11. CASE ManagerChange \/ SpoolChange \/ Tick \/ View
    <2>1. \E a \in Appliers : \E step : step \notin Later /\ (Goto(a, step) \/ UNCHANGED pc)
      BY <1>11 DEF ManagerChange, SpoolChange, Tick, View, Appliers, Later
    <2>2. UNCHANGED <<old, new, ips, conns>>
      BY <1>11 DEF ManagerChange, SpoolChange, Tick, View
    <2> QED
      BY <1>1, <2>1, <2>2 DEF Goto, Stays
  <1>12. CASE \/ (\E u \in Users : Expire(u) \/ Spend(u)) \/ UnitStart \/ StartScript \/ UnitDown \/ UNCHANGED vars
              \/ \E u \in Users, ip \in Ips : Connect(u, ip)
    BY <1>12 DEF Expire, Spend, UnitStart, StartScript, UnitDown, Connect, StartRender, StartWrite, StartArgs,
       StartOutputs, StartExec, NothingRuns, vars, Stays
  <1>13. CASE \E a \in Appliers : Cut(a)
    <2>1. PICK a \in Appliers : Cut(a)
      BY <1>13
    <2>2. PICK closed \in SUBSET ips[a], step \in {"rules", "restart"} : CutFrom(a, closed) /\ Goto(a, step)
      BY <2>1 DEF Cut
    <2>3. conns' \subseteq conns /\ \A b \in Appliers : UNCHANGED <<old[b], new[b]>> /\ (b # a => UNCHANGED <<pc[b], ips[b]>>)
      BY <1>1, <2>2 DEF CutFrom, Goto
    <2> QED
      BY <2>1, <2>3 DEF Stays
  <1> QED
    BY <1>13, <1>5, <1>6, <1>7, <1>8, <1>9, <1>10, <1>11, <1>12 DEF Next, Environment, Apply

\* Those whom an apply found connected have, from every address that ss and nft did close, no
\* connection with the entry that went once the cut is through, however many clients connect at
\* any step: from the removal on, XRay takes them with their new entry or not at all.  Where
\* neither tool fails, that is every address they were found at.
THEOREM SeenKept == Spec /\ []Alone => [](Steady => SeenAreCut)
  <1> DEFINE Inv == Steady => SeenAreCut
  <1>1. Init => Inv
    BY DEF Init, SeenAreCut
  <1>2. RunStep /\ SeenAreCut /\ [Next]_vars => SeenAreCut'
    <2> SUFFICES ASSUME RunStep, SeenAreCut, [Next]_vars, NEW a \in Appliers, pc'[a] \in Later, NEW c \in conns',
                        c[1] \in Leaving(old'[a], new'[a]), c[3] \in ips'[a]
                 PROVE  c[2] # old'[a].users[c[1]]
      BY DEF SeenAreCut, Later, Leaving, Active
    <2>1. UNCHANGED <<old[a], new[a]>> /\ ((pc[a] \in Later /\ UNCHANGED ips[a]) \/ Cut(a))
      BY LaterKept DEF Stays
    <2>2. CASE Cut(a)
      <3>1. PICK closed \in SUBSET ips[a] : CutFrom(a, closed)
        BY <2>2 DEF Cut
      <3>2. ips'[a] = closed /\ conns' = {d \in conns : d[3] \notin closed}
        BY <3>1 DEF CutFrom, RunStep, TypeInv, CallInv
      <3> QED
        BY <3>2
    <2>3. CASE pc[a] \in Later /\ UNCHANGED ips[a] /\ c \in conns
      BY <2>1, <2>3 DEF SeenAreCut, Later
    <2>4. CASE pc[a] \in Later /\ UNCHANGED ips[a] /\ \E u \in Users, ip \in Ips : Connect(u, ip)
      <3>1. CASE c \in conns
        BY <2>3, <2>4, <3>1
      <3>2. CASE c \notin conns
        <4>1. PICK u \in Users : xray # None /\ c[1] = u /\ c[2] = xray.users[u]
          BY <2>4, <3>2 DEF Connect
        <4>2. unit = "up"
          BY <4>1 DEF RunStep, RunInv, StaysUp, StartInv, TypeInv, RestInv, UnitSteps
        <4>3. xray.users = new[a].users
          BY <2>4, <4>2 DEF RunStep, RunInv, RunsOf, ComeUp, Within, Later
        <4> QED
          BY <2>1, <4>1, <4>3 DEF Leaving, Active
      <3> QED
        BY <3>1, <3>2
    <2> QED
      BY <2>1, <2>2, <2>3, <2>4, LaterKept
  <1>3. TypeInv /\ TypeInv' /\ Alone /\ Alone' /\ (Steady => RunInv) /\ Inv /\ [Next]_vars => Inv'
    <2> SUFFICES ASSUME TypeInv, TypeInv', Alone, Alone', Steady => RunInv, Inv, [Next]_vars, Steady' PROVE SeenAreCut'
      OBVIOUS
    <2>1. conf' = conf
      BY ConfKept
    <2>2. Steady
      BY <2>1, StepsCount DEF Steady, RestartFails, PrepareFails, TypeInv, RestInv
    <2> QED
      BY <1>2, <2>1, <2>2 DEF RunStep
  <1> QED
    BY <1>1, <1>3, RunKept, TypeInvKept, PTL DEF Spec
-----------------------------------------------------------------------------
(* The links *)

\* What an applier works from at one step, it has from the step before, but for what its load and
\* its plan bring.
Carries(a) ==
    pc'[a] \in Within =>
       \/ Load(a) \/ Render(a)
       \/ /\ pc[a] \in Within /\ UNCHANGED <<old[a], due[a]>>
          /\ pc'[a] \in After => pc[a] \in After /\ UNCHANGED new[a]
          /\ pc'[a] = "outputs" => pc[a] = "outputs" \/ SaveRendering(a)

\* What the outputs are written from stays behind whoever is past them.
LEMMA PastKept ==
  ASSUME RunStep, [Next]_vars
  PROVE  /\ \A a \in Appliers : Carries(a)
         /\ \/ UNCHANGED <<saved, pending, outputs>> \/ StartScript
            \/ \E a \in Appliers : SaveRendering(a) \/ WriteOutputs(a) \/ Restart(a)
         /\ UNCHANGED <<unit, fresh>> \/ StartScript \/ \E a \in Appliers : Restart(a)
         /\ \A a \in Appliers : pc[a] = "outputs" => pc'[a] = "outputs" \/ WriteOutputs(a)
  <1> USE DEF want_vars, files_vars, unit_vars, runs_vars, awg_vars, call_vars, count_vars
  <1>1. /\ pc \in [Appliers -> Steps] /\ old \in [Appliers -> Renderings \union {None}]
        /\ new \in [Appliers -> Renderings \union {None}] /\ due \in [Appliers -> BOOLEAN]
    BY DEF RunStep, TypeInv, CallInv
  <1>2. downs \in Nat /\ crashes \in Nat /\ downs' = 0 /\ crashes' = 0 /\ StaysUp
    BY DEF RunStep, TypeInv, RestInv, RunInv, Steady
  <1>3. ASSUME NEW a \in Appliers, NEW step, Goto(a, step), pc[a] # "outputs" \/ WriteOutputs(a), step \notin Within,
               UNCHANGED <<old, new, due>> \/ Leave(a)
        PROVE  /\ \A b \in Appliers : Carries(b)
               /\ \A b \in Appliers : pc[b] = "outputs" => pc'[b] = "outputs" \/ WriteOutputs(b)
    <2>1. \A b \in Appliers : pc'[b] = IF b = a THEN step ELSE pc[b]
      BY <1>1, <1>3 DEF Goto
    <2>2. \A b \in Appliers \ {a} : UNCHANGED <<old[b], new[b], due[b]>>
      BY <1>1, <1>3 DEF Leave
    <2> QED
      BY <1>3, <2>1, <2>2 DEF Carries
  <1>4. CASE \E a \in Appliers : Begin(a) \/ Open(a) \/ Flock(a) \/ AwgPrepare(a) \/ AwgSync(a) \/ AwgRestart(a)
    BY <1>3, <1>4 DEF Begin, Open, Flock, AwgPrepare, AwgSync, AwgRestart, AfterAwg, Raise, Within
  <1>5. CASE \E a \in Appliers : Restart(a)
    BY <1>3, <1>5 DEF Restart, RestartFailing, Raise, Done, Within
  <1>6. CASE \/ \E a \in Appliers : Crash(a) \/ NotRunning(a) \/ SingRestart(a)
             \/ UnitDown \/ UnitStart
    BY <1>2, <1>6 DEF Crash, NotRunning, SingRestart, UnitDown, UnitStart, StaysUp, RunStep, Alone
  <1>7. ASSUME NEW a \in Appliers, Load(a) \/ Render(a)
        PROVE  (\A b \in Appliers : Carries(b)) /\ UNCHANGED <<saved, pending, outputs, unit, fresh>>
                 /\ (\A b \in Appliers : pc[b] = "outputs" => pc'[b] = "outputs")
    <2>1. \E step : Goto(a, step)
      BY <1>7 DEF Load, Render, Done
    <2>2. \A b \in Appliers \ {a} : UNCHANGED <<old[b], new[b], due[b]>>
      BY <1>1, <1>7 DEF Load, Render, Done, Leave
    <2>3. \A b \in Appliers \ {a} : pc'[b] = pc[b]
      BY <1>1, <2>1 DEF Goto
    <2>4. pc[a] # "outputs" /\ UNCHANGED <<saved, pending, outputs, unit, fresh>>
      BY <1>7 DEF Load, Render
    <2> QED
      BY <1>7, <2>2, <2>3, <2>4 DEF Carries
  <1>8. CASE \E a \in Appliers : Online(a) \/ RemoveUsers(a) \/ AddUsers(a) \/ Cut(a) \/ ReplaceRules(a) \/ SyncSing(a)
    <2>1. PICK a \in Appliers, step \in Within \union {"restart"} :
             /\ Goto(a, step) /\ UNCHANGED <<old, new, due, saved, pending, outputs, unit, fresh>>
             /\ pc[a] \in After \ {"outputs"} /\ step \notin {"render", "outputs"}
      BY <1>8 DEF Online, RemoveUsers, AddUsers, Cut, CutFrom, ReplaceRules, SyncSing, Call, NoCall, After, Within
    <2>2. \A b \in Appliers : pc'[b] = IF b = a THEN step ELSE pc[b]
      BY <1>1, <2>1 DEF Goto
    <2> QED
      BY <2>1, <2>2 DEF Carries, After
  <1>9. ASSUME NEW a \in Appliers, SaveRendering(a) \/ WriteOutputs(a)
        PROVE  (\A b \in Appliers : Carries(b)) /\ UNCHANGED <<unit, fresh>>
                 /\ (\A b \in Appliers : pc[b] = "outputs" => pc'[b] = "outputs" \/ WriteOutputs(b))
    <2>1. UNCHANGED <<unit, fresh>> /\ pc[a] \in {"save", "outputs"} /\ (pc[a] = "outputs" => WriteOutputs(a))
      BY <1>9 DEF SaveRendering, WriteOutputs
    <2>2. CASE Raise(a) \/ Done(a)
      BY <1>3, <2>1, <2>2 DEF Raise, Done, Within
    <2>3. CASE SaveRendering(a) /\ Goto(a, "outputs") /\ UNCHANGED call_vars
      <3>1. \A b \in Appliers : pc'[b] = IF b = a THEN "outputs" ELSE pc[b]
        BY <1>1, <2>3 DEF Goto
      <3> QED
        BY <2>1, <2>3, <3>1 DEF Carries, After, Within
    <2> QED
      BY <1>9, <2>1, <2>2, <2>3 DEF SaveRendering, WriteOutputs
  <1>10. CASE ManagerChange \/ SpoolChange \/ Tick \/ View
    <2>1. UNCHANGED <<old, new, due, saved, pending, outputs, unit, fresh>>
      BY <1>10 DEF ManagerChange, SpoolChange, Tick, View
    <2>2. CASE \E a \in Appliers, step \in {"begin", "idle"} : Goto(a, step) /\ pc[a] # "outputs"
      BY <1>3, <2>1, <2>2 DEF Within
    <2>3. CASE UNCHANGED pc
      BY <2>1, <2>3 DEF Carries
    <2> QED
      BY <1>10, <2>2, <2>3 DEF ManagerChange, SpoolChange, Tick, View, Appliers
  <1>11. CASE \/ (\E u \in Users : Expire(u) \/ Spend(u)) \/ StartScript \/ UNCHANGED vars
              \/ \E u \in Users, ip \in Ips : Connect(u, ip)
    BY <1>11 DEF Expire, Spend, StartScript, Connect, StartRender, StartWrite, StartArgs, StartOutputs, StartExec,
       vars, Carries
  <1> QED
    BY <1>4, <1>5, <1>6, <1>7, <1>8, <1>9, <1>10, <1>11 DEF Next, Environment, Apply

\* The links written last are those of rendered.json, or said to be due, or on the way: an apply
\* that does not write them has found nothing new in them.
LinksInv ==
    /\ unit = "args" => ~pending
    /\ unit = "outputs" => ~pending /\ saved = fresh /\ \A a \in Appliers : pc[a] # "outputs"
    /\ unit \in {"exec", "up"} /\ (\A a \in Appliers : pc[a] # "outputs") =>
          pending \/ (outputs # None /\ Links(outputs) = Links(saved))
    /\ \A a \in Appliers : /\ pc[a] \in Within \ {"outputs"} => due[a] \/ ~pending
                           /\ pc[a] \in After => due[a] \/ Links(new[a]) = Links(old[a])

\* A step keeps what is known of the links, as long as nobody saves over a start script.
LEMMA LinksNext ==
  ASSUME RunStep, Calm, LinksInv, [Next]_vars PROVE LinksInv'
  <1> USE DEF want_vars, files_vars, unit_vars, runs_vars, awg_vars, call_vars, count_vars
  <1>0. /\ pc \in [Appliers -> Steps] /\ old \in [Appliers -> Renderings \union {None}]
        /\ new \in [Appliers -> Renderings \union {None}] /\ due \in [Appliers -> BOOLEAN]
        /\ StaysUp /\ StartInv /\ unit \in UnitSteps /\ pending \in BOOLEAN
        /\ None \notin Renderings
        /\ unit \in {"write", "args", "outputs", "exec"} => fresh \in Renderings
    BY ApplyAssumption DEF RunStep, TypeInv, CallInv, RestInv, RunInv, Renderings
  <1>1. ASSUME UNCHANGED <<unit, fresh, saved, pending, outputs>>,
               \A a \in Appliers : Carries(a) /\ ~SaveRendering(a) /\ ~WriteOutputs(a),
               \A a \in Appliers : pc[a] = "outputs" => pc'[a] = "outputs"
        PROVE  LinksInv'
    <2>1. ASSUME NEW a \in Appliers, pc'[a] \in Within \ {"outputs"} PROVE due'[a] \/ ~pending'
      <3>1. CASE Load(a)
        <4>1. pc'[a] = "restart" \/ due'[a] = pending
          BY <1>0, <3>1 DEF Load, Goto
        <4>2. due'[a] = pending'
          BY <1>1, <2>1, <4>1 DEF Within
        <4> QED
          BY <4>2
      <3>2. CASE Render(a)
        <4>1. pc[a] = "render" /\ (due[a] \/ ~pending)
          BY <3>2 DEF Render, LinksInv, Within
        <4>2. due'[a] = due[a] \/ due'[a] = (due[a] \/ Links(Wanted(a)) # Links(old[a])) \/ pc'[a] \in {"idle", "view"}
          BY <1>0, <3>2 DEF Render, Done, Goto
        <4> QED
          BY <1>1, <2>1, <4>1, <4>2 DEF Within
      <3>3. CASE pc[a] \in Within \ {"outputs"} /\ UNCHANGED due[a]
        BY <1>1, <3>3 DEF LinksInv
      <3> QED
        BY <1>1, <2>1, <3>1, <3>2, <3>3 DEF Carries
    <2>2. ASSUME NEW a \in Appliers, pc'[a] \in After PROVE due'[a] \/ Links(new'[a]) = Links(old'[a])
      <3>1. CASE Load(a)
        BY <1>0, <2>2, <3>1 DEF Load, Goto, After, Within
      <3>2. CASE Render(a)
        <4>1. /\ new'[a] = Wanted(a) /\ old'[a] = old[a]
              /\ due'[a] = (due[a] \/ Links(Wanted(a)) # Links(old[a]))
          BY <1>0, <2>2, <3>2 DEF Render, Done, Goto, After, Within
        <4> QED
          BY <4>1 DEF Links
      <3>3. CASE pc[a] \in After /\ UNCHANGED <<due[a], old[a], new[a]>>
        BY <3>3 DEF LinksInv, Links
      <3> QED
        BY <1>1, <2>2, <3>1, <3>2, <3>3 DEF Carries, After
    <2>3. \A a \in Appliers : pc'[a] = "outputs" <=> pc[a] = "outputs"
      BY <1>0, <1>1 DEF Carries, Load, Render, Goto, Done, Within
    <2> QED
      BY <1>1, <2>1, <2>2, <2>3 DEF LinksInv, Links
  <1>2. CASE StartScript
    <2>1. UNCHANGED <<pc, old, new, due>> /\ (unit \notin Serving => \A a \in Appliers : pc[a] \notin Within)
      BY <1>2 DEF StartScript, StartRender, StartWrite, StartArgs, StartOutputs, StartExec, RunStep, RunInv, RunsOf, Come
    <2>2. CASE StartRender \/ StartWrite \/ StartArgs
      BY <1>0, <2>1, <2>2 DEF StartRender, StartWrite, StartArgs, LinksInv, StartInv, Serving, Within, After
    <2>3. CASE StartOutputs
      BY <1>0, <2>1, <2>3 DEF StartOutputs, LinksInv, Links
    <2>4. CASE StartExec
      BY <1>0, <2>1, <2>4 DEF StartExec, LinksInv, Links
    <2> QED
      BY <1>2, <2>2, <2>3, <2>4 DEF StartScript
  <1>3. ASSUME NEW a \in Appliers, SaveRendering(a) \/ WriteOutputs(a) PROVE LinksInv'
    <2>1. \A b \in Appliers \ {a} : pc[b] \notin Within /\ pc'[b] \notin Within
      <3>1. pc[a] \in Within
        BY <1>3 DEF SaveRendering, WriteOutputs, Within
      <3>2. \A b \in Appliers \ {a} : pc[b] \notin Within
        BY <3>1, OnlyOne, WithinLocked DEF RunStep, RunInv, Alone
      <3>3. \A b \in Appliers \ {a} : pc'[b] = pc[b]
        BY <1>0, <1>3 DEF SaveRendering, WriteOutputs, Goto, Raise, Done
      <3> QED
        BY <3>2, <3>3
    <2>2. CASE SaveRendering(a)
      <3>1. /\ saved' = new[a] /\ ~pending' /\ UNCHANGED <<unit, fresh, outputs>> /\ pc[a] = "save"
            /\ \/ Goto(a, "outputs") /\ due[a] /\ UNCHANGED due
               \/ Done(a) /\ ~due[a]
        BY <1>0, <2>2 DEF SaveRendering, StaysUp
      <3>2. unit \in {"exec", "up"} /\ saved = old[a]
        BY <3>1 DEF Calm, RunStep, RunInv, RunsOf, Come, Within, Serving
      <3>3. CASE Goto(a, "outputs") /\ due[a] /\ UNCHANGED due
        BY <1>0, <2>1, <3>1, <3>2, <3>3 DEF LinksInv, Goto, Within, After
      <3>4. CASE Done(a) /\ ~due[a]
        <4>1. pc'[a] \in {"idle", "view"}
          BY <1>0, <3>4 DEF Done, Goto
        <4>2. ~pending /\ Links(new[a]) = Links(old[a])
          BY <3>1, <3>4 DEF LinksInv, Within, After
        <4>3. \A b \in Appliers : pc[b] # "outputs"
          BY <2>1, <3>1 DEF Within
        <4>4. outputs # None /\ Links(outputs) = Links(saved)
          BY <3>2, <4>2, <4>3 DEF LinksInv
        <4>5. outputs' # None /\ Links(outputs)' = Links(saved)'
          BY <3>1, <3>2, <4>2, <4>4 DEF Links
        <4> QED
          BY <2>1, <3>1, <3>2, <4>1, <4>5 DEF LinksInv, Within, After
      <3> QED
        BY <3>1, <3>3, <3>4
    <2>3. CASE WriteOutputs(a)
      <3>1. /\ pc[a] = "outputs" /\ UNCHANGED <<unit, fresh>> /\ pc'[a] \in {"idle", "view"}
            /\ (saved # None /\ outputs' = saved /\ saved' = saved) \/ pending'
        BY <1>0, <2>3 DEF WriteOutputs, StaysUp, Done, Goto
      <3>2. unit \in {"exec", "up"}
        BY <3>1, HolderKnows DEF LinksInv, RunsOf, Come, Within, Serving
      <3>3. pending' \/ (outputs' # None /\ Links(outputs)' = Links(saved)')
        BY <3>1 DEF Links
      <3>4. \A b \in Appliers : pc'[b] \notin Within
        BY <2>1, <3>1 DEF Within
      <3> QED
        BY <3>1, <3>2, <3>3, <3>4 DEF LinksInv, After
    <2> QED
      BY <1>3, <2>2, <2>3
  <1>4. ASSUME NEW a \in Appliers, Restart(a) PROVE LinksInv'
    <2>1. pc[a] = "restart" /\ TryRestart /\ Done(a) /\ unit' = "render"
      BY <1>0, <1>4 DEF Restart, RestartFailing, RunStep, Steady, StaysUp, TryRestart
    <2>2. RunInv'
      BY <1>4, RunRestart
    <2>3. \A b \in Appliers : pc'[b] \notin Within
      BY <2>1, <2>2 DEF RunInv, RunsOf, Come, Serving
    <2> QED
      BY <2>1, <2>3 DEF LinksInv, Within, After
  <1> QED
    BY <1>1, <1>2, <1>3, <1>4, PastKept

\* The links and subscriptions are those of rendered.json whenever no apply is under way, and the
\* peers those of AmneziaWG's configs: what can leave old ones is what can make rendered.json
\* wrong, and an apply that saves while the start script has yet to write its links.
THEOREM OutputsKept == Spec /\ []Calm => []SteadyOutputs
  <1>1. Init => LinksInv
    <2> SUFFICES ASSUME Init PROVE LinksInv
      OBVIOUS
    <2>1. want # None
      BY ApplyAssumption DEF Init, Renderings
    <2> QED
      BY <2>1 DEF Init, LinksInv, Within, After
  <1>2. TypeInv /\ TypeInv' /\ Calm /\ Calm' /\ (Steady => RunInv) /\ (Steady => LinksInv) /\ [Next]_vars => (Steady => LinksInv)'
    <2> SUFFICES ASSUME TypeInv, TypeInv', Calm, Calm', Steady => RunInv, Steady => LinksInv, [Next]_vars, Steady'
                 PROVE  LinksInv'
      OBVIOUS
    <2>1. conf' = conf
      BY ConfKept
    <2>2. Steady
      BY <2>1, StepsCount DEF Steady, RestartFails, PrepareFails, TypeInv, RestInv
    <2>3. Alone /\ Alone'
      BY DEF Calm
    <2> QED
      BY <2>1, <2>2, <2>3, LinksNext DEF RunStep
  <1>3. Calm => Alone
    BY DEF Calm
  <1>4. /\ Steady => RunInv
        /\ Steady => LinksInv
        /\ crashes = 0 /\ ~RestartFails /\ ~PrepareFails => PeersAreRun
        => SteadyOutputs
    BY DEF SteadyOutputs, Steady, RunInv, StartInv, LinksInv, LinksAreSaved, Idle
  <1> QED
    BY <1>1, <1>2, <1>3, <1>4, RunKept, TypeInvKept, PeersKept, PTL DEF Spec
-----------------------------------------------------------------------------
(* What the tick sees *)

\* The steps at which an applier, the one that restarts the inbounds included, has its rendering
\* still ahead, or the start script has.
Before  == {"begin", "open", "lock", "awg", "awgsync", "awgrestart", "load", "render", "restart"}
Renders == unit = "render" \/ \E a \in Appliers : pc[a] \in Before

\* A rendering that can be wrong only in having users whose term is over, whom the manager knows
\* as active: by the view of its last apply, or by the time of the one under way.
Right(r) ==
    /\ r.shape = want.shape /\ r.rules = want.rules /\ r.sing = want.sing /\ r.token = want.token
    /\ \A u \in Users : r.users[u] = want.users[u] \/ (u \in ended /\ r.users[u] = Out)
    /\ \A u \in ended : r.users[u] # Out =>
          IF pc["manager"] = "idle" THEN applied = None \/ u \in applied[2] \/ u \notin applied[1]
                                    ELSE u \notin known

\* Nobody is held for over whose term is not.
KnownRight ==
    /\ spent = {}
    /\ pc["manager"] \notin {"idle", "begin"} => known \subseteq ended
    /\ pc["manager"] = "idle" => applied = None \/ applied[1] \ applied[2] \subseteq ended

\* With no rendering ahead, the last one is Right.
LastRight ==
    ~Renders => /\ \A a \in Appliers : pc[a] \in After => Right(new[a])
                /\ (\A a \in Appliers : pc[a] \notin After) => Right(IF unit = "write" THEN fresh ELSE saved)

QuietInv == KnownRight /\ LastRight

\* Who changes what the manager goes by.
LEMMA WhoChanges ==
  ASSUME RunStep, [Next]_vars, ~Parallel, ~Traffic, KnownRight
  PROVE  /\ spent' = {}
         /\ \/ UNCHANGED <<want, ended>> \/ ManagerChange \/ SpoolChange \/ \E u \in Users : Expire(u)
         /\ UNCHANGED known \/ Begin("manager")
         /\ UNCHANGED applied \/ View
         /\ pc'["manager"] = "idle" => pc["manager"] = "idle" \/ View
         /\ pc'["manager"] # "idle" => pc["manager"] # "idle" \/ ManagerChange \/ Tick
         /\ pc'["manager"] \notin {"idle", "begin"} => pc["manager"] \notin {"idle", "begin"} \/ Begin("manager")
  <1> USE DEF want_vars, files_vars, unit_vars, runs_vars, awg_vars, call_vars, count_vars
  <1>1. pc \in [Appliers -> Steps] /\ "manager" \in Appliers
    BY DEF RunStep, TypeInv, CallInv, Appliers
  <1>2. /\ downs \in Nat /\ crashes \in Nat /\ downs' = 0 /\ crashes' = 0 /\ StaysUp /\ ~RestartFails /\ ~PrepareFails /\ spent = {}
        /\ dir # None /\ unit # "stopped"
    BY DEF RunStep, TypeInv, RestInv, RunInv, Steady, KnownRight, StaysUp
  <1>3. ASSUME NEW a \in Appliers, NEW step, Goto(a, step), UNCHANGED <<want, ended, spent, known, applied>>,
               pc[a] # "idle", pc[a] = "begin" => Begin(a),
               step \in {"idle", "begin"} => a # "manager"
        PROVE  /\ UNCHANGED <<want, ended, spent, known, applied>>
               /\ pc'["manager"] = "idle" <=> pc["manager"] = "idle"
               /\ pc'["manager"] \notin {"idle", "begin"} => pc["manager"] \notin {"idle", "begin"} \/ Begin("manager")
    BY <1>1, <1>3 DEF Goto
  <1>4. CASE \E a \in Appliers : Begin(a)
    BY <1>1, <1>2, <1>4 DEF Begin, Goto
  <1>5. CASE \E a \in Appliers : Open(a) \/ Flock(a) \/ AwgPrepare(a) \/ AwgSync(a) \/ AwgRestart(a)
    BY <1>2, <1>3, <1>5 DEF Open, Flock, AwgPrepare, AwgSync, AwgRestart, AfterAwg
  <1>6. CASE \E a \in Appliers : Load(a) \/ Render(a) \/ Online(a) \/ Cut(a)
    BY <1>2, <1>3, <1>6 DEF Load, Render, Online, Cut, CutFrom, Done
  <1>7. CASE \E a \in Appliers : RemoveUsers(a) \/ AddUsers(a) \/ ReplaceRules(a) \/ SyncSing(a)
    <2>1. PICK a \in Appliers : RemoveUsers(a) \/ AddUsers(a) \/ ReplaceRules(a) \/ SyncSing(a)
      BY <1>7
    <2>2. pc[a] \in {"rmu", "adu", "rules", "sing"} /\ UNCHANGED <<want, ended, spent, known, applied>>
      BY <2>1 DEF RemoveUsers, AddUsers, ReplaceRules, SyncSing
    <2>3. \E step \in {"adu", "cut", "sing", "restart", "save", "singrestart"} : Goto(a, step)
      BY <2>1 DEF RemoveUsers, AddUsers, ReplaceRules, SyncSing, Call, NoCall
    <2> QED
      BY <1>2, <1>3, <2>2, <2>3
  <1>8. CASE \E a \in Appliers : SaveRendering(a) \/ WriteOutputs(a) \/ Restart(a)
    BY <1>2, <1>3, <1>8 DEF SaveRendering, WriteOutputs, Restart, RestartFailing, Done
  <1>9. CASE \/ \E a \in Appliers : Crash(a) \/ NotRunning(a) \/ SingRestart(a)
             \/ UnitDown \/ UnitStart
    BY <1>2, <1>9 DEF Crash, NotRunning, SingRestart, UnitDown, UnitStart, StaysUp, RunStep, Alone
  <1>10. CASE ManagerChange \/ SpoolChange \/ Tick \/ View
    BY <1>1, <1>2, <1>10 DEF ManagerChange, SpoolChange, Tick, View, Goto, Appliers
  <1>11. CASE \/ (\E u \in Users : Expire(u) \/ Spend(u)) \/ StartScript \/ UNCHANGED vars
              \/ \E u \in Users, ip \in Ips : Connect(u, ip)
    BY <1>2, <1>11 DEF Expire, Spend, StartScript, Connect, StartRender, StartWrite, StartArgs, StartOutputs, StartExec,
       vars
  <1> QED
    BY <1>4, <1>5, <1>6, <1>7, <1>8, <1>9, <1>10, <1>11 DEF Next, Environment, Apply

\* A step makes nobody over whose term is not.
LEMMA KnownNext ==
  ASSUME RunStep, [Next]_vars, ~Parallel, ~Traffic, KnownRight PROVE KnownRight'
  <1> USE DEF want_vars, files_vars, unit_vars, runs_vars, awg_vars, call_vars, count_vars
  <1>1. pc \in [Appliers -> Steps] /\ "manager" \in Appliers
    BY DEF RunStep, TypeInv, CallInv, Appliers
  <1>2. CASE View
    <2>1. pc["manager"] = "view" /\ known \subseteq ended /\ spent = {}
      BY <1>2 DEF View, KnownRight
    <2>2. applied' = <<Active(want), Active(Without(known \union spent))>> /\ UNCHANGED <<ended, known>> /\ pc'["manager"] = "idle"
      BY <1>1, <1>2 DEF View, ViewOf, Known, Goto
    <2>3. Active(want) \ Active(Without(known \union spent)) \subseteq known
      BY <2>1 DEF Active, Without, RunStep, TypeInv, RestInv, Renderings, RenderingsOf
    <2> QED
      BY <2>1, <2>2, <2>3, WhoChanges DEF KnownRight
  <1>3. CASE Begin("manager")
    BY <1>1, <1>3, WhoChanges DEF Begin, KnownRight, Goto
  <1>4. CASE ManagerChange
    BY <1>1, <1>4, WhoChanges DEF ManagerChange, KnownRight, Goto
  <1>5. CASE ~View /\ ~Begin("manager") /\ ~ManagerChange
    <2>1. ended \subseteq ended'
      BY <1>5, WhoChanges DEF SpoolChange, Expire
    <2> QED
      BY <1>5, <2>1, WhoChanges DEF KnownRight
  <1> QED
    BY <1>2, <1>3, <1>4, <1>5

\* What an applier renders is Right, for its own time.
LEMMA WantedRight ==
  ASSUME RunStep, KnownRight, NEW a \in Appliers, pc[a] = "render"
  PROVE  LET r == Wanted(a) IN
         /\ r.shape = want.shape /\ r.rules = want.rules /\ r.sing = want.sing /\ r.token = want.token
         /\ \A u \in Users : r.users[u] = want.users[u] \/ (u \in ended /\ r.users[u] = Out)
         /\ \A u \in ended : u \in Users /\ r.users[u] # Out => a = "manager" /\ u \notin known
  <1>1. want \in Renderings /\ spent = {} /\ (a = "manager" => known \subseteq ended) /\ ended \subseteq Users
    BY DEF RunStep, TypeInv, RestInv, KnownRight
  <1>2. \A over \in SUBSET Users :
           /\ Without(over).shape = want.shape /\ Without(over).rules = want.rules
           /\ Without(over).sing = want.sing /\ Without(over).token = want.token
           /\ \A u \in Users : Without(over).users[u] = IF u \in over THEN Out ELSE want.users[u]
    BY <1>1 DEF Without, Renderings, RenderingsOf
  <1>3. known \subseteq Users
    BY DEF RunStep, TypeInv, RestInv
  <1> QED
    BY <1>1, <1>2, <1>3 DEF Wanted, Known, Now

\* A step leaves the last rendering Right, or another one ahead.
LEMMA LastNext ==
  ASSUME RunStep, [Next]_vars, ~Parallel, ~Traffic, QuietInv PROVE LastRight'
  <1> USE DEF want_vars, files_vars, unit_vars, runs_vars, awg_vars, call_vars, count_vars
  <1>1. /\ pc \in [Appliers -> Steps] /\ "manager" \in Appliers
        /\ new \in [Appliers -> Renderings \union {None}]
        /\ StaysUp /\ dir # None /\ ~RestartFails /\ ~PrepareFails /\ KnownRight /\ LastRight /\ RunInv
        /\ ended \subseteq Users
    BY DEF RunStep, TypeInv, CallInv, RestInv, RunInv, StaysUp, Steady, QuietInv, Appliers
  <1>2. SUFFICES ASSUME ~Renders' PROVE LastRight'
    BY DEF LastRight
  <1>3. ASSUME NEW a \in Appliers, NEW step, Goto(a, step) PROVE step \notin Before
    BY <1>1, <1>2, <1>3 DEF Renders, Goto
  <1>4. CASE \E a \in Appliers : Begin(a) \/ Open(a) \/ Flock(a) \/ AwgPrepare(a) \/ AwgSync(a) \/ AwgRestart(a) \/ Load(a)
    BY <1>1, <1>3, <1>4
    DEF Begin, Open, Flock, AwgPrepare, AwgSync, AwgRestart, AfterAwg, Load, StaysUp, Before, Locked
  <1>5. CASE ManagerChange \/ SpoolChange \/ Tick
    BY <1>1, <1>3, <1>5 DEF ManagerChange, SpoolChange, Tick, Appliers, Before
  <1>6. CASE \E u \in Users : Expire(u)
    <2>1. PICK v \in Users : v \notin ended /\ ended' = ended \union {v}
      BY <1>6 DEF Expire
    <2>2. UNCHANGED <<pc, new, unit, fresh, saved, known, applied, want>>
      BY <1>6 DEF Expire
    <2>3. pc["manager"] # "begin" /\ ~Renders
      BY <1>1, <1>2, <2>2 DEF Renders, Before
    <2>4. IF pc["manager"] = "idle" THEN applied = None \/ v \in applied[2] \/ v \notin applied[1] ELSE v \notin known
      BY <1>1, <2>1, <2>3 DEF KnownRight
    <2> QED
      BY <1>1, <2>1, <2>2, <2>3, <2>4 DEF LastRight, Right
  <1>7. CASE View
    <2>1. pc["manager"] = "view" /\ spent = {} /\ pc'["manager"] = "idle" /\ \A b \in Appliers \ {"manager"} : pc'[b] = pc[b]
      BY <1>1, <1>7 DEF View, Goto, KnownRight
    <2>2. UNCHANGED <<new, unit, fresh, saved, want, ended>> /\ applied' = <<Active(want), Active(Without(known \union spent))>>
      BY <1>7 DEF View, ViewOf, Known
    <2>3. ~Renders /\ "view" \notin After
      BY <1>2, <2>1, <2>2 DEF Renders, Before, After, Within
    <2>4. \A u \in Users : u \in Active(want) /\ u \notin known => u \in Active(Without(known \union spent))
      BY <2>1 DEF Active, Without, RunStep, TypeInv, RestInv, Renderings, RenderingsOf
    <2>5. \A u \in Users : u \in Active(want) <=> want.users[u] # Out
      BY DEF Active
    <2>6. \A a \in Appliers : pc'[a] \in After <=> pc[a] \in After
      BY <2>1, <2>3 DEF After, Within
    <2> QED
      BY <1>1, <2>1, <2>2, <2>3, <2>4, <2>5, <2>6 DEF LastRight, Right
  <1>8. ASSUME NEW a \in Appliers, Render(a) PROVE LastRight'
    <2> DEFINE r == Wanted(a)
    <2>1. pc[a] = "render" /\ UNCHANGED <<want, ended, known, applied, unit, fresh, saved>>
      BY <1>8 DEF Render
    <2>2. unit \in Serving /\ saved = old[a] /\ \A b \in Appliers \ {a} : pc[b] \notin Within
      BY <1>1, <2>1, HolderKnows, OnlyOne, WithinLocked DEF RunsOf, Come, Within, RunStep, Alone
    <2>3. /\ r.shape = want.shape /\ r.rules = want.rules /\ r.sing = want.sing /\ r.token = want.token
          /\ \A u \in Users : r.users[u] = want.users[u] \/ (u \in ended /\ r.users[u] = Out)
          /\ \A u \in ended : u \in Users /\ r.users[u] # Out => a = "manager" /\ u \notin known
      BY <1>1, <2>1, WantedRight
    <2>4. CASE Done(a) /\ r = old[a]
      <3>1. \A b \in Appliers : pc'[b] \notin After
        BY <1>1, <2>2, <2>4 DEF Done, Goto, After, Within
      <3>2. a = "manager" => pc'["manager"] # "idle"
        BY <1>1, <2>4 DEF Done, Goto
      <3>3. saved' = r /\ unit' # "write"
        BY <2>1, <2>2, <2>4 DEF Serving
      <3>4. Right(saved)'
        BY <1>1, <2>1, <2>3, <3>2, <3>3 DEF Right
      <3> QED
        BY <3>1, <3>3, <3>4 DEF LastRight
    <2>5. CASE Goto(a, "online") /\ new' = [new EXCEPT ![a] = r]
      <3>1. pc'[a] = "online" /\ new'[a] = r /\ \A b \in Appliers \ {a} : pc'[b] \notin After
        BY <1>1, <2>2, <2>5 DEF Goto, After
      <3>2. a = "manager" => pc'["manager"] # "idle"
        BY <3>1
      <3>3. Right(new[a])'
        BY <1>1, <2>1, <2>3, <3>1, <3>2 DEF Right
      <3> QED
        BY <3>1, <3>3 DEF LastRight, After, Within
    <2>6. ~Goto(a, "restart")
      BY <1>3 DEF Before
    <2> QED
      BY <1>8, <2>4, <2>5, <2>6 DEF Render
  <1>9. CASE \E a \in Appliers : Online(a) \/ RemoveUsers(a) \/ AddUsers(a) \/ Cut(a) \/ ReplaceRules(a) \/ SyncSing(a)
    <2>1. PICK a \in Appliers, step \in {"rmu", "adu", "cut", "rules", "sing", "save", "restart", "singrestart"} :
             /\ Goto(a, step) /\ pc[a] \in After /\ pc[a] \notin Before
             /\ UNCHANGED <<new, unit, fresh, saved, want, ended, known, applied>>
      BY <1>9 DEF Online, RemoveUsers, AddUsers, Cut, CutFrom, ReplaceRules, SyncSing, Call, NoCall, After, Within, Before
    <2>2. step \in After
      BY <1>3, <2>1 DEF Before, After, Within
    <2>3. \A b \in Appliers : pc'[b] = IF b = a THEN step ELSE pc[b]
      BY <1>1, <2>1 DEF Goto
    <2>4. ~Renders
      BY <1>2, <2>1, <2>3 DEF Renders
    <2>5. pc["manager"] = "idle" <=> pc'["manager"] = "idle"
      <3>1. pc[a] # "idle" /\ step # "idle"
        BY <2>1, <2>2 DEF After, Within
      <3> QED
        BY <1>1, <2>3, <3>1
    <2>6. \A b \in Appliers : pc'[b] \in After <=> pc[b] \in After
      BY <2>1, <2>2, <2>3
    <2> QED
      BY <1>1, <2>1, <2>4, <2>5, <2>6 DEF LastRight, Right
  <1>10. ASSUME NEW a \in Appliers, SaveRendering(a) \/ WriteOutputs(a) PROVE LastRight'
    <2>1. /\ UNCHANGED <<new[a], unit, fresh, want, ended, known, applied>>  \/ Done(a)
          /\ UNCHANGED <<unit, fresh, want, ended, known, applied>>
          /\ pc[a] \in {"save", "outputs"}
          /\ saved' = new[a]
          /\ Done(a) \/ (Goto(a, "outputs") /\ UNCHANGED new)
      BY <1>1, <1>10, HolderKnows DEF SaveRendering, WriteOutputs, StaysUp, RunsOf, Come, Within
    <2>2. unit \in Serving /\ \A b \in Appliers \ {a} : pc[b] \notin Within
      BY <1>1, <2>1, HolderKnows, OnlyOne, WithinLocked DEF RunsOf, Come, Within, RunStep, Alone
    <2>3. \A b \in Appliers \ {a} : pc'[b] = pc[b]
      BY <1>1, <2>1 DEF Done, Goto
    <2>4. ~Renders /\ Right(new[a])
      <3>1. ~Renders
        BY <1>2, <2>1, <2>3 DEF Renders, Before
      <3> QED
        BY <1>1, <2>1, <3>1 DEF LastRight, After, Within
    <2>5. pc["manager"] = "idle" <=> pc'["manager"] = "idle"
      BY <1>1, <2>1, <2>3 DEF Done, Goto
    <2>6. unit' # "write" /\ Right(saved)'
      BY <2>1, <2>2, <2>4, <2>5 DEF Right, Serving
    <2>7. CASE Done(a)
      <3>1. \A b \in Appliers : pc'[b] \notin After
        BY <1>1, <2>2, <2>3, <2>7 DEF Done, Goto, After, Within
      <3> QED
        BY <2>6, <3>1 DEF LastRight
    <2>8. CASE Goto(a, "outputs") /\ UNCHANGED new
      <3>1. pc'[a] = "outputs" /\ \A b \in Appliers \ {a} : pc'[b] \notin After
        BY <1>1, <2>2, <2>3, <2>8 DEF Goto, After
      <3>2. Right(new[a])'
        BY <2>1, <2>4, <2>5, <2>8 DEF Right
      <3> QED
        BY <3>1, <3>2 DEF LastRight, After, Within
    <2> QED
      BY <2>1, <2>7, <2>8
  <1>11. CASE \E a \in Appliers : Restart(a)
    BY <1>1, <1>2, <1>11 DEF Restart, RestartFailing, TryRestart, StaysUp, Renders
  <1>12. CASE StartScript
    <2>1. UNCHANGED <<pc, new, want, ended, known, applied, spent>>
      BY <1>12 DEF StartScript, StartRender, StartWrite, StartArgs, StartOutputs, StartExec
    <2>2. CASE StartRender
      <3>1. \A a \in Appliers : pc'[a] \notin After
        BY <1>1, <2>1, <2>2 DEF StartRender, RunInv, RunsOf, Come, Serving, After
      <3>2. unit' = "write" /\ fresh' = Without(ended) /\ want \in Renderings
        BY <1>1, <2>2 DEF StartRender, Now, KnownRight, RunStep, TypeInv, RestInv
      <3>3. Right(fresh)'
        BY <1>1, <2>1, <3>2 DEF Right, Without, Renderings, RenderingsOf
      <3> QED
        BY <3>1, <3>2, <3>3 DEF LastRight
    <2>3. CASE StartWrite \/ StartArgs \/ StartOutputs \/ StartExec
      <3>1. /\ ~Renders /\ unit' # "write"
            /\ saved' = (IF unit = "write" THEN fresh ELSE saved)
        BY <1>2, <2>1, <2>3 DEF StartWrite, StartArgs, StartOutputs, StartExec, Renders
      <3> QED
        BY <1>1, <2>1, <3>1 DEF LastRight, Right
    <2> QED
      BY <1>12, <2>2, <2>3 DEF StartScript
  <1>13. CASE \/ \E a \in Appliers : Crash(a) \/ NotRunning(a) \/ SingRestart(a)
              \/ UnitDown \/ UnitStart \/ \E u \in Users : Spend(u)
    <2>1. downs \in Nat /\ crashes \in Nat /\ downs' = 0 /\ crashes' = 0
      BY DEF RunStep, TypeInv, RestInv, Steady
    <2> QED
      BY <1>1, <1>13, <2>1 DEF Crash, NotRunning, SingRestart, UnitDown, UnitStart, Spend, StaysUp, RunStep, Alone
  <1>14. CASE UNCHANGED vars \/ \E u \in Users, ip \in Ips : Connect(u, ip)
    <2>1. UNCHANGED <<pc, new, unit, fresh, saved, want, ended, known, applied>>
      BY <1>14 DEF Connect, vars
    <2> QED
      BY <1>1, <1>2, <2>1 DEF LastRight, Right, Renders
  <1> QED
    BY <1>4, <1>5, <1>6, <1>7, <1>8, <1>9, <1>10, <1>11, <1>12, <1>13, <1>14 DEF Next, Environment, Apply

\* With nothing under way and everybody as the manager last applied them, the inbounds run what
\* the files and the time make them: whatever else than a term's end changes is rendered again by
\* who changes it, and a term's end shows in the manager's view.
THEOREM QuietKept == Spec /\ []Alone => []SteadyQuiet
  <1> DEFINE Wary == Steady /\ ~Parallel /\ ~Traffic
             Inv == Wary => QuietInv
  <1>1. Init => Inv
    <2> SUFFICES ASSUME Init PROVE QuietInv
      OBVIOUS
    <2>1. KnownRight
      BY DEF Init, KnownRight
    <2>2. LastRight
      BY DEF Init, LastRight, Right, After, Within, Appliers
    <2> QED
      BY <2>1, <2>2 DEF QuietInv
  <1>2. TypeInv /\ TypeInv' /\ Alone /\ Alone' /\ (Steady => RunInv) /\ Inv /\ [Next]_vars => Inv'
    <2> SUFFICES ASSUME TypeInv, TypeInv', Alone, Alone', Steady => RunInv, Inv, [Next]_vars, Wary' PROVE QuietInv'
      OBVIOUS
    <2>1. conf' = conf
      BY ConfKept
    <2>2. Steady /\ ~Parallel /\ ~Traffic
      BY <2>1, StepsCount DEF Steady, RestartFails, PrepareFails, Parallel, Traffic, TypeInv, RestInv
    <2>3. RunStep /\ QuietInv
      BY <2>1, <2>2 DEF RunStep
    <2> QED
      BY <2>2, <2>3, KnownNext, LastNext DEF QuietInv
  <1>3. TypeInv /\ (Steady => RunInv) /\ Inv => SteadyQuiet
    <2> SUFFICES ASSUME TypeInv, RunInv, QuietInv, unit = "up", Idle, applied = ViewOf(Now) PROVE Runs(Now)
      BY DEF SteadyQuiet, QuietIsRight
    <2>1. /\ want \in Renderings /\ saved \in Renderings /\ spent = {} /\ applied # None
          /\ ended \subseteq Users
      <3>1. want \in Renderings /\ spent = {} /\ ended \subseteq Users
        BY DEF TypeInv, RestInv, QuietInv, KnownRight
      <3>2. saved \in Renderings
        BY DEF TypeInv, RestInv, RunInv, StartInv
      <3>3. Active(want) \in SUBSET Users /\ Active(Now) \in SUBSET Users
        BY DEF Active
      <3>4. ViewOf(Now) \in (SUBSET Users) \X (SUBSET Users)
        BY <3>3 DEF ViewOf
      <3>5. applied # None
        BY <3>4, ApplyAssumption
      <3> QED
        BY <3>1, <3>2, <3>5
    <2>2. Right(saved) /\ pc["manager"] = "idle" /\ Runs(saved)
      BY DEF QuietInv, LastRight, Renders, Idle, Before, After, Within, Appliers, RunInv, Between
    <2>3. /\ Now.rules = want.rules /\ Now.sing = want.sing /\ Now.users \in [Users -> Entries]
          /\ \A u \in Users : Now.users[u] = IF u \in ended THEN Out ELSE want.users[u]
      BY <2>1 DEF Now, Without, Renderings, RenderingsOf, Entries, Creds
    <2>4. applied[1] = {u \in Users : want.users[u] # Out} /\ applied[2] = {u \in Users : Now.users[u] # Out}
      BY DEF ViewOf, Active
    <2>5. \A u \in Users : saved.users[u] = Now.users[u]
      BY <2>1, <2>2, <2>3, <2>4 DEF Right
    <2>6. saved.users = Now.users
      <3>1. saved.users \in [Users -> Entries]
        BY <2>1, RenderingType
      <3> QED
        BY <2>3, <2>5, <3>1
    <2> QED
      BY <2>2, <2>3, <2>6 DEF Runs, Right
  <1> QED
    BY <1>1, <1>2, <1>3, RunKept, TypeInvKept, PTL DEF Spec

-----------------------------------------------------------------------------
(* Applies that turn to no restart                                         *)

\* No listener changes, sing-box serves nothing, what is called works and the inbounds keep
\* running: every change is of users, rules or links, and is carried out live.
Plain ==
    /\ \A r, s \in Shapes : r = s
    /\ Sings = {NoSing} /\ MaxDowns = 0
    /\ ~ApiFails /\ ~RenderFails /\ ~PrepareFails /\ ~CutFails

\* The directory stays, whoever opens a lock file opens the one in it, and one has it locked.
PlainInv ==
    /\ unit = "up" /\ dir # None /\ saved # None /\ args /\ xray # None
    /\ \A a \in Appliers :
          /\ pc[a] \notin {"norun", "restart", "singrestart", "awgrestart"}
          /\ pc[a] \in Locked \union {"lock"} => inode[a] = dir
    /\ \A a, b \in Appliers : pc[a] \in Locked /\ pc[b] \in Locked => a = b

\* A step of one that has the lock, or is at none of the steps that do, and that leaves the
\* directory as it is.
LEMMA PlainStep ==
  ASSUME TypeInv, PlainInv, NEW a \in Appliers, NEW step, Goto(a, step),
         UNCHANGED <<dir, unit, args>>, saved' # None, xray' # None,
         step \notin {"norun", "restart", "singrestart", "awgrestart"},
         step \in Locked => pc[a] \in Locked \/ \A b \in Appliers \ {a} : pc[b] \notin Locked,
         \/ UNCHANGED inode /\ (step \in Locked \union {"lock"} => pc[a] \in Locked \union {"lock"})
         \/ step \notin Locked \union {"lock"} /\ inode' = [inode EXCEPT ![a] = None]
         \/ inode' = [inode EXCEPT ![a] = dir]
  PROVE  PlainInv'
  <1>1. pc \in [Appliers -> Steps] /\ inode \in [Appliers -> Gens \union {None}]
    BY DEF TypeInv, CallInv
  <1>2. \A b \in Appliers : pc'[b] = IF b = a THEN step ELSE pc[b]
    BY <1>1 DEF Goto
  <1>3. \A b \in Appliers : pc'[b] \in Locked \union {"lock"} => inode'[b] = dir
    BY <1>1, <1>2 DEF PlainInv
  <1>4. \A b, c \in Appliers : pc'[b] \in Locked /\ pc'[c] \in Locked => b = c
    BY <1>2 DEF PlainInv
  <1>5. \A b \in Appliers : pc'[b] \notin {"norun", "restart", "singrestart", "awgrestart"}
    BY <1>2 DEF PlainInv
  <1>6. unit' = "up" /\ dir' # None /\ args' /\ dir' = dir
    BY DEF PlainInv
  <1> QED
    BY <1>3, <1>4, <1>5, <1>6 DEF PlainInv

\* What the calls to XRay that has a rendering's users and rules leave it with.
LEMMA CallsServe ==
  ASSUME xray \in Served, NEW n \in Renderings, NEW gone, NEW come
  PROVE  /\ [xray EXCEPT !.users = [u \in Users |-> IF u \in gone THEN Out ELSE @[u]]] \in Served
         /\ [xray EXCEPT !.users = [u \in Users |-> IF u \in come /\ @[u] = Out THEN n.users[u] ELSE @[u]]] \in Served
         /\ [xray EXCEPT !.rules = n.rules] \in Served
  BY DEF Renderings, RenderingsOf, Served, ServedOf

\* Every step of such appliers keeps that.
LEMMA PlainNext == ASSUME TypeInv, Plain, PlainInv, [Next]_vars PROVE PlainInv'
  <1> USE DEF want_vars, files_vars, unit_vars, runs_vars, awg_vars, call_vars, count_vars
  <1>1. /\ pc \in [Appliers -> Steps] /\ inode \in [Appliers -> Gens \union {None}]
        /\ downs \in 0..MaxDowns /\ MaxDowns = 0 /\ ~ApiFails
        /\ ~RenderFails /\ ~PrepareFails /\ ~CutFails
    BY DEF TypeInv, CallInv, RestInv, Plain
  <1>2. /\ unit = "up" /\ dir # None /\ saved # None /\ args /\ xray # None
        /\ \A a \in Appliers : pc[a] \notin {"norun", "restart", "singrestart", "awgrestart"}
    BY DEF PlainInv
  <1>3. ASSUME NEW a \in Appliers,
               Begin(a) \/ Load(a) \/ AwgPrepare(a) \/ AwgSync(a) \/ Online(a) \/ Cut(a)
        PROVE  PlainInv'
    <2>1. inode[a] = dir \/ pc[a] = "begin"
      BY <1>3 DEF PlainInv, Load, AwgPrepare, AwgSync, Online, Cut, CutFrom, Begin, Locked
    <2>2. PICK step \in {"open", "render", "awgsync", "load", "rmu", "rules"} : Goto(a, step)
      BY <1>1, <1>2, <1>3, <2>1 DEF Load, AwgPrepare, AwgSync, Online, Cut, CutFrom, Begin, AfterAwg
    <2>3. UNCHANGED <<dir, unit, args, saved, xray, inode>>
      BY <1>1, <1>3 DEF Load, AwgPrepare, AwgSync, Online, Cut, CutFrom, Begin
    <2>4. pc[a] \in Locked \/ step = "open"
      BY <1>1, <1>2, <1>3, <2>2 DEF Load, AwgPrepare, AwgSync, Online, Cut, CutFrom, Begin, Locked, Goto
    <2>5. step \in Locked \union {"lock"} => pc[a] \in Locked
      BY <2>4 DEF Locked
    <2> QED
      BY <1>2, <2>2, <2>3, <2>5, PlainStep
  <1>4. ASSUME NEW a \in Appliers, Open(a) PROVE PlainInv'
    <2>1. Goto(a, "lock") /\ inode' = [inode EXCEPT ![a] = dir] /\ UNCHANGED <<dir, unit, args, saved, xray>>
      BY <1>2, <1>4 DEF Open
    <2>2. "lock" \notin Locked
      BY DEF Locked
    <2> QED
      BY <1>2, <2>1, <2>2, PlainStep
  <1>5. ASSUME NEW a \in Appliers, Flock(a) PROVE PlainInv'
    <2>1. PICK step \in {"awg", "load"} : Goto(a, step)
      BY <1>5 DEF Flock
    <2>2. pc[a] = "lock" /\ UNCHANGED <<dir, unit, args, saved, xray, inode>>
      BY <1>5 DEF Flock
    <2>3. \A b \in Appliers \ {a} : pc[b] \notin Locked
      BY <1>5, <2>2 DEF Flock, PlainInv
    <2> QED
      BY <1>2, <2>1, <2>2, <2>3, PlainStep
  <1>6. ASSUME NEW a \in Appliers, Done(a) \/ Raise(a), UNCHANGED <<dir, unit, args, xray>>, saved' # None
        PROVE  PlainInv'
    <2>1. PICK step \in {"idle", "view"} : Goto(a, step) /\ inode' = [inode EXCEPT ![a] = None]
      BY <1>6 DEF Done, Raise, Leave
    <2>2. step \notin Locked \union {"lock"}
      BY DEF Locked
    <2> QED
      BY <1>2, <1>6, <2>1, <2>2, PlainStep
  <1>7. ASSUME NEW a \in Appliers, Render(a) PROVE PlainInv'
    <2>1. Wanted(a) \in Renderings /\ old[a] \in Renderings /\ pc[a] = "render"
      BY <1>7, WantedType DEF TypeInv, CallInv, Render, Within
    <2>2. Wanted(a).shape = old[a].shape
      BY <2>1 DEF Plain, Renderings, RenderingsOf, Shapes
    <2>3. UNCHANGED <<dir, unit, args, saved, xray>>
      BY <1>7 DEF Render
    <2>4. CASE Goto(a, "online") /\ UNCHANGED inode
      BY <1>2, <2>1, <2>3, <2>4, PlainStep DEF Locked
    <2> QED
      BY <1>1, <1>2, <1>6, <1>7, <2>2, <2>3, <2>4 DEF Render
  <1>8. ASSUME NEW a \in Appliers, RemoveUsers(a) \/ AddUsers(a) \/ ReplaceRules(a) PROVE PlainInv'
    <2>1. PICK step \in {"adu", "cut", "sing"} : Goto(a, step)
      BY <1>1, <1>2, <1>8 DEF RemoveUsers, AddUsers, ReplaceRules, Call, NoCall
    <2>2. UNCHANGED <<dir, unit, args, saved, inode>> /\ xray' # None
      <3>1. UNCHANGED <<dir, unit, args, saved, inode>>
        BY <1>8 DEF RemoveUsers, AddUsers, ReplaceRules
      <3>2. xray \in Served /\ None \notin Served
        BY <1>2, ApplyAssumption DEF TypeInv, RestInv, Served
      <3>3. new[a] \in Renderings
        BY <1>8 DEF TypeInv, CallInv, RemoveUsers, AddUsers, ReplaceRules, Within, After
      <3>4. CASE RemoveUsers(a)
        <4>1. [xray EXCEPT !.users = [u \in Users |-> IF u \in Leaving(old[a], new[a]) THEN Out ELSE @[u]]] \in Served
          BY <3>2, <3>3, CallsServe
        <4> QED
          BY <1>2, <3>1, <3>2, <3>4, <4>1 DEF RemoveUsers, Call, NoCall
      <3>5. CASE AddUsers(a)
        <4>1. [xray EXCEPT !.users = [u \in Users |-> IF u \in Joining(old[a], new[a]) /\ @[u] = Out THEN new[a].users[u] ELSE @[u]]] \in Served
          BY <3>2, <3>3, CallsServe
        <4> QED
          BY <1>2, <3>1, <3>2, <3>5, <4>1 DEF AddUsers, Call, NoCall
      <3>6. CASE ReplaceRules(a)
        BY <3>1, <3>2, <3>3, <3>6, CallsServe DEF ReplaceRules, Call, NoCall
      <3> QED
        BY <1>8, <3>4, <3>5, <3>6
    <2>3. pc[a] \in Locked
      BY <1>8 DEF RemoveUsers, AddUsers, ReplaceRules, Locked
    <2> QED
      BY <1>2, <2>1, <2>2, <2>3, PlainStep
  <1>9. ASSUME NEW a \in Appliers, SyncSing(a) PROVE PlainInv'
    <2>1. pc[a] = "sing" /\ old[a] \in Renderings /\ new[a] \in Renderings
      BY <1>9 DEF TypeInv, CallInv, SyncSing, Within, After
    <2>2. old[a].sing = new[a].sing
      BY <2>1, RenderingType DEF Plain
    <2>3. Goto(a, "save") /\ UNCHANGED <<dir, unit, args, saved, xray, inode>>
      BY <1>9, <2>2 DEF SyncSing
    <2> QED
      BY <1>2, <2>1, <2>3, PlainStep DEF Locked
  <1>10. ASSUME NEW a \in Appliers, SaveRendering(a) \/ WriteOutputs(a) PROVE PlainInv'
    <2>1. pc[a] \in {"save", "outputs"} /\ new[a] \in Renderings
      BY <1>10 DEF TypeInv, CallInv, SaveRendering, WriteOutputs, Within, After
    <2>2. UNCHANGED <<dir, unit, args, xray>> /\ saved' \in {saved, new[a]}
      BY <1>10 DEF SaveRendering, WriteOutputs
    <2>3. saved' # None
      BY <1>2, <2>1, <2>2, ApplyAssumption DEF TypeInv, RestInv, Renderings
    <2>4. CASE Goto(a, "outputs") /\ UNCHANGED inode
      BY <1>2, <2>1, <2>2, <2>3, <2>4, PlainStep DEF Locked
    <2> QED
      BY <1>2, <1>6, <1>10, <2>2, <2>3, <2>4 DEF SaveRendering, WriteOutputs
  <1>11. CASE \E a \in Appliers : NotRunning(a) \/ SingRestart(a) \/ Restart(a) \/ AwgRestart(a)
    BY <1>2, <1>11 DEF NotRunning, SingRestart, Restart, AwgRestart
  <1>12. CASE \E a \in Appliers : Crash(a)
    BY <1>2, <1>6, <1>12 DEF Crash
  <1>13. CASE ManagerChange \/ SpoolChange \/ Tick \/ View
    <2>1. /\ UNCHANGED <<dir, unit, args, saved, xray, inode>>
          /\ \/ UNCHANGED pc
             \/ \E a \in Appliers, step \in {"idle", "begin"} : Goto(a, step)
      BY <1>13 DEF ManagerChange, SpoolChange, Tick, View, Appliers
    <2>2. CASE UNCHANGED pc
      BY <2>1, <2>2 DEF PlainInv
    <2>3. ASSUME NEW a \in Appliers, NEW step \in {"idle", "begin"}, Goto(a, step) PROVE PlainInv'
      <3>1. step \notin Locked \union {"lock"}
        BY DEF Locked
      <3> QED
        BY <1>2, <2>1, <2>3, <3>1, PlainStep
    <2> QED
      BY <2>1, <2>2, <2>3
  <1>14. CASE \/ UNCHANGED vars \/ (\E u \in Users : Expire(u) \/ Spend(u))
              \/ \E u \in Users, ip \in Ips : Connect(u, ip)
    <2>1. UNCHANGED <<pc, inode, dir, unit, args, saved, xray>>
      BY <1>14 DEF vars, Expire, Spend, Connect
    <2> QED
      BY <2>1 DEF PlainInv
  <1>15. CASE UnitDown \/ UnitStart \/ StartScript
    BY <1>1, <1>2, <1>15 DEF UnitDown, UnitStart, StartScript, StartRender, StartWrite, StartArgs, StartOutputs, StartExec
  <1> QED
    BY <1>3, <1>4, <1>5, <1>7, <1>8, <1>9, <1>10, <1>11, <1>12, <1>13, <1>14, <1>15 DEF Next, Environment, Apply

\* As long as the changes can be made live, the lock in the runtime directory keeps any number
\* of applies apart, also where appliers are killed, and nobody turns to a restart.
THEOREM PlainKept == Spec /\ Plain => [](OneApply /\ Calm)
  <1>1. Init => PlainInv
    <2> SUFFICES ASSUME Init PROVE PlainInv
      OBVIOUS
    <2>1. dir # None /\ saved # None
      BY ApplyAssumption DEF Init, Renderings
    <2>2. xray \in Served
      BY RenderingType DEF Init
    <2>3. xray # None
      BY <2>2, ApplyAssumption DEF Init, Served
    <2>4. \A a \in Appliers : pc[a] = "idle"
      BY DEF Init
    <2> QED
      BY <2>1, <2>3, <2>4 DEF Init, PlainInv, Locked
  <1>2. TypeInv /\ Plain /\ PlainInv /\ [Next]_vars => PlainInv' /\ Plain'
    <2> SUFFICES ASSUME TypeInv, Plain, PlainInv, [Next]_vars PROVE PlainInv' /\ Plain'
      OBVIOUS
    <2>1. conf' = conf
      BY ConfKept
    <2> QED
      BY <2>1, PlainNext DEF Plain, Shapes, Sings, ApiFails, RenderFails, PrepareFails, CutFails, MaxDowns
  <1>3. PlainInv => OneApply /\ Calm
    BY DEF PlainInv, OneApply, Holding, Calm, Alone
  <1> QED
    BY <1>1, <1>2, <1>3, TypeInvKept, PTL DEF Spec

\* So with nobody killed, any number of such applies, the manager's and proxy-ctl's, crossing in
\* any way, leave the inbounds with what rendered.json says, links and peers that are its, and
\* the seen connections of those removed cut; and leave the tick right in having nothing to do.
THEOREM PlainRight ==
  Spec /\ Plain => [](SteadySaved /\ SteadyOutputs /\ SteadyQuiet /\ (Steady => SeenAreCut))
  <1>1. Calm => Alone
    BY DEF Calm
  <1> QED
    BY <1>1, PlainKept, SavedKept, OutputsKept, QuietKept, SeenKept, PTL
=============================================================================
