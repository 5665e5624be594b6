-------------------------- MODULE SupervisorUnitProofs --------------------------
(***************************************************************************)
(* Proofs about SupervisorUnit, for any clients, any processes and every   *)
(* kind of unit: every step keeps the types, and those of JobNext keep     *)
(* IInv, an inductive invariant of JobSpec. What follows from it is that   *)
(* there is one process at most, none of a unit that is down,              *)
(* ExecStopPost= runs once per activation, and signals go only to groups   *)
(* that still have their leader; that JobSpec implements ServiceLife, and  *)
(* no restart undoes a stop.  The parts of PendingInv are inductive beside *)
(* IInv: a restart waited for has its thread, a unit left activating its   *)
(* stop(), an active one its main process, and a group does not outlive    *)
(* its leader.                                                             *)
(*                                                                         *)
(* A step falls in one of five classes: its thread keeps the job, takes    *)
(* it, gives it up, or has nothing to do with it and either leaves the     *)
(* unit alone or writes it while nobody has the job.  One lemma for each   *)
(* class says what is left to show for JobInv, IdleInv and StepInv; three  *)
(* more do the same for the processes (WatchInv, MainInv, OneProcess).     *)
(***************************************************************************)
EXTENDS SupervisorUnit, TLAPS

-----------------------------------------------------------------------------
(* Steps and program counters *)

\* The kinds of steps are apart from one another, but for the "deps" that clients and
\* watch() threads share.
LEMMA StepNames ==
  /\ \A step \in JobSteps : step \in Steps /\ step \notin ClientSteps \union WatchSteps
  /\ \A step \in ClientSteps \union WatchSteps \union {"activate"} : step \in Steps
  /\ ClientSteps \intersect WatchSteps = {"deps"}
  /\ "activate" \notin ClientSteps \union WatchSteps \union JobSteps
  BY DEF Steps, JobSteps, ClientSteps, WatchSteps, Lines, StartLines, StopLines, StopPostLines,
         TermSteps, ReapSteps, Reaping

\* The steps under the job, one by one.
LEMMA JobNames ==
  {"condition", "window", "count", "begin", "clear", "credentials", "ExecStartPre", "ExecStart",
   "spawn", "ExecStartPost", "end.ExecStopPost", "fail.ExecStopPost", "fail.term", "fail.reap",
   "settle", "ExecReload", "stop.ExecStop", "stop.term", "stop.reap", "stop.ExecStopPost",
   "watch.reap", "watch.remain", "watch.ExecStop", "watch.ExecStopPost"} \subseteq JobSteps
  BY DEF JobSteps, Lines, StartLines, StopLines, StopPostLines, TermSteps, ReapSteps, Reaping

\* A thread that goes to a step of its kind leaves every program counter well-typed.
LEMMA GotoType ==
  ASSUME PcOK, NEW t \in Threads, NEW step \in Steps, Goto(t, step),
         t \in Clients => step \notin WatchSteps \ {"deps"},
         t \in Procs => step \notin ClientSteps \ {"deps"}
  PROVE  PcOK'
  BY DEF PcOK, Goto, Threads

\* So does one that goes to a step under the job ...
LEMMA GotoJob ==
  ASSUME PcOK, NEW t \in Threads, NEW step \in JobSteps, Goto(t, step) PROVE PcOK'
  BY GotoType, StepNames

\* ... a client that goes to one of a client's own ...
LEMMA GotoClient ==
  ASSUME PcOK, NEW c \in Clients, NEW step \in ClientSteps \union {"activate"}, Goto(c, step)
  PROVE  PcOK'
  BY GotoType, StepNames, UnitAssumption DEF Threads

\* ... a watch() thread to one of its own ...
LEMMA GotoWatch ==
  ASSUME PcOK, NEW p \in Procs, NEW step \in WatchSteps \union {"activate"}, Goto(p, step)
  PROVE  PcOK'
  BY GotoType, StepNames, UnitAssumption DEF Threads

\* ... and a call that ends.
LEMMA ReturnType ==
  ASSUME PcOK, NEW t \in Threads, Return(t) PROVE PcOK'
  BY GotoClient, GotoWatch DEF Return, Threads, ClientSteps, WatchSteps

\* run_commands leaves what it changes well-typed.
LEMMA ReturnedType ==
  ASSUME TypeOK, NEW t, NEW line, Returned(t, line)
  PROVE  /\ command' \in {"none", "start", "stop"}
         /\ target' \in [Clients -> {"none", "running", "reaped"}]
         /\ posts' \in 0 .. 2
<1>1. command' \in {"none", "start", "stop"}
  BY DEF Returned
<1>2. target' \in [Clients -> {"none", "running", "reaped"}]
  BY DEF Returned, TypeOK
<1>3. posts' \in 0 .. 2
  BY DEF Returned, TypeOK
<1> QED BY <1>1, <1>2, <1>3

-----------------------------------------------------------------------------
(* Types *)

\* A step of start and activate keeps the types.
LEMMA ActivateType ==
  ASSUME TypeOK, NEW t \in Threads, ActivateNext(t) PROVE TypeOK'
<1> USE DEF TypeOK, States, Down, job_vars, proc_vars, call_vars, Release
<1>1. CASE Activate(t)
  BY <1>1, ReturnType, GotoJob, JobNames DEF Activate
<1>2. CASE Settled(t)
  BY <1>2, ReturnType DEF Settled
<1>3. CASE Condition(t)
  BY <1>3, ReturnType, GotoJob, JobNames DEF Condition
<1>4. CASE StartWindow(t)
  BY <1>4, GotoJob, JobNames, UnitAssumption DEF StartWindow, NoWindow
<1>5. CASE CountStart(t)
  <2>1. PcOK'
    BY <1>5, ReturnType, GotoJob, JobNames DEF CountStart
  <2>2. starts' \in NoWindow .. Burst + 1
    BY <1>5, UnitAssumption DEF CountStart, NoWindow
  <2>3. creds' \in BOOLEAN
    BY <1>5 DEF CountStart
  <2> QED
    BY <1>5, <2>1, <2>2, <2>3 DEF CountStart
<1>6. CASE Begin(t)
  BY <1>6, GotoJob, JobNames DEF Begin
<1>7. CASE ClearCancel(t)
  <2>1. PcOK'
    BY <1>7, GotoJob, JobNames DEF ClearCancel
  <2>2. cancel' \in BOOLEAN
    BY <1>7 DEF ClearCancel
  <2>3. posts' \in 0 .. 2
    BY <1>7, SMT DEF ClearCancel
  <2> QED
    BY <1>7, <2>1, <2>2, <2>3 DEF ClearCancel
<1>8. CASE LoadCredentials(t)
  BY <1>8, GotoJob, JobNames, UnitAssumption DEF LoadCredentials
<1>9. CASE ExecStartPre(t)
  BY <1>9, ReturnedType, GotoJob, JobNames DEF ExecStartPre
<1>10. CASE ExecStart(t)
  BY <1>10, ReturnedType, ReturnType, GotoJob, JobNames DEF ExecStart
<1>11. CASE Spawn(t)
  <2>1. CASE Goto(t, "fail.ExecStopPost") /\ UNCHANGED <<main, status>>
    BY <1>11, <2>1, GotoJob, JobNames DEF Spawn
  <2>2. ASSUME NEW p \in Procs, main' = p, status' = [status EXCEPT ![p] = "live"],
               pc' = [pc EXCEPT ![p] = "wait", ![t] = "ExecStartPost"]
        PROVE  TypeOK'
    <3>1. "wait" \in WatchSteps /\ "ExecStartPost" \in JobSteps
      BY JobNames DEF WatchSteps
    <3>2. PcOK'
      BY <2>2, <3>1, StepNames, UnitAssumption DEF PcOK, Threads
    <3> QED
      BY <1>11, <2>2, <3>2 DEF Spawn
  <2> QED
    BY <1>11, <2>1, <2>2 DEF Spawn
<1>12. CASE ExecStartPost(t)
  BY <1>12, ReturnedType, ReturnType, GotoJob, JobNames DEF ExecStartPost, AfterFailedPost
<1>13. CASE EndOneshot(t)
  BY <1>13, ReturnedType, ReturnType DEF EndOneshot
<1>14. CASE Fail(t)
  BY <1>14, ReturnedType, ReturnType DEF Fail
<1>15. CASE RunCommand(t)
  BY <1>15 DEF RunCommand, PcOK
<1>16. CASE Terminate(t)
  BY <1>16, GotoJob, JobNames DEF Terminate
<1>17. CASE Kill(t)
  BY <1>17 DEF Kill, PcOK
<1>18. CASE Reap(t)
  BY <1>18, GotoJob, JobNames DEF Reap
<1> QED
  BY <1>1, <1>2, <1>3, <1>4, <1>5, <1>6, <1>7, <1>8, <1>9, <1>10, <1>11, <1>12, <1>13, <1>14,
     <1>15, <1>16, <1>17, <1>18 DEF ActivateNext

\* So does a step of a client's other requests, with the job or without.
LEMMA ClientType ==
  ASSUME TypeOK, NEW c \in Clients,
         \/ CallNext(c) \/ RequiresUp(c) \/ Reload(c) \/ ExecReload(c) \/ StopNext(c)
         \/ RequiresFail(c) \/ MarkFailed(c) \/ ResetFailed(c) \/ MarkInactive(c)
  PROVE  TypeOK'
<1> USE DEF TypeOK, States, Down, job_vars, proc_vars, call_vars, Release, Threads
<1>0. {"idle", "deps", "mark", "reset", "reload", "flag", "cancel", "signal", "kill", "job"}
         \subseteq ClientSteps
  BY DEF ClientSteps
<1>1. CASE CallNext(c) \/ RequiresUp(c)
  BY <1>0, <1>1, GotoClient DEF CallNext, CallStart, CallStop, CallReload, RequiresUp
<1>2. CASE Reload(c)
  BY <1>0, <1>2, GotoClient, GotoJob, JobNames DEF Reload
<1>3. CASE ExecReload(c)
  BY <1>3, ReturnedType, ReturnType DEF ExecReload
<1>4. CASE FlagStop(c) \/ CancelRestart(c)
  BY <1>0, <1>4, GotoClient DEF FlagStop, CancelRestart
<1>5. CASE ReadCurrent(c) \/ SignalCurrent(c)
  BY <1>0, <1>5, GotoClient DEF ReadCurrent, SignalCurrent
<1>6. CASE TakeDown(c)
  <2>1. PcOK'
    BY <1>0, <1>6, GotoClient, GotoJob, JobNames DEF TakeDown, Finish
  <2>2. creds' \in BOOLEAN /\ then' \in [Clients -> {"idle", "deps"}]
    BY <1>6 DEF TakeDown, Finish
  <2> QED
    BY <1>6, <2>1, <2>2 DEF TakeDown
<1>7. CASE ExecStop(c)
  BY <1>7, ReturnedType, GotoJob, JobNames DEF ExecStop
<1>8. CASE Stopped(c)
  BY <1>0, <1>8, ReturnedType, GotoClient DEF Stopped, Finish
<1>9. CASE RequiresFail(c) \/ MarkFailed(c)
  BY <1>0, <1>9, GotoClient DEF RequiresFail, MarkFailed
<1>10. CASE ResetFailed(c) \/ MarkInactive(c)
  BY <1>0, <1>10, GotoClient, UnitAssumption DEF ResetFailed, MarkInactive, NoWindow, PcOK
<1> QED
  BY <1>1, <1>2, <1>3, <1>4, <1>5, <1>6, <1>7, <1>8, <1>9, <1>10 DEF StopNext

\* So does a step of watch(), and the exit it waits for.
LEMMA WatchType ==
  ASSUME TypeOK, NEW p \in Procs, WatchNext(p) PROVE TypeOK'
<1> USE DEF TypeOK, States, Down, job_vars, proc_vars, call_vars, Release, Threads
<1>0. {"free", "wait", "watch", "backoff", "deps", "depfail"} \subseteq WatchSteps
  BY DEF WatchSteps
<1>1. CASE Exit(p)
  BY <1>1 DEF Exit, PcOK
<1>2. CASE NoticeExit(p)
  BY <1>0, <1>2, GotoWatch DEF NoticeExit
<1>3. CASE TakeExit(p)
  BY <1>0, <1>3, GotoWatch, GotoJob, JobNames DEF TakeExit
<1>4. CASE ReapExit(p)
  BY <1>0, <1>4, GotoWatch, GotoJob, JobNames DEF ReapExit
<1>5. CASE WatchExecStop(p)
  BY <1>5, ReturnedType, GotoJob, JobNames DEF WatchExecStop
<1>6. CASE Decide(p)
  <2>1. PcOK'
    BY <1>0, <1>6, GotoWatch DEF Decide
  <2>2. command' \in {"none", "start", "stop"} /\ posts' \in 0 .. 2
        /\ target' \in [Clients -> {"none", "running", "reaped"}]
    BY <1>6, ReturnedType DEF Decide
  <2>3. creds' \in BOOLEAN
    BY <1>6 DEF Decide
  <2>4. state' \in States /\ clean' \in [Procs -> BOOLEAN]
    BY <1>6, SMT DEF Decide
  <2> QED
    BY <1>6, <2>1, <2>2, <2>3, <2>4 DEF Decide
<1>7. CASE Backoff(p) \/ RestartDeps(p)
  BY <1>0, <1>7, GotoWatch DEF Backoff, RestartDeps
<1>8. CASE RestartDepsFailed(p)
  BY <1>0, <1>8, GotoWatch DEF RestartDepsFailed
<1> QED
  BY <1>1, <1>2, <1>3, <1>4, <1>5, <1>6, <1>7, <1>8 DEF WatchNext

\* The types hold at first.
LEMMA InitType == Init => TypeOK
<1>1. Init => PcOK
  BY StepNames, UnitAssumption DEF Init, PcOK, Threads, ClientSteps, WatchSteps
<1>2. Init => stopping \in BOOLEAN /\ cancel \in BOOLEAN /\ creds \in BOOLEAN
  BY DEF Init
<1>3. Init => /\ clean \in [Procs -> BOOLEAN] /\ rest \in [Procs -> BOOLEAN]
              /\ starts \in NoWindow .. Burst + 1 /\ posts \in 0 .. 2
  BY UnitAssumption, SMT DEF Init, NoWindow
<1> QED
  BY <1>1, <1>2, <1>3, ZenonT(60) DEF Init, TypeOK, States, Down

\* Every step keeps them.
LEMMA TypeNext == TypeOK /\ [Next]_vars => TypeOK'
<1> SUFFICES ASSUME TypeOK, [Next]_vars PROVE TypeOK'
  OBVIOUS
<1>1. CASE UNCHANGED vars
  BY <1>1 DEF vars, TypeOK, PcOK
<1> QED
  BY <1>1, ActivateType, ClientType, WatchType DEF Next, JobNext, UnlockedNext

\* Every variable keeps its type, with the writes that take no job as well.
THEOREM TypeCorrect == Spec => []TypeOK
  BY InitType, TypeNext, PTL DEF Spec

-----------------------------------------------------------------------------
(* The safety of a unit *)

Unit == <<state, main, taken, posts, creds>>

\* What IdleInv says of a unit whose job is free.
Rest ==
    /\ taken = None
    /\ \/ AtRest
       \/ state = "active" /\ posts = 0
       \/ state = "activating" /\ Type # "simple" /\ main = None /\ posts = 0

\* IdleInv by the name of its conclusion.
LEMMA IdleRest == IdleInv <=> (job = None => Rest)
  BY DEF IdleInv, Rest

\* The classes of steps under the job, by name.
LEMMA JobGroups ==
  /\ Starting \union Activating \union Watching \union Stopping = JobSteps
  /\ NoProcess \subseteq JobSteps /\ WithTaken \subseteq JobSteps /\ Reaping \subseteq JobSteps
  /\ {"ExecStartPost", "ExecReload", "spawn", "ExecStart", "settle", "stop.ExecStop"} \subseteq JobSteps
  BY DEF Starting, Activating, Watching, Stopping, NoProcess, WithTaken, JobSteps, Lines,
         StartLines, StopLines, StopPostLines, TermSteps, ReapSteps, Reaping

\* Whoever is at a step under the job has it, and nobody else is at one.
LEMMA Holder ==
  ASSUME JobInv, NEW t \in Threads, pc[t] \in JobSteps
  PROVE  job = t /\ job # None /\ \A u \in Threads \ {t} : pc[u] \notin JobSteps
  BY UnitAssumption DEF JobInv, Threads

\* With the job free nobody is at a step under it.
LEMMA NoHolder ==
  ASSUME JobInv, job = None PROVE \A u \in Threads : pc[u] \notin JobSteps
  BY UnitAssumption DEF JobInv, Threads

\* At any other step, StepAt says nothing.
LEMMA OtherSteps ==
  ASSUME NEW t \in Threads, pc[t] \notin JobSteps PROVE StepAt(t)
  BY JobGroups DEF StepAt

\* Nor in the next state.
LEMMA OtherStepsNext ==
  ASSUME NEW t \in Threads, pc'[t] \notin JobSteps PROVE StepAt(t)'
  BY JobGroups DEF StepAt

\* A step from one step under the job to another: what the holder then knows is enough.
LEMMA KeepsJob ==
  ASSUME PcOK, JobInv, NEW t \in Threads, NEW step \in JobSteps,
         pc[t] \in JobSteps, Goto(t, step), job' = job, StepAt(t)'
  PROVE  JobInv' /\ IdleInv' /\ StepInv'
<1>1. job = t /\ job # None /\ \A u \in Threads \ {t} : pc[u] \notin JobSteps
  BY Holder
<1>2. pc'[t] = step /\ \A u \in Threads \ {t} : pc'[u] = pc[u]
  BY DEF Goto, PcOK
<1>3. JobInv'
  BY <1>1, <1>2 DEF JobInv
<1>4. StepInv'
  BY <1>1, <1>2, OtherStepsNext DEF StepInv
<1> QED
  BY <1>1, <1>3, <1>4 DEF IdleInv

\* A step that takes the job.
LEMMA TakesJob ==
  ASSUME PcOK, JobInv, NEW t \in Threads, NEW step \in JobSteps,
         job = None, job' = t, Goto(t, step), StepAt(t)'
  PROVE  JobInv' /\ IdleInv' /\ StepInv'
<1>1. \A u \in Threads : pc[u] \notin JobSteps
  BY NoHolder
<1>2. pc'[t] = step /\ \A u \in Threads \ {t} : pc'[u] = pc[u]
  BY DEF Goto, PcOK
<1>3. JobInv'
  BY <1>1, <1>2 DEF JobInv
<1>4. StepInv'
  BY <1>1, <1>2, OtherStepsNext DEF StepInv
<1> QED
  BY <1>3, <1>4, UnitAssumption DEF IdleInv, Threads

\* A step that ends with the job free: the unit has to be as IdleInv has it.
LEMMA GivesJobUp ==
  ASSUME PcOK, JobInv, NEW t \in Threads, NEW step, step \notin JobSteps,
         job = None \/ pc[t] \in JobSteps, job' = None, Goto(t, step), Rest'
  PROVE  JobInv' /\ IdleInv' /\ StepInv'
<1>1. \A u \in Threads \ {t} : pc[u] \notin JobSteps
  BY Holder, NoHolder
<1>2. pc'[t] = step /\ \A u \in Threads \ {t} : pc'[u] = pc[u]
  BY DEF Goto, PcOK
<1>3. JobInv'
  BY <1>1, <1>2, UnitAssumption DEF JobInv, Threads
<1>4. StepInv'
  BY <1>1, <1>2, OtherStepsNext DEF StepInv
<1> QED
  BY <1>3, <1>4 DEF IdleInv, Rest

\* The same where the call ends with it.
LEMMA Returns ==
  ASSUME PcOK, JobInv, NEW t \in Threads, job = None \/ pc[t] \in JobSteps, job' = None,
         Return(t), Rest'
  PROVE  JobInv' /\ IdleInv' /\ StepInv'
  BY GivesJobUp, StepNames DEF Return, ClientSteps, WatchSteps

\* A step that has nothing to do with the job nor with what it guards.
LEMMA LeavesUnit ==
  ASSUME PcOK, JobInv, IdleInv, StepInv, NEW t \in Threads, NEW step, step \notin JobSteps,
         pc[t] \notin JobSteps, Goto(t, step), UNCHANGED <<Unit, job>>
  PROVE  JobInv' /\ IdleInv' /\ StepInv'
<1>1. pc'[t] = step /\ \A u \in Threads \ {t} : pc'[u] = pc[u]
  BY DEF Goto, PcOK
<1>2. JobInv'
  BY <1>1 DEF JobInv
<1>3. StepInv'
  <2> SUFFICES ASSUME NEW u \in Threads PROVE StepAt(u)'
    BY DEF StepInv
  <2>1. CASE u = t
    BY <1>1, <2>1, OtherStepsNext
  <2>2. CASE u # t
    BY <1>1, <2>2 DEF StepInv, StepAt, Unit, AtRest
  <2> QED
    BY <2>1, <2>2
<1> QED
  BY <1>2, <1>3 DEF IdleInv, AtRest, Unit

-----------------------------------------------------------------------------
(* Processes *)

Processes == WatchInv /\ MainInv /\ OneProcess

\* A step of a thread that does not watch a process leaves the processes as they are.
LEMMA KeepsProcesses ==
  ASSUME PcOK, JobInv, Processes, NEW t \in Threads, NEW step, Goto(t, step),
         UNCHANGED <<main, taken, status>>,
         pc[t] \notin {"wait", "watch"} \union Reaping, step \notin {"watch"} \union Reaping,
         job' = job \/ job = None \/ pc[t] \in JobSteps
  PROVE  Processes'
<1>1. pc'[t] = step /\ \A u \in Threads \ {t} : pc'[u] = pc[u]
  BY DEF Goto, PcOK
<1>2. \A p \in Procs : pc[p] \in Reaping /\ job = p => p # t /\ job' = job
  BY Holder, UnitAssumption DEF Threads
<1>3. Procs \subseteq Threads
  BY DEF Threads
<1>4. WatchInv'
  BY <1>1, <1>3 DEF WatchInv, Processes
<1>5. MainInv'
  BY DEF MainInv, Processes
<1>6. OneProcess'
  BY <1>1, <1>2, <1>3 DEF OneProcess, Processes
<1> QED
  BY <1>4, <1>5, <1>6 DEF Processes

\* The main process is taken from Unit.main, to be ended.
LEMMA TakesProcess ==
  ASSUME PcOK, JobInv, Processes, NEW t \in Threads, NEW step, Goto(t, step),
         main' = None, taken' = main, status' = status, taken = None,
         pc[t] \notin {"wait", "watch"} \union Reaping, step \notin {"watch"} \union Reaping,
         job = None \/ pc[t] \in JobSteps
  PROVE  Processes'
<1>1. pc'[t] = step /\ \A u \in Threads \ {t} : pc'[u] = pc[u]
  BY DEF Goto, PcOK
<1>2. \A p \in Procs : ~(pc[p] \in Reaping /\ job = p)
  BY Holder, UnitAssumption DEF Threads
<1>3. Procs \subseteq Threads
  BY DEF Threads
<1>4. WatchInv'
  BY <1>1, <1>3 DEF WatchInv, Processes
<1>5. MainInv'
  BY DEF MainInv, Processes
<1>6. OneProcess'
  BY <1>2, UnitAssumption DEF OneProcess, Processes
<1> QED
  BY <1>4, <1>5, <1>6 DEF Processes

-----------------------------------------------------------------------------
(* The actions of a start.  Base is what a step starts from, Kept what it  *)
(* has to show beside TypeOK.                                              *)

Base == TypeOK /\ JobInv /\ IdleInv /\ StepInv /\ Processes
Kept == JobInv /\ IdleInv /\ StepInv /\ Processes

\* IInv, grouped as the proofs use it.
LEMMA BaseIInv == IInv <=> Base
  BY DEF IInv, Base, Processes

\* activate takes the job, or finds its restart called off.
LEMMA ActivateKept ==
  ASSUME Base, NEW t \in Threads, Activate(t) PROVE Kept'
<1> USE DEF Base, Kept, TypeOK, job_vars, proc_vars, call_vars
<1>1. pc[t] = "activate" /\ job = None /\ Rest /\ UNCHANGED <<main, taken, status, state, posts, creds>>
  BY IdleRest DEF Activate
<1>2. pc[t] \notin JobSteps \union {"wait", "watch"} \union Reaping
  BY <1>1, JobGroups, StepNames DEF WatchSteps
<1>3. CASE job' = job /\ Return(t)
  <2>1. PICK step \in {"idle", "free"} : Goto(t, step)
    BY <1>3 DEF Return
  <2>2. step \notin JobSteps \union {"watch"} \union Reaping
    BY JobGroups, StepNames DEF ClientSteps, WatchSteps
  <2> QED
    BY <1>1, <1>2, <1>3, <2>1, <2>2, LeavesUnit, KeepsProcesses DEF Unit
<1>4. CASE job' = t /\ Goto(t, "settle") /\ state = "activating"
  <2>1. StepAt(t)'
    BY <1>1, <1>4 DEF StepAt, PcOK, Goto, Rest, AtRest, Down, Starting, Watching, Stopping,
                      NoProcess, WithTaken, TermSteps, ReapSteps, Reaping
  <2>2. "settle" \in JobSteps \ ({"watch"} \union Reaping)
    BY JobNames DEF Reaping
  <2> QED
    BY <1>1, <1>2, <1>4, <2>1, <2>2, TakesJob, KeepsProcesses
<1>5. CASE job' = t /\ Goto(t, "condition") /\ state \notin {"active", "activating"} /\ ~CalledOff(t)
  <2>1. StepAt(t)'
    BY <1>1, <1>5 DEF StepAt, PcOK, Goto, Rest, AtRest, CalledOff, Activating, Watching, Stopping,
                      NoProcess, WithTaken, TermSteps, ReapSteps, Reaping
  <2>2. "condition" \in JobSteps \ ({"watch"} \union Reaping)
    BY JobNames DEF Reaping
  <2> QED
    BY <1>1, <1>2, <1>5, <2>1, <2>2, TakesJob, KeepsProcesses
<1> QED
  BY <1>3, <1>4, <1>5 DEF Activate

\* A step from one line under the job to the next, and one that ends the call.
LEMMA Advances ==
  ASSUME Base, NEW t \in Threads, NEW step \in JobSteps \ Reaping, pc[t] \in JobSteps \ Reaping,
         Goto(t, step), UNCHANGED <<main, taken, status, job>>, StepAt(t)'
  PROVE  Kept'
<1>1. pc[t] \notin {"wait", "watch"} /\ step # "watch"
  BY StepNames DEF WatchSteps
<1>2. JobInv' /\ IdleInv' /\ StepInv'
  BY KeepsJob DEF Base, TypeOK
<1>3. Processes'
  BY <1>1, KeepsProcesses DEF Base, TypeOK
<1> QED
  BY <1>2, <1>3 DEF Kept

\* A step that ends the call, whatever it does to the processes.
LEMMA Ends ==
  ASSUME Base, NEW t \in Threads, NEW step, step \notin JobSteps \union {"watch"},
         pc[t] \in JobSteps \ Reaping, Goto(t, step),
         UNCHANGED <<main, taken, status>>, job' = None, Rest'
  PROVE  Kept'
<1>1. pc[t] \notin {"wait", "watch"} /\ step \notin Reaping
  BY StepNames, JobGroups DEF WatchSteps
<1>2. JobInv' /\ IdleInv' /\ StepInv'
  BY GivesJobUp DEF Base, TypeOK
<1>3. Processes'
  BY <1>1, KeepsProcesses DEF Base, TypeOK
<1> QED
  BY <1>2, <1>3 DEF Kept

\* A step that ends the call, leaving the processes alone.
LEMMA EndsCall ==
  ASSUME Base, NEW t \in Threads, pc[t] \in JobSteps \ Reaping, Return(t),
         UNCHANGED <<main, taken, status>>, job' = None, Rest'
  PROVE  Kept'
<1>1. PICK step \in {"idle", "free"} : Goto(t, step)
  BY DEF Return
<1>2. step \notin JobSteps \union {"watch"}
  BY StepNames DEF ClientSteps, WatchSteps
<1> QED
  BY <1>1, <1>2, Ends

\* The steps of an activation that neither start nor end a process.
LEMMA ActivationKept ==
  ASSUME Base, NEW t \in Threads,
         \/ Settled(t) \/ Condition(t) \/ StartWindow(t) \/ CountStart(t) \/ Begin(t) \/ ClearCancel(t)
         \/ LoadCredentials(t) \/ ExecStartPre(t) \/ ExecStart(t) \/ EndOneshot(t) \/ Fail(t)
  PROVE  Kept'
<1> USE JobNames DEF job_vars, proc_vars, call_vars, Release, Starting, Activating, Watching, Stopping,
        NoProcess, WithTaken, TermSteps, ReapSteps, Reaping, AtRest, Down
<1>0. pc \in [Threads -> Steps] /\ StepAt(t) /\ creds \in BOOLEAN
  BY DEF Base, TypeOK, PcOK, StepInv
<1>1. CASE Settled(t)
  BY <1>0, <1>1 DEF Settled, StepAt
<1>2. CASE Condition(t)
  <2>1. CASE Goto(t, IF Burst = 0 THEN "begin" ELSE "window") /\ UNCHANGED <<state, creds, job>>
    <3>1. StepAt(t)'
      BY <1>0, <1>2, <2>1 DEF Condition, StepAt, Goto
    <3> QED
      BY <1>2, <2>1, <3>1, Advances DEF Condition
  <2>2. CASE Return(t) /\ job' = None
    <3>1. AtRest /\ taken = None
      BY <1>0, <1>2 DEF Condition, StepAt
    <3>2. \/ creds' = FALSE /\ state' = "inactive"
          \/ UNCHANGED <<creds, state>>
      BY <1>0, <1>2, <2>2 DEF Condition, Goto, Return, PcOK
    <3>3. UNCHANGED <<main, taken, posts>>
      BY <1>2 DEF Condition
    <3>4. Rest'
      BY <3>1, <3>2, <3>3 DEF Rest
    <3> QED
      BY <1>2, <2>2, <3>4, EndsCall DEF Condition
  <2> QED
    BY <1>2, <2>1, <2>2 DEF Condition
<1>3. CASE StartWindow(t)
  <2>1. StepAt(t)'
    BY <1>0, <1>3 DEF StartWindow, StepAt, Goto
  <2> QED
    BY <1>3, <2>1, Advances DEF StartWindow
<1>4. CASE CountStart(t)
  <2>1. CASE job' = None /\ Return(t)
    <3>1. AtRest /\ taken = None
      BY <1>0, <1>4 DEF CountStart, StepAt
    <3>2. ~creds \/ state = "auto-restart"
      BY <3>1
    <3>3. \/ ~creds' /\ state' = "failed"
          \/ UNCHANGED <<creds, state>>
      BY <3>2, <1>4, <2>1 DEF CountStart
    <3>4. UNCHANGED <<main, taken, posts>>
      BY <1>4 DEF CountStart
    <3>5. Rest'
      BY <3>1, <3>3, <3>4 DEF Rest
    <3> QED
      BY <1>4, <2>1, <3>5, EndsCall DEF CountStart
  <2>2. CASE Goto(t, "begin") /\ UNCHANGED <<state, creds, job>>
    <3>1. StepAt(t)'
      BY <1>0, <1>4, <2>2 DEF CountStart, StepAt, Goto
    <3> QED
      BY <1>4, <2>2, <3>1, Advances DEF CountStart
  <2> QED
    BY <1>4, <2>1, <2>2 DEF CountStart
<1>5. CASE Begin(t)
  <2>1. StepAt(t)'
    BY <1>0, <1>5 DEF Begin, StepAt, Goto
  <2> QED
    BY <1>5, <2>1, Advances DEF Begin
<1>6. CASE ClearCancel(t)
  <2>1. StepAt(t)'
    BY <1>0, <1>6 DEF ClearCancel, StepAt, Goto
  <2> QED
    BY <1>6, <2>1, Advances DEF ClearCancel
<1>7. CASE LoadCredentials(t)
  <2>1. StepAt(t)'
    BY <1>0, <1>7 DEF LoadCredentials, StepAt, Goto
  <2> QED
    BY <1>7, <2>1, Advances DEF LoadCredentials
<1>8. CASE ExecStartPre(t)
  <2>1. StepAt(t)'
    BY <1>0, <1>8 DEF ExecStartPre, StepAt, Goto, Returned, StopPostLines
  <2> QED
    BY <1>8, <2>1, Advances DEF ExecStartPre, Returned
<1>9. CASE ExecStart(t)
  <2>1. CASE Return(t) /\ job' = None
    <3>1. Rest'
      BY <1>0, <1>9, <2>1 DEF ExecStart, StepAt, Returned, StopPostLines, Rest
    <3> QED
      BY <1>9, <2>1, <3>1, EndsCall DEF ExecStart, Returned
  <2>2. CASE UNCHANGED job /\ (Goto(t, "fail.ExecStopPost") \/ Goto(t, "ExecStartPost"))
    <3>1. StepAt(t)'
      BY <1>0, <1>9, <2>2 DEF ExecStart, StepAt, Goto, Returned, StopPostLines
    <3> QED
      BY <1>9, <2>2, <3>1, Advances DEF ExecStart, Returned
  <2> QED
    BY <1>9, <2>1, <2>2 DEF ExecStart
<1>10. CASE EndOneshot(t)
  <2>1. Rest'
    BY <1>0, <1>10 DEF EndOneshot, StepAt, Returned, StopPostLines, Rest
  <2> QED
    BY <1>10, <2>1, EndsCall DEF EndOneshot, Returned
<1>11. CASE Fail(t)
  <2>1. Rest'
    BY <1>0, <1>11 DEF Fail, StepAt, Returned, StopPostLines, Rest
  <2> QED
    BY <1>11, <2>1, EndsCall DEF Fail, Returned
<1> QED
  BY <1>1, <1>2, <1>3, <1>4, <1>5, <1>6, <1>7, <1>8, <1>9, <1>10, <1>11

\* The main process is started.
LEMMA SpawnKept ==
  ASSUME Base, NEW t \in Threads, Spawn(t) PROVE Kept'
<1> USE JobNames DEF job_vars, proc_vars, call_vars, Starting, Activating, Watching, Stopping,
        NoProcess, WithTaken, TermSteps, ReapSteps, Reaping
<1>0. pc \in [Threads -> Steps] /\ StepAt(t) /\ pc[t] = "spawn"
  BY DEF Base, TypeOK, PcOK, StepInv, Spawn
<1>1. CASE Goto(t, "fail.ExecStopPost") /\ UNCHANGED <<main, status>>
  <2>1. StepAt(t)'
    BY <1>0, <1>1 DEF Spawn, StepAt, Goto
  <2> QED
    BY <1>1, <2>1, Advances DEF Spawn
<1>2. ASSUME NEW p \in Procs, pc[p] = "free", status[p] = "gone", main' = p,
             status' = [status EXCEPT ![p] = "live"],
             pc' = [pc EXCEPT ![p] = "wait", ![t] = "ExecStartPost"]
      PROVE  Kept'
  <2>1. /\ pc'[t] = "ExecStartPost" /\ pc'[p] = "wait" /\ p \in Threads /\ p # t
        /\ \A u \in Threads \ {t, p} : pc'[u] = pc[u]
    BY <1>0, <1>2 DEF Threads
  <2>2. job = t /\ job # None /\ \A u \in Threads \ {t} : pc[u] \notin JobSteps
    BY <1>0, Holder DEF Base
  <2>3. UNCHANGED <<job, taken, state, posts>> /\ main = None /\ taken = None /\ main' # None
    BY <1>0, <1>2, UnitAssumption DEF Spawn, StepAt
  <2>4. "wait" \notin JobSteps
    BY StepNames DEF WatchSteps
  <2>5. JobInv'
    BY <2>1, <2>2, <2>3, <2>4 DEF JobInv
  <2>6. StepAt(t)'
    BY <1>0, <2>1, <2>3 DEF StepAt
  <2>7. StepInv'
    BY <2>1, <2>2, <2>4, <2>6, OtherStepsNext DEF StepInv
  <2>8. IdleInv'
    BY <2>2, <2>3 DEF IdleInv
  <2>9. WatchInv /\ MainInv /\ OneProcess /\ status \in [Procs -> {"live", "zombie", "gone"}]
        /\ Procs \subseteq Threads
    BY DEF Base, TypeOK, Processes, Threads
  <2>10. /\ status'[p] = "live" /\ pc'[p] = "wait"
         /\ \A q \in Procs \ {p} : status'[q] = status[q] /\ (q # t => pc'[q] = pc[q])
    BY <1>2, <2>1, <2>9
  <2>11. t \in Procs => status[t] = "gone"
    BY <1>0, <2>9 DEF WatchInv
  <2>12. \A q \in Procs : status[q] = "gone"
    BY <1>0, <2>2, <2>3, <2>9, UnitAssumption DEF OneProcess
  <2>13. WatchInv' /\ MainInv'
    BY <1>2, <2>1, <2>3, <2>9, <2>10, <2>11 DEF WatchInv, MainInv
  <2>14. OneProcess'
    BY <1>2, <2>3, <2>10, <2>12 DEF OneProcess
  <2> QED
    BY <2>5, <2>7, <2>8, <2>13, <2>14 DEF Kept, Processes
<1> QED
  BY <1>1, <1>2 DEF Spawn

\* The start is over: up, over as a oneshot, or failed with the process to be ended.
LEMMA ExecStartPostKept ==
  ASSUME Base, NEW t \in Threads, ExecStartPost(t) PROVE Kept'
<1> USE JobNames DEF Starting, Activating, Watching, Stopping, NoProcess, WithTaken, TermSteps,
        ReapSteps, Reaping
<1>0. pc \in [Threads -> Steps] /\ StepAt(t) /\ pc[t] = "ExecStartPost" /\ UNCHANGED <<posts, status>>
  BY DEF Base, TypeOK, PcOK, StepInv, ExecStartPost, Returned, StopPostLines, proc_vars
<1>1. state = "activating" /\ posts = 0 /\ taken = None /\ (main = None <=> Type # "simple")
  BY <1>0 DEF StepAt
<1>2. CASE state' = "active" /\ job' = None /\ Return(t) /\ UNCHANGED <<main, taken>>
  <2>1. Rest'
    BY <1>0, <1>1, <1>2 DEF Rest
  <2> QED
    BY <1>0, <1>2, <2>1, EndsCall
<1>3. CASE Type = "oneshot" /\ Goto(t, "end.ExecStopPost") /\ UNCHANGED <<state, job, main, taken>>
  <2>1. StepAt(t)'
    BY <1>0, <1>1, <1>3 DEF StepAt, Goto
  <2> QED
    BY <1>0, <1>3, <2>1, Advances
<1>4. CASE main' = None /\ taken' = main /\ Goto(t, AfterFailedPost) /\ UNCHANGED <<state, job>>
  <2>1. StepAt(t)'
    BY <1>0, <1>1, <1>4 DEF StepAt, Goto, AfterFailedPost
  <2>2. AfterFailedPost \in JobSteps \ ({"watch"} \union Reaping)
    BY DEF AfterFailedPost
  <2>3. JobInv' /\ IdleInv' /\ StepInv'
    BY <1>0, <1>4, <2>1, <2>2, KeepsJob DEF Base, TypeOK
  <2>4. pc[t] \notin {"wait", "watch"} \union Reaping
    BY <1>0
  <2>5. Processes'
    BY <1>0, <1>1, <1>4, <2>2, <2>4, TakesProcess DEF Base, TypeOK
  <2> QED
    BY <2>3, <2>5 DEF Kept
<1> QED
  BY <1>2, <1>3, <1>4 DEF ExecStartPost, Release

\* terminate ends the process it was given.
LEMMA TerminateKept ==
  ASSUME Base, NEW t \in Threads, RunCommand(t) \/ Terminate(t) \/ Kill(t) \/ Reap(t) PROVE Kept'
<1> USE DEF job_vars, proc_vars, call_vars
<1>0. pc \in [Threads -> Steps] /\ StepAt(t) /\ status \in [Procs -> {"live", "zombie", "gone"}]
      /\ JobInv /\ Processes /\ Procs \subseteq Threads
  BY DEF Base, TypeOK, PcOK, StepInv, Threads
<1>1. CASE RunCommand(t)
  BY <1>1 DEF RunCommand, Base, Kept, JobInv, IdleInv, StepInv, StepAt, Processes, WatchInv, MainInv,
              OneProcess, AtRest
<1>2. CASE Terminate(t)
  <2>1. StepAt(t)'
    BY <1>0, <1>2 DEF Terminate, StepAt, Goto, Starting, Activating, Watching, Stopping, NoProcess,
                      WithTaken, TermSteps, ReapSteps, Reaping
  <2> QED
    BY <1>2, <2>1, Advances, JobNames DEF Terminate, TermSteps, Reaping
<1>3. CASE Kill(t)
  <2>1. UNCHANGED <<pc, job, Unit>>
    BY <1>3 DEF Kill, Unit
  <2>2. JobInv' /\ IdleInv' /\ StepInv'
    BY <2>1 DEF Base, JobInv, IdleInv, StepInv, StepAt, AtRest, Unit
  <2>3. Processes'
    BY <1>0, <1>3, <2>1 DEF Kill, Processes, WatchInv, MainInv, OneProcess, Unit
  <2> QED
    BY <2>2, <2>3 DEF Kept
<1>4. CASE Reap(t)
  <2>1. main = None /\ taken # None /\ pc[t] \in ReapSteps
    BY <1>0, <1>4 DEF Reap, StepAt, WithTaken
  <2>2. job = t /\ job # None /\ \A u \in Threads \ {t} : pc[u] \notin JobSteps
    BY <1>0, <2>1, Holder, JobNames DEF ReapSteps
  <2>3. taken \in Procs /\ status' = [status EXCEPT ![taken] = "gone"] /\ taken' = None
        /\ UNCHANGED <<main, job, state, posts>>
    BY <1>4, <2>1 DEF Reap, Base, TypeOK
  <2>4. PICK step \in {"stop.ExecStopPost", "fail.ExecStopPost"} :
           Goto(t, step) /\ step = IF pc[t] = "stop.reap" THEN "stop.ExecStopPost" ELSE "fail.ExecStopPost"
    BY <1>4 DEF Reap
  <2>5. StepAt(t)'
    BY <1>0, <2>1, <2>3, <2>4 DEF StepAt, Goto, Starting, Activating, Watching, Stopping, NoProcess,
                                  WithTaken, TermSteps, ReapSteps, Reaping
  <2>6. JobInv' /\ IdleInv' /\ StepInv'
    BY <2>1, <2>3, <2>4, <2>5, KeepsJob, JobNames DEF Base, TypeOK, ReapSteps
  <2>7. /\ pc'[t] \notin {"wait", "watch"} \union Reaping
        /\ \A u \in Threads \ {t} : pc'[u] = pc[u]
    BY <1>0, <2>4 DEF Goto, Reaping
  <2>8. \A p \in Procs : pc[p] \notin Reaping
    BY <1>0, <2>1, <2>2, JobGroups DEF Reaping, ReapSteps
  <2>9. status[t] = "gone" \/ t \notin Procs
    BY <1>0, <2>1 DEF Processes, WatchInv, ReapSteps, Reaping
  <2>10. Processes'
    BY <1>0, <2>1, <2>3, <2>7, <2>8, <2>9 DEF Processes, WatchInv, MainInv, OneProcess
  <2> QED
    BY <2>6, <2>10 DEF Kept
<1> QED
  BY <1>1, <1>2, <1>3, <1>4

-----------------------------------------------------------------------------
(* The actions of the requests and of stop. *)

\* A client's step that has nothing to do with the job or the unit.
LEMMA ClientLeaves ==
  ASSUME Base, NEW c \in Clients, NEW step \in ClientSteps \union {"activate"},
         pc[c] \in ClientSteps, Goto(c, step), UNCHANGED <<Unit, job, status>>
  PROVE  Kept'
<1>1. /\ pc[c] \notin JobSteps \union {"wait", "watch"} \union Reaping
      /\ step \notin JobSteps \union {"watch"} \union Reaping
  BY StepNames, JobGroups DEF WatchSteps, ClientSteps
<1>2. JobInv' /\ IdleInv' /\ StepInv'
  BY <1>1, LeavesUnit DEF Base, TypeOK, Threads
<1>3. Processes'
  BY <1>1, KeepsProcesses DEF Base, TypeOK, Threads, Unit
<1> QED
  BY <1>2, <1>3 DEF Kept

\* A client takes the job.
LEMMA ClientTakes ==
  ASSUME Base, NEW c \in Clients, NEW step \in JobSteps \ Reaping, pc[c] \in ClientSteps,
         Goto(c, step), job = None, job' = c, UNCHANGED <<main, taken, status>>, StepAt(c)'
  PROVE  Kept'
<1>1. pc[c] \notin {"wait", "watch"} \union Reaping /\ step # "watch"
  BY StepNames, JobGroups DEF WatchSteps, ClientSteps
<1>2. JobInv' /\ IdleInv' /\ StepInv'
  BY TakesJob DEF Base, TypeOK, Threads
<1>3. Processes'
  BY <1>1, KeepsProcesses DEF Base, TypeOK, Threads
<1> QED
  BY <1>2, <1>3 DEF Kept

\* The requests, up to the job, and reload.
LEMMA RequestKept ==
  ASSUME Base, NEW c \in Clients, CallNext(c) \/ RequiresUp(c) \/ Reload(c) \/ ExecReload(c)
  PROVE  Kept'
<1> USE DEF job_vars, proc_vars, call_vars, Unit
<1>0. {"idle", "deps", "reload", "flag"} \subseteq ClientSteps
  BY DEF ClientSteps
<1>1. CASE CallNext(c)
  BY <1>0, <1>1, ClientLeaves DEF CallNext, CallStart, CallStop, CallReload
<1>2. CASE RequiresUp(c)
  BY <1>0, <1>2, ClientLeaves DEF RequiresUp
<1>3. CASE Reload(c)
  <2>1. CASE state = "active"
    <3>1. Rest
      BY <1>3, IdleRest DEF Reload, Base
    <3>2. StepAt(c)'
      BY <1>3, <2>1, <3>1 DEF Reload, Base, TypeOK, PcOK, Threads, StepAt, Goto, Rest, AtRest, Down,
           Starting, Activating, Watching, Stopping, NoProcess, WithTaken, TermSteps, ReapSteps, Reaping
    <3> QED
      BY <1>0, <1>3, <2>1, <3>2, ClientTakes, JobNames DEF Reload, Reaping
  <2>2. CASE state # "active"
    BY <1>0, <1>3, <2>2, ClientLeaves DEF Reload
  <2> QED
    BY <2>1, <2>2
<1>4. CASE ExecReload(c)
  <2>1. StepAt(c) /\ c \in Threads
    BY DEF Base, StepInv, Threads
  <2>2. Rest'
    BY <1>4, <2>1 DEF ExecReload, Returned, StopPostLines, StepAt, Watching, Rest
  <2> QED
    BY <1>4, <2>1, <2>2, EndsCall, JobNames DEF ExecReload, Returned, Release, Reaping
<1> QED
  BY <1>1, <1>2, <1>3, <1>4

\* The steps of stop.
LEMMA StopKept ==
  ASSUME Base, NEW c \in Clients, StopNext(c) PROVE Kept'
<1> USE DEF job_vars, proc_vars, call_vars, Unit
<1>0. {"idle", "deps", "flag", "cancel", "signal", "kill", "job"} \subseteq ClientSteps
  BY DEF ClientSteps
<1>1. CASE FlagStop(c) \/ CancelRestart(c)
  BY <1>0, <1>1, ClientLeaves DEF FlagStop, CancelRestart
<1>2. CASE ReadCurrent(c) \/ SignalCurrent(c)
  BY <1>0, <1>2, ClientLeaves DEF ReadCurrent, SignalCurrent
<1>a. /\ pc \in [Threads -> Steps] /\ c \in Threads /\ StepAt(c) /\ creds \in BOOLEAN
      /\ then[c] \in {"idle", "deps"}
  BY DEF Base, TypeOK, PcOK, Threads, StepInv
<1>3. CASE TakeDown(c) /\ IsDown
  <2>1. AtRest /\ taken = None
    BY <1>3, IdleRest DEF TakeDown, Base, Rest, IsDown, Down
  <2>2. ~creds \/ state = "auto-restart"
    BY <2>1 DEF AtRest
  <2>3. ~creds' /\ state' = "inactive" /\ UNCHANGED <<main, taken, posts, status, job>>
    BY <1>3, <2>2 DEF TakeDown
  <2>4. Rest'
    BY <2>1, <2>3 DEF Rest, AtRest, Down
  <2>5. PICK step \in {"idle", "deps"} : Goto(c, step)
    BY <1>3, <1>a DEF TakeDown, Finish
  <2>6. /\ step \notin JobSteps \union {"watch"} \union Reaping
        /\ pc[c] \notin {"wait", "watch"} \union Reaping /\ job = None
    BY <1>0, <1>3, StepNames, JobGroups DEF TakeDown, ClientSteps, WatchSteps, Reaping
  <2>7. JobInv' /\ IdleInv' /\ StepInv'
    BY <1>a, <2>3, <2>4, <2>5, <2>6, GivesJobUp DEF Base, TypeOK
  <2>8. Processes'
    BY <1>a, <2>3, <2>5, <2>6, KeepsProcesses DEF Base, TypeOK
  <2> QED
    BY <2>7, <2>8 DEF Kept
<1>4. CASE TakeDown(c) /\ ~IsDown
  <2>1. state \in {"active", "activating"} /\ posts = 0 /\ taken = None
    BY <1>4, IdleRest DEF TakeDown, Base, Rest, AtRest, IsDown, Down
  <2>2. /\ job = None /\ job' = c /\ Goto(c, "stop.ExecStop") /\ state' = "deactivating"
        /\ taken' = main /\ main' = None /\ UNCHANGED <<posts, status>> /\ pc[c] = "job"
    BY <1>4 DEF TakeDown
  <2>3. StepAt(c)'
    BY <1>a, <2>1, <2>2 DEF StepAt, Goto, Starting, Activating, Watching, Stopping, NoProcess,
           WithTaken, TermSteps, ReapSteps, Reaping
  <2>4. JobInv' /\ IdleInv' /\ StepInv'
    BY <1>a, <2>2, <2>3, TakesJob, JobNames DEF Base, TypeOK
  <2>5. Processes'
    BY <1>a, <2>1, <2>2, TakesProcess DEF Base, TypeOK, Reaping
  <2> QED
    BY <2>4, <2>5 DEF Kept
<1>5. CASE ExecStop(c)
  <2>1. StepAt(c)'
    BY <1>a, <1>5 DEF ExecStop, Returned, StopPostLines, StepAt, Goto, Starting, Activating, Watching,
           Stopping, NoProcess, WithTaken, TermSteps, ReapSteps, Reaping
  <2> QED
    BY <1>a, <1>5, <2>1, Advances, JobNames DEF ExecStop, Returned, Reaping
<1>6. CASE Stopped(c)
  <2>1. Rest'
    BY <1>a, <1>6 DEF Stopped, Returned, StopPostLines, StepAt, NoProcess, Stopping, Rest, AtRest, Down
  <2>2. PICK step \in {"idle", "deps"} : Goto(c, step)
    BY <1>6, <1>a DEF Stopped, Finish
  <2>3. step \notin JobSteps \union {"watch"}
    BY <1>0, StepNames, JobGroups DEF ClientSteps, WatchSteps
  <2> QED
    BY <1>a, <1>6, <2>1, <2>2, <2>3, Ends, JobNames DEF Stopped, Returned, Release, Reaping
<1> QED
  BY <1>1, <1>2, <1>3, <1>4, <1>5, <1>6 DEF StopNext

-----------------------------------------------------------------------------
(* The actions of watch. *)

\* A main process exits.
LEMMA ExitKept ==
  ASSUME Base, NEW p \in Procs, Exit(p) PROVE Kept'
<1>1. UNCHANGED <<pc, job, Unit>> /\ status[p] = "live" /\ status' = [status EXCEPT ![p] = "zombie"]
  BY DEF Exit, Unit, job_vars
<1>2. JobInv' /\ IdleInv' /\ StepInv'
  BY <1>1 DEF Base, JobInv, IdleInv, StepInv, StepAt, AtRest, Unit
<1>3. Processes'
  BY <1>1 DEF Base, TypeOK, Processes, WatchInv, MainInv, OneProcess, Unit
<1> QED
  BY <1>2, <1>3 DEF Kept

\* A watch() thread's step that has nothing to do with the job or the unit.
LEMMA WatchLeaves ==
  ASSUME Base, NEW p \in Procs, NEW step \in {"free", "watch", "deps", "depfail", "activate"},
         pc[p] \in WatchSteps \ {"free"}, Goto(p, step), UNCHANGED <<Unit, job, status>>,
         step = "watch" => status[p] = "zombie",
         pc[p] \in {"wait", "watch"} /\ step # "watch" => status[p] = "gone"
  PROVE  Kept'
<1>1. pc[p] \notin JobSteps \union Reaping /\ step \notin JobSteps \union Reaping
  BY StepNames, JobGroups DEF WatchSteps
<1>2. JobInv' /\ IdleInv' /\ StepInv'
  BY <1>1, LeavesUnit DEF Base, TypeOK, Threads
<1>3. pc'[p] = step /\ \A q \in Procs \ {p} : pc'[q] = pc[q]
  BY DEF Goto, Base, TypeOK, PcOK, Threads
<1>4. WatchInv' /\ MainInv' /\ OneProcess'
  BY <1>1, <1>3 DEF Base, Processes, WatchInv, MainInv, OneProcess, Unit
<1> QED
  BY <1>2, <1>4 DEF Kept, Processes

\* watch() takes the job, and the process if it is still the main one.
LEMMA TakeExitKept ==
  ASSUME Base, NEW p \in Procs, TakeExit(p) PROVE Kept'
<1>1. Rest /\ pc[p] = "watch" /\ job = None /\ UNCHANGED <<state, taken, posts, creds, status>>
      /\ p \in Threads /\ p # None
  BY IdleRest, UnitAssumption DEF TakeExit, Base, Threads
<1>2. CASE main # p
  <2>1. status[p] = "gone"
    BY <1>1, <1>2 DEF Base, Processes, OneProcess, Rest
  <2>2. Goto(p, "free") /\ UNCHANGED <<Unit, job, status>>
    BY <1>1, <1>2 DEF TakeExit, Unit
  <2> QED
    BY <1>1, <2>1, <2>2, WatchLeaves DEF WatchSteps
<1>3. CASE main = p
  <2>1. PICK step \in Reaping : Goto(p, step)
    BY <1>3 DEF TakeExit, Reaping
  <2>2. state = "active" /\ posts = 0 /\ taken = None
    BY <1>1, <1>3 DEF Rest, AtRest
  <2>3. job' = p /\ main' = None
    BY <1>3 DEF TakeExit
  <2>4. pc'[p] = step /\ \A q \in Procs \ {p} : pc'[q] = pc[q]
    BY <1>1, <2>1 DEF Goto, Base, TypeOK, PcOK, Threads
  <2>5. StepAt(p)'
    BY <1>1, <2>2, <2>3, <2>4 DEF StepAt, Starting, Activating, Watching, Stopping, NoProcess,
           WithTaken, TermSteps, ReapSteps, Reaping
  <2>6. JobInv' /\ IdleInv' /\ StepInv'
    BY <1>1, <2>1, <2>3, <2>5, TakesJob, JobGroups DEF Base, TypeOK
  <2>7. status[p] = "zombie"
    BY <1>1, <1>3 DEF Base, TypeOK, Processes, WatchInv, MainInv
  <2>8. WatchInv' /\ MainInv' /\ OneProcess'
    BY <1>1, <1>3, <2>1, <2>2, <2>3, <2>4, <2>7 DEF Base, Processes, WatchInv, MainInv, OneProcess, Reaping
  <2> QED
    BY <2>6, <2>8 DEF Kept, Processes
<1> QED
  BY <1>2, <1>3

\* watch() reaps it.
LEMMA ReapExitKept ==
  ASSUME Base, NEW p \in Procs, ReapExit(p) PROVE Kept'
<1>1. /\ p \in Threads /\ StepAt(p) /\ pc \in [Threads -> Steps] /\ pc[p] \in Reaping
      /\ status' = [status EXCEPT ![p] = "gone"] /\ UNCHANGED Unit
  BY DEF ReapExit, Base, TypeOK, PcOK, StepInv, Threads, Unit
<1>2. job = p /\ job # None /\ \A u \in Threads \ {p} : pc[u] \notin JobSteps
  BY <1>1, Holder, JobGroups DEF Base
<1>3. main = None /\ taken = None /\ state = "active" /\ posts = 0
  BY <1>1 DEF StepAt, Watching, NoProcess
<1>4. PICK step \in {"free", "watch.ExecStop"} :
         /\ Goto(p, step)
         /\ step = "free" => job' = None
         /\ step = "watch.ExecStop" => job' = job
  BY DEF ReapExit, Release
<1>5. pc'[p] = step /\ \A u \in Threads \ {p} : pc'[u] = pc[u]
  BY <1>1, <1>4 DEF Goto
<1>6. JobInv' /\ IdleInv' /\ StepInv'
  <2>1. CASE step = "free"
    <3>1. Rest' /\ "free" \notin JobSteps
      BY <1>1, <1>3, StepNames DEF Rest, Unit, WatchSteps
    <3> QED
      BY <1>1, <1>4, <2>1, <3>1, GivesJobUp, JobGroups DEF Base, TypeOK
  <2>2. CASE step = "watch.ExecStop"
    <3>1. StepAt(p)'
      BY <1>1, <1>3, <1>5, <2>2 DEF Unit, StepAt, Starting, Activating, Watching, Stopping, NoProcess,
             WithTaken, TermSteps, ReapSteps, Reaping
    <3> QED
      BY <1>1, <1>4, <2>2, <3>1, KeepsJob, JobGroups, JobNames DEF Base, TypeOK
  <2> QED
    BY <1>4, <2>1, <2>2
<1>7. \A q \in Procs \ {p} : pc[q] \notin Reaping /\ status[q] = "gone" /\ status'[q] = "gone"
  BY <1>1, <1>2, <1>3, JobGroups, UnitAssumption DEF Base, TypeOK, Processes, OneProcess, Threads
<1>8. status'[p] = "gone"
  BY <1>1 DEF Base, TypeOK
<1>9. WatchInv' /\ MainInv' /\ OneProcess'
  BY <1>1, <1>3, <1>5, <1>7, <1>8, <1>4 DEF WatchInv, MainInv, OneProcess, Unit, Reaping, Threads, Base, Processes
<1> QED
  BY <1>6, <1>9 DEF Kept, Processes

\* The other steps of watch().
LEMMA WatchKept ==
  ASSUME Base, NEW p \in Procs, WatchNext(p) PROVE Kept'
<1> USE DEF job_vars, proc_vars, call_vars, Unit
<1>a. /\ pc \in [Threads -> Steps] /\ p \in Threads /\ StepAt(p)
      /\ status \in [Procs -> {"live", "zombie", "gone"}]
  BY DEF Base, TypeOK, PcOK, Threads, StepInv
<1>1. CASE Exit(p) \/ TakeExit(p) \/ ReapExit(p)
  BY <1>1, ExitKept, TakeExitKept, ReapExitKept
<1>2. CASE NoticeExit(p)
  BY <1>2, <1>a, WatchLeaves DEF NoticeExit, WatchSteps
<1>3. CASE WatchExecStop(p)
  <2>1. StepAt(p)'
    BY <1>a, <1>3 DEF WatchExecStop, Returned, StopPostLines, StepAt, Goto, Starting, Activating,
           Watching, Stopping, NoProcess, WithTaken, TermSteps, ReapSteps, Reaping
  <2> QED
    BY <1>a, <1>3, <2>1, Advances, JobNames DEF WatchExecStop, Returned, Reaping
<1>4. CASE Decide(p)
  <2>1. main = None /\ taken = None /\ posts = 0
    BY <1>a, <1>4 DEF Decide, Returned, StepAt, Watching, NoProcess
  <2>2. UNCHANGED <<main, taken, status>> /\ job' = None /\ posts' = 1
    BY <1>4, <2>1 DEF Decide, Returned, StopPostLines, Release
  <2>3. state' = "auto-restart" \/ (state' \in {"inactive", "failed"} /\ creds' = FALSE)
    BY <1>4 DEF Decide
  <2>4. Rest'
    BY <2>1, <2>2, <2>3 DEF Rest, AtRest, Down
  <2>5. PICK step \in {"backoff", "free"} : Goto(p, step)
    BY <1>4 DEF Decide
  <2>6. step \notin JobSteps \union {"watch"}
    BY StepNames DEF WatchSteps
  <2> QED
    BY <1>a, <1>4, <2>2, <2>4, <2>5, <2>6, Ends, JobNames DEF Decide, Returned, Reaping
<1>5. CASE Backoff(p) \/ RestartDeps(p)
  BY <1>5, <1>a, WatchLeaves DEF Backoff, RestartDeps, WatchSteps
<1>6. CASE RestartDepsFailed(p)
  <2>1. Rest /\ job = None /\ job' = None /\ pc[p] = "depfail" /\ Goto(p, "free")
        /\ UNCHANGED <<main, taken, posts, status>>
    BY <1>6, IdleRest DEF RestartDepsFailed, Base
  <2>2. \/ state = "auto-restart" /\ state' = "failed" /\ creds' = FALSE
        \/ UNCHANGED <<state, creds>>
    BY <1>6 DEF RestartDepsFailed
  <2>3. Rest'
    BY <2>1, <2>2 DEF Rest, AtRest, Down
  <2>4. /\ "free" \notin JobSteps \union {"watch"} \union Reaping
        /\ pc[p] \notin {"wait", "watch"} \union Reaping
    BY <2>1, StepNames, JobGroups DEF WatchSteps
  <2>5. JobInv' /\ IdleInv' /\ StepInv'
    BY <1>a, <2>1, <2>3, <2>4, GivesJobUp DEF Base, TypeOK
  <2>6. Processes'
    BY <1>a, <2>1, <2>4, KeepsProcesses DEF Base, TypeOK
  <2> QED
    BY <2>5, <2>6 DEF Kept
<1> QED
  BY <1>1, <1>2, <1>3, <1>4, <1>5, <1>6 DEF WatchNext

-----------------------------------------------------------------------------
(* The invariant and what follows from it. *)

\* The invariant holds at first.
LEMMA InitBase == Init => Base
<1> SUFFICES ASSUME Init PROVE Base
  OBVIOUS
<1>1. TypeOK
  BY InitType
<1>2. \A t \in Threads : pc[t] \notin JobSteps
  BY StepNames DEF Init, ClientSteps, WatchSteps
<1>3. JobInv
  BY <1>2, UnitAssumption DEF Init, JobInv, Threads
<1>4. StepInv
  BY <1>2, OtherSteps DEF StepInv
<1>5. IdleInv
  BY DEF Init, IdleInv, AtRest, Down
<1>6. Procs \subseteq Threads /\ \A p \in Procs : pc[p] \notin Reaping /\ pc[p] # "watch"
  BY UnitAssumption DEF Init, Threads, Reaping
<1>7. Processes
  BY <1>6 DEF Init, Processes, WatchInv, MainInv, OneProcess
<1> QED
  BY <1>1, <1>3, <1>4, <1>5, <1>7 DEF Base

\* Every step under the locks keeps it.
LEMMA IInvNext == IInv /\ [JobNext]_vars => IInv'
<1> SUFFICES ASSUME IInv, [JobNext]_vars PROVE IInv'
  OBVIOUS
<1>1. Base
  BY BaseIInv
<1>2. TypeOK'
  BY TypeNext DEF IInv, Next
<1>3. CASE UNCHANGED vars
  BY <1>3 DEF vars, IInv, TypeOK, PcOK, JobInv, WatchInv, MainInv, OneProcess, IdleInv, AtRest, StepInv, StepAt
<1>4. CASE JobNext
  <2>1. Kept'
    BY <1>1, <1>4, ActivateKept, ActivationKept, SpawnKept, ExecStartPostKept, TerminateKept, RequestKept,
       StopKept, WatchKept DEF JobNext, ActivateNext
  <2> QED
    BY <1>2, <2>1 DEF IInv, Kept, Processes
<1> QED
  BY <1>3, <1>4

\* The invariant behind all that follows: who has the job, what it knows of the unit at its
\* step, and what is known of a unit whose job is free.
THEOREM Invariant == JobSpec => []IInv
<1>1. Init => IInv
  BY InitBase, BaseIInv
<1> QED
  BY <1>1, IInvNext, PTL DEF JobSpec

\* The service never runs twice, and no process of it is forgotten running: each that is
\* not reaped is Unit.main, or in the hands of the thread that ends it.
THEOREM RunsOnce == JobSpec => []OneProcess
<1>1. IInv => OneProcess
  BY DEF IInv
<1> QED
  BY <1>1, Invariant, PTL

\* A unit seen down has no process, and credentials only for a restart to come.
THEOREM DownForGood == JobSpec => []DownIsDown
<1>1. IInv => DownIsDown
  BY UnitAssumption DEF IInv, TypeOK, OneProcess, IdleInv, AtRest, DownIsDown, Down
<1> QED
  BY <1>1, Invariant, PTL

\* ExecStopPost= runs exactly once between two activations.
THEOREM StopPostRunsOnce == JobSpec => []StopPostOnce
<1>1. IInv => StopPostOnce
  <2> SUFFICES ASSUME IInv PROVE StopPostOnce
    OBVIOUS
  <2>1. CASE job = None
    BY <2>1 DEF IInv, IdleInv, AtRest, StopPostOnce, Down
  <2>2. CASE job # None
    <3>1. job \in Threads /\ pc[job] \in JobSteps /\ StepAt(job)
      BY <2>2 DEF IInv, TypeOK, JobInv, StepInv
    <3>2. posts \in {0, 1}
      BY <3>1, JobGroups DEF StepAt, AtRest
    <3> QED
      BY <2>2, <3>2 DEF StopPostOnce
  <2> QED
    BY <2>1, <2>2
<1> QED
  BY <1>1, Invariant, PTL

\* No signal goes to a group whose leader was reaped.
THEOREM SignalsStayOwn == JobSpec => []SignalsOwnGroup
<1>1. IInv => SignalsOwnGroup
  BY DEF IInv, StepInv, StepAt, WithTaken, MainInv, WatchInv, SignalsOwnGroup
<1> QED
  BY <1>1, Invariant, PTL

-----------------------------------------------------------------------------
(* What those who see the unit from outside are promised *)

Up == \E p \in Procs : status[p] # "gone"

\* At a step that has no process, the process table has none.
LEMMA NoneRuns ==
  ASSUME IInv, NEW t \in Threads, pc[t] \in NoProcess \ Reaping PROVE ~Up
<1>1. main = None /\ taken = None
  BY DEF IInv, StepInv, StepAt
<1>2. job = t
  BY Holder, JobGroups DEF IInv
<1> QED
  BY <1>1, <1>2, UnitAssumption DEF Up, IInv, OneProcess

\* A step that changes neither the state nor what runs.
LEMMA Stutters ==
  ASSUME state' = state, Up' = Up PROVE [Life!Next]_Life!vars
  BY DEF Life!vars, Up

\* A step that changes the state only, as ServiceLife allows.
LEMMA Moves ==
  ASSUME status' = status, state' # state,
         \/ state \in Down /\ state' \in {"activating", "inactive", "failed"}
         \/ state = "activating" /\ state' \in {"active", "deactivating"}
         \/ state = "activating" /\ ~Up /\ state' \in {"inactive", "failed"}
         \/ state = "active" /\ state' = "deactivating"
         \/ state = "active" /\ ~Up /\ state' \in Down
         \/ state = "deactivating" /\ ~Up /\ state' = "inactive"
  PROVE  Life!Next
<1> USE DEF Life!Next, Life!Down, Down
<1>1. Up' = Up
  BY DEF Up
<1>2. CASE state \in Down /\ state' \in {"activating", "inactive", "failed"}
  BY <1>1, <1>2 DEF Life!Start, Life!Settle, Up
<1>3. CASE state = "activating" /\ state' \in {"active", "deactivating"}
  BY <1>1, <1>3 DEF Life!Up, Life!Stop, Up
<1>4. CASE state = "activating" /\ ~Up /\ state' \in {"inactive", "failed"}
  BY <1>1, <1>4 DEF Life!Finish, Up
<1>5. CASE state = "active" /\ state' = "deactivating"
  BY <1>1, <1>5 DEF Life!Stop, Up
<1>6. CASE state = "active" /\ ~Up /\ state' \in Down
  BY <1>1, <1>6 DEF Life!Decide, Up
<1>7. CASE state = "deactivating" /\ ~Up /\ state' = "inactive"
  BY <1>1, <1>7 DEF Life!Stopped, Up
<1> QED
  BY <1>2, <1>3, <1>4, <1>5, <1>6, <1>7

\* A step of start and activate is one of ServiceLife's or a stutter.
LEMMA StartLife ==
  ASSUME IInv, NEW t \in Threads, ActivateNext(t) PROVE [Life!Next]_Life!vars
<1> USE DEF job_vars, proc_vars, call_vars
<1>a. StepAt(t) /\ status \in [Procs -> {"live", "zombie", "gone"}] /\ creds \in BOOLEAN
  BY DEF IInv, TypeOK, StepInv
<1>1. CASE \/ Activate(t) \/ Settled(t) \/ StartWindow(t) \/ Begin(t) \/ LoadCredentials(t)
           \/ ExecStartPre(t) \/ ExecStart(t) \/ RunCommand(t) \/ Terminate(t)
  <2>1. UNCHANGED <<state, status>>
    BY <1>1 DEF Activate, Settled, StartWindow, Begin, LoadCredentials, ExecStartPre, ExecStart,
                RunCommand, Terminate
  <2> QED
    BY <2>1, Stutters DEF Up
<1>2. CASE Condition(t) \/ CountStart(t) \/ ClearCancel(t)
  <2>1. pc[t] \in Starting /\ state \in Down
    BY <1>2, <1>a DEF Condition, CountStart, ClearCancel, Starting, StepAt, AtRest
  <2>2. status' = status /\ (state' = state \/ state' \in {"activating", "inactive", "failed"})
    BY <1>2 DEF Condition, CountStart, ClearCancel
  <2> QED
    BY <2>1, <2>2, Moves, Stutters DEF Up
<1>3. CASE Spawn(t)
  <2>1. ~Up /\ state = "activating" /\ state' = state
    BY <1>3, <1>a, NoneRuns DEF Spawn, NoProcess, Reaping, StepAt, Activating
  <2>2. CASE status' = status
    BY <2>1, <2>2, Stutters DEF Up
  <2>3. CASE \E p \in Procs : status' = [status EXCEPT ![p] = "live"]
    <3>1. Up'
      BY <2>3, <1>a DEF Up
    <3>2. Life!Launch
      BY <2>1, <3>1 DEF Life!Launch, Up
    <3> QED
      BY <3>2 DEF Life!Next
  <2> QED
    BY <1>3, <2>2, <2>3 DEF Spawn
<1>4. CASE ExecStartPost(t)
  <2>1. state = "activating" /\ status' = status /\ state' \in {"active", state}
    BY <1>4, <1>a DEF ExecStartPost, Returned, StepAt, Activating
  <2> QED
    BY <2>1, Moves, Stutters DEF Up
<1>5. CASE EndOneshot(t) \/ Fail(t)
  <2>1. state = "activating" /\ ~Up
    BY <1>5, <1>a, NoneRuns DEF EndOneshot, Fail, Returned, StepAt, Activating, NoProcess, Reaping
  <2>2. status' = status /\ state' \in {"inactive", "failed"}
    BY <1>5 DEF EndOneshot, Fail
  <2> QED
    BY <2>1, <2>2, Moves
<1>6. CASE Kill(t)
  <2>1. state' = state /\ Up' = Up
    BY <1>6, <1>a DEF Kill, Up
  <2> QED
    BY <2>1, Stutters
<1>7. CASE Reap(t)
  <2>1. pc[t] \in ReapSteps /\ main = None /\ taken # None /\ state \in {"activating", "deactivating"}
    BY <1>7, <1>a DEF Reap, StepAt, WithTaken, Activating, Stopping, ReapSteps
  <2>2. taken \in Procs /\ status[taken] = "zombie" /\ status' = [status EXCEPT ![taken] = "gone"]
        /\ state' = state
    BY <1>7, <2>1 DEF Reap, IInv, TypeOK
  <2>3. \A p \in Procs : status[p] # "gone" => p = taken
    BY <2>1, UnitAssumption DEF IInv, OneProcess
  <2>4. Up /\ ~Up'
    BY <1>a, <2>2, <2>3 DEF Up
  <2>5. Life!End
    BY <2>1, <2>2, <2>4 DEF Life!End, Up
  <2> QED
    BY <2>5 DEF Life!Next
<1> QED
  BY <1>1, <1>2, <1>3, <1>4, <1>5, <1>6, <1>7 DEF ActivateNext

\* So is a step of a client's other requests.
LEMMA RequestLife ==
  ASSUME IInv, NEW c \in Clients,
         CallNext(c) \/ RequiresUp(c) \/ Reload(c) \/ ExecReload(c) \/ StopNext(c)
  PROVE  [Life!Next]_Life!vars
<1> USE DEF job_vars, proc_vars, call_vars
<1>a. StepAt(c) /\ c \in Threads
  BY DEF IInv, StepInv, Threads
<1>1. CASE TakeDown(c)
  <2>1. status' = status /\ (state \in Down /\ main = None => state' = "inactive")
        /\ (~(state \in Down /\ main = None) => state' = "deactivating")
    BY <1>1 DEF TakeDown, IsDown
  <2>2. state \in {"active", "activating"} \/ (state \in Down /\ main = None)
    BY <1>1, IdleRest DEF TakeDown, IInv, Rest, AtRest
  <2> QED
    BY <2>1, <2>2, Moves, Stutters DEF Up, Down
<1>2. CASE Stopped(c)
  <2>1. state = "deactivating" /\ ~Up /\ state' = "inactive" /\ status' = status
    BY <1>2, <1>a, NoneRuns DEF Stopped, Returned, StepAt, Stopping, NoProcess, Reaping
  <2> QED
    BY <2>1, Moves
<1>3. CASE ~TakeDown(c) /\ ~Stopped(c)
  <2>1. UNCHANGED <<state, status>>
    BY <1>3 DEF CallNext, CallStart, CallStop, CallReload, RequiresUp, Reload, ExecReload, StopNext,
                FlagStop, CancelRestart, ReadCurrent, SignalCurrent, ExecStop
  <2> QED
    BY <2>1, Stutters DEF Up
<1> QED
  BY <1>1, <1>2, <1>3

\* So is a step of watch().
LEMMA WatchLife ==
  ASSUME IInv, NEW p \in Procs, WatchNext(p) PROVE [Life!Next]_Life!vars
<1> USE DEF job_vars, proc_vars, call_vars
<1>a. StepAt(p) /\ p \in Threads /\ status \in [Procs -> {"live", "zombie", "gone"}]
  BY DEF IInv, TypeOK, StepInv, Threads
<1>1. CASE NoticeExit(p) \/ TakeExit(p) \/ WatchExecStop(p) \/ Backoff(p) \/ RestartDeps(p)
  <2>1. UNCHANGED <<state, status>>
    BY <1>1 DEF NoticeExit, TakeExit, WatchExecStop, Backoff, RestartDeps
  <2> QED
    BY <2>1, Stutters DEF Up
<1>2. CASE Exit(p)
  <2>1. state' = state /\ Up' = Up
    BY <1>2, <1>a DEF Exit, Up
  <2> QED
    BY <2>1, Stutters
<1>3. CASE ReapExit(p)
  <2>1. pc[p] \in Reaping /\ main = None /\ taken = None /\ state = "active" /\ state' = state
    BY <1>3, <1>a DEF ReapExit, StepAt, NoProcess, Watching
  <2>2. job = p /\ status[p] = "zombie"
    BY <1>a, <2>1, Holder, JobGroups DEF IInv, WatchInv
  <2>3. \A q \in Procs : status[q] # "gone" => q = p
    BY <2>1, <2>2, UnitAssumption DEF IInv, OneProcess
  <2>4. status' = [status EXCEPT ![p] = "gone"]
    BY <1>3 DEF ReapExit
  <2>5. Up /\ ~Up'
    BY <1>a, <2>2, <2>3, <2>4 DEF Up
  <2>6. Life!End
    BY <2>1, <2>5 DEF Life!End, Up
  <2> QED
    BY <2>6 DEF Life!Next
<1>4. CASE Decide(p)
  <2>1. state = "active" /\ ~Up /\ state' \in Down /\ status' = status
    BY <1>4, <1>a, NoneRuns DEF Decide, Returned, StepAt, Watching, NoProcess, Reaping, Down
  <2> QED
    BY <2>1, Moves DEF Down
<1>5. CASE RestartDepsFailed(p)
  <2>1. status' = status /\ (state' = state \/ (state = "auto-restart" /\ state' = "failed"))
    BY <1>5 DEF RestartDepsFailed
  <2> QED
    BY <2>1, Moves, Stutters DEF Up, Down
<1> QED
  BY <1>1, <1>2, <1>3, <1>4, <1>5 DEF WatchNext

\* The unit, its threads and its job implement ServiceLife: what is-active and the process
\* table show is one service that starts, stops, fails and is restarted, one process at a
\* time, and whose every step goes through the states in their order.
THEOREM Implements == JobSpec => LifeSpec
<1>1. Init => Life!Init
  BY DEF Init, Life!Init
<1>2. IInv /\ [JobNext]_vars => [Life!Next]_Life!vars
  <2> SUFFICES ASSUME IInv, [JobNext]_vars PROVE [Life!Next]_Life!vars
    OBVIOUS
  <2>1. CASE UNCHANGED vars
    BY <2>1, Stutters DEF vars, Up
  <2>2. CASE JobNext
    BY <2>2, StartLife, RequestLife, WatchLife DEF JobNext
  <2> QED
    BY <2>1, <2>2
<1> QED
  BY <1>1, <1>2, Invariant, PTL DEF JobSpec, LifeSpec, Life!Spec

\* A stop is final for Restart=: no watch() thread takes an inactive unit out of that state,
\* however its wait, its look at the required units and its wait for the job fall.
THEOREM StopIsFinal == JobSpec => NotUndone
<1>1. IInv => (state = "inactive" => job \notin Procs)
  <2> SUFFICES ASSUME IInv, state = "inactive", job \in Procs PROVE FALSE
    OBVIOUS
  <2>1. job \in Threads /\ pc[job] \in JobSteps /\ StepAt(job)
    BY DEF IInv, JobInv, StepInv, Threads
  <2> QED
    BY <2>1, JobGroups DEF StepAt
<1>2. IInv /\ [JobNext]_vars => [state = "inactive" /\ state' # "inactive" => job \notin Procs]_vars
  BY <1>1
<1> QED
  BY <1>2, Invariant, PTL DEF JobSpec, NotUndone

-----------------------------------------------------------------------------
(* Who moves in a step, and where to *)

\* A step of a start moves its own thread, which was at a step under the job or about to
\* take it, and maybe a watch() thread that was free.
LEMMA StartMoves ==
  ASSUME PcOK, NEW t \in Threads, ActivateNext(t)
  PROVE  /\ pc[t] \in JobSteps \union {"activate"}
         /\ \A u \in Threads : pc[u] \notin JobSteps \union {"activate", "free"} => pc'[u] = pc[u]
         /\ \A u \in Threads : pc'[u] = "clear" => pc[u] = "clear" \/ Begin(t)
         /\ \A u \in Threads : pc'[u] = "count" => pc[u] = "count" \/ StartWindow(t)
         /\ \A u \in Threads : pc'[u] \in {"watch.reap", "watch.remain"} => pc'[u] = pc[u]
<1> USE JobNames DEF PcOK, Goto, Return, Returned, Lines, StartLines, StopLines, StopPostLines,
        TermSteps, ReapSteps, AfterFailedPost
<1>1. CASE Activate(t) \/ Settled(t) \/ Condition(t) \/ StartWindow(t) \/ CountStart(t)
  BY <1>1 DEF Activate, Settled, Condition, StartWindow, CountStart
<1>2. CASE Begin(t) \/ ClearCancel(t) \/ LoadCredentials(t) \/ ExecStartPre(t) \/ ExecStart(t)
  BY <1>2 DEF Begin, ClearCancel, LoadCredentials, ExecStartPre, ExecStart
<1>3. CASE ExecStartPost(t) \/ EndOneshot(t) \/ Fail(t)
  BY <1>3 DEF ExecStartPost, EndOneshot, Fail
<1>4. CASE RunCommand(t) \/ Terminate(t) \/ Kill(t) \/ Reap(t)
  BY <1>4 DEF RunCommand, Terminate, Kill, Reap
<1>5. CASE Spawn(t)
  <2>1. CASE Goto(t, "fail.ExecStopPost")
    BY <1>5, <2>1 DEF Spawn
  <2>2. ASSUME NEW p \in Procs, pc[p] = "free",
               pc' = [pc EXCEPT ![p] = "wait", ![t] = "ExecStartPost"]
        PROVE  \A u \in Threads : \/ u = t /\ pc'[u] = "ExecStartPost"
                                  \/ u = p /\ pc[u] = "free" /\ pc'[u] = "wait"
                                  \/ pc'[u] = pc[u]
    BY <2>2, <1>5 DEF Threads
  <2> QED
    BY <1>5, <2>1, <2>2 DEF Spawn
<1> QED
  BY <1>1, <1>2, <1>3, <1>4, <1>5 DEF ActivateNext

\* A client's own step moves that client only, a watch() thread's that thread only.
LEMMA ClientMoves ==
  ASSUME PcOK, NEW c \in Clients,
         CallNext(c) \/ RequiresUp(c) \/ Reload(c) \/ ExecReload(c) \/ StopNext(c)
  PROVE  /\ \A u \in Threads \ {c} : pc'[u] = pc[u]
         /\ c \in Threads
  BY DEF PcOK, Threads, Goto, Return, Finish, Returned, CallNext, CallStart, CallStop, CallReload,
         RequiresUp, Reload, ExecReload, StopNext, FlagStop, CancelRestart, ReadCurrent,
         SignalCurrent, TakeDown, ExecStop, Stopped

\* A watch() thread's step moves that thread only.
LEMMA WatchMoves ==
  ASSUME PcOK, NEW p \in Procs, WatchNext(p)
  PROVE  /\ \A u \in Threads \ {p} : pc'[u] = pc[u]
         /\ p \in Threads
  BY DEF PcOK, Threads, Goto, Returned, WatchNext, Exit, NoticeExit, TakeExit, ReapExit,
         WatchExecStop, Decide, Backoff, RestartDeps, RestartDepsFailed

-----------------------------------------------------------------------------
(* Stops on their way to the job *)

Asked == \E c \in Clients : pc[c] \in Signals \union {"cancel"}
Signalling == \E c \in Clients : pc[c] \in Signals

\* A start leaves them on their way, and so does a watch() thread.
LEMMA AskedStays ==
  ASSUME PcOK, \/ \E t \in Threads : ActivateNext(t)
               \/ \E p \in Procs : WatchNext(p)
  PROVE  (Asked => Asked') /\ (Signalling => Signalling')
<1>1. \A c \in Clients : pc[c] \in Signals \union {"cancel"} =>
         c \in Threads \ Procs /\ pc[c] \notin JobSteps \union {"activate", "free"}
  BY StepNames, UnitAssumption DEF Signals, Threads, ClientSteps, WatchSteps, PcOK
<1>2. CASE \E t \in Threads : ActivateNext(t)
  BY <1>1, <1>2, StartMoves DEF Asked, Signalling
<1>3. CASE \E p \in Procs : WatchNext(p)
  BY <1>1, <1>3, WatchMoves DEF Asked, Signalling
<1> QED
  BY <1>2, <1>3

\* A client's own step loses none but by TakeDown.
LEMMA AskedMoves ==
  ASSUME PcOK, NEW c \in Clients,
         CallNext(c) \/ RequiresUp(c) \/ Reload(c) \/ ExecReload(c) \/ StopNext(c), ~TakeDown(c)
  PROVE  (Asked => Asked') /\ (Signalling => Signalling')
<1>1. /\ \A u \in Clients \ {c} : pc'[u] = pc[u]
      /\ c \in Threads
  BY ClientMoves DEF Threads
<1>2. pc[c] \in Signals => pc'[c] \in Signals
  BY <1>1 DEF PcOK, Goto, Returned, Signals, CallNext, CallStart, CallStop, CallReload, RequiresUp, Reload,
         ExecReload, StopNext, FlagStop, CancelRestart, ReadCurrent, SignalCurrent, ExecStop, Stopped
<1>3. pc[c] = "cancel" => pc'[c] \in Signals
  BY <1>1 DEF PcOK, Goto, Returned, Signals, CallNext, CallStart, CallStop, CallReload, RequiresUp, Reload,
         ExecReload, StopNext, FlagStop, CancelRestart, ReadCurrent, SignalCurrent, ExecStop, Stopped
<1> QED
  BY <1>1, <1>2, <1>3 DEF Asked, Signalling

\* When the job is taken by a stop, the unit is neither up nor coming up any more.
LEMMA TakesDown ==
  ASSUME IInv, NEW c \in Clients, TakeDown(c)
  PROVE  /\ state' \in {"inactive", "deactivating"}
         /\ \A t \in Threads : pc'[t] \notin Starting
<1>1. state' \in {"inactive", "deactivating"} /\ job = None
  BY DEF TakeDown
<1>2. \A t \in Threads : pc[t] \notin Starting
  BY <1>1, NoHolder, JobGroups DEF IInv
<1>3. PcOK /\ then[c] \in {"idle", "deps"} /\ c \in Threads
  BY DEF IInv, TypeOK, Threads
<1>4. pc'[c] \notin Starting /\ \A t \in Threads \ {c} : pc'[t] = pc[t]
  BY <1>3 DEF TakeDown, Finish, Goto, PcOK, Starting
<1> QED
  BY <1>1, <1>2, <1>4

-----------------------------------------------------------------------------
(* StopAsked and LeftActivating: for ActivatingIsStopped *)

\* Who raised stopping stays on its way until the unit is down.
LEMMA StopAskedKept ==
  ASSUME IInv, StopAsked, JobNext PROVE StopAsked'
<1> DEFINE Needed == stopping /\ (state \in {"activating", "active"} \/ \E t \in Threads : pc[t] = "clear")
<1>a. Needed => Asked
  BY DEF StopAsked, Asked
<1>b. SUFFICES ASSUME Needed' PROVE Asked'
  BY DEF StopAsked, Asked
<1>c. PcOK
  BY DEF IInv, TypeOK
<1> USE DEF job_vars, proc_vars, call_vars
<1>1. ASSUME NEW t \in Threads, ActivateNext(t) PROVE Asked'
  <2>1. stopping' => stopping
    BY <1>1 DEF ActivateNext, Activate, Settled, Condition, StartWindow, CountStart, Begin, ClearCancel,
         LoadCredentials, ExecStartPre, ExecStart, Spawn, ExecStartPost, EndOneshot, Fail, RunCommand,
         Terminate, Kill, Reap
  <2>2. ~Begin(t)
    BY <1>b DEF Begin
  <2>3. StepAt(t)
    BY DEF IInv, StepInv
  <2>4. state' \in {"activating", "active"} => state \in {"activating", "active"} \/ pc[t] = "clear"
    BY <1>1, <2>3 DEF ActivateNext, Activate, Settled, Condition, StartWindow, CountStart, Begin,
         ClearCancel, LoadCredentials, ExecStartPre, ExecStart, Spawn, ExecStartPost, EndOneshot, Fail,
         RunCommand, Terminate, Kill, Reap, Returned, StepAt, Activating
  <2>5. \A u \in Threads : pc'[u] = "clear" => pc[u] = "clear"
    BY <1>1, <1>c, <2>2, StartMoves
  <2>6. Needed
    BY <1>b, <2>1, <2>4, <2>5
  <2> QED
    BY <1>1, <1>a, <1>c, <2>6, AskedStays
<1>2. ASSUME NEW c \in Clients, CallNext(c) \/ RequiresUp(c) \/ Reload(c) \/ ExecReload(c) \/ StopNext(c)
      PROVE  Asked'
  <2>1. CASE TakeDown(c)
    BY <1>b, <2>1, TakesDown DEF Starting
  <2>2. CASE FlagStop(c)
    BY <1>c, <2>2 DEF FlagStop, Goto, PcOK, Threads, Asked
  <2>3. CASE ~TakeDown(c) /\ ~FlagStop(c)
    <3>1. (stopping' => stopping) /\ (state' \in {"activating", "active"} => state' = state)
      BY <1>2, <2>3 DEF CallNext, CallStart, CallStop, CallReload, RequiresUp, Reload, ExecReload, StopNext,
           CancelRestart, ReadCurrent, SignalCurrent, ExecStop, Stopped
    <3>2. pc'[c] # "clear"
      BY <1>2, <1>c, <2>3 DEF CallNext, CallStart, CallStop, CallReload, RequiresUp, Reload, ExecReload,
           StopNext, CancelRestart, ReadCurrent, SignalCurrent, ExecStop, Stopped, Goto, Return, Finish,
           PcOK, Threads, IInv, TypeOK
    <3>3. Needed
      BY <1>2, <1>b, <1>c, <3>1, <3>2, ClientMoves
    <3> QED
      BY <1>2, <1>a, <1>c, <2>3, <3>3, AskedMoves
  <2> QED
    BY <2>1, <2>2, <2>3
<1>3. ASSUME NEW p \in Procs, WatchNext(p) PROVE Asked'
  <2>1. stopping' = stopping /\ (state' \in {"activating", "active"} => state' = state)
    BY <1>3 DEF WatchNext, Exit, NoticeExit, TakeExit, ReapExit, WatchExecStop, Decide, Backoff,
         RestartDeps, RestartDepsFailed
  <2>2. pc'[p] = "clear" => pc[p] = "clear"
    BY <1>3, <1>c DEF WatchNext, Exit, NoticeExit, TakeExit, ReapExit, WatchExecStop, Decide, Backoff,
         RestartDeps, RestartDepsFailed, Goto, PcOK, Threads
  <2>3. Needed
    BY <1>3, <1>b, <1>c, <2>1, <2>2, WatchMoves
  <2> QED
    BY <1>3, <1>a, <1>c, <2>3, AskedStays
<1> QED
  BY <1>1, <1>2, <1>3 DEF JobNext

\* A unit left activating keeps the stop() that will take it down.
LEMMA LeftActivatingKept ==
  ASSUME IInv, StopAsked, LeftActivating, JobNext PROVE LeftActivating'
<1>a. SUFFICES ASSUME job' = None, state' = "activating" PROVE Asked'
  BY DEF LeftActivating, Asked
<1>b. PcOK
  BY DEF IInv, TypeOK
<1>c. job = None /\ state = "activating" => Asked
  BY DEF LeftActivating, Asked
<1> USE DEF job_vars, proc_vars, call_vars
<1>1. ASSUME NEW t \in Threads, ActivateNext(t) PROVE Asked'
  <2>0. StepAt(t) /\ t # None
    BY UnitAssumption DEF IInv, StepInv, Threads
  <2>1. CASE Activate(t)
    BY <2>1, <1>1, <1>a, <1>b, <1>c, AskedStays DEF Activate
  <2>2. CASE ExecStart(t)
    <3>1. job # None
      BY <2>2, Holder, JobNames DEF ExecStart, Returned, IInv
    <3>2. stopping /\ state = "activating"
      BY <2>2, <3>1, <1>a DEF ExecStart
    <3>3. Asked
      BY <3>2 DEF StopAsked, Asked
    <3> QED
      BY <1>1, <1>b, <3>3, AskedStays
  <2>3. CASE ~Activate(t) /\ ~ExecStart(t)
    <3>1. pc[t] \in JobSteps
      BY <1>1, <2>3, JobNames DEF ActivateNext, Settled, Condition, StartWindow, CountStart, Begin, ClearCancel,
           LoadCredentials, ExecStartPre, Spawn, ExecStartPost, EndOneshot, Fail, RunCommand,
           Terminate, Kill, Reap, Returned, TermSteps, ReapSteps, JobSteps
    <3>2. job # None
      BY <3>1, Holder DEF IInv
    <3>3. Settled(t) \/ Condition(t) \/ CountStart(t) \/ ExecStartPost(t) \/ EndOneshot(t) \/ Fail(t)
      BY <1>1, <2>3, <3>2, <1>a DEF ActivateNext, StartWindow, Begin, ClearCancel, LoadCredentials,
           ExecStartPre, Spawn, RunCommand, Terminate, Kill, Reap
    <3> QED
      BY <3>2, <3>3, <1>a, <2>0 DEF Settled, Condition, CountStart, ExecStartPost, EndOneshot, Fail, Returned,
           StepAt, Starting, Activating, AtRest, Down
  <2> QED
    BY <2>1, <2>2, <2>3
<1>2. ASSUME NEW c \in Clients, CallNext(c) \/ RequiresUp(c) \/ Reload(c) \/ ExecReload(c) \/ StopNext(c)
      PROVE  Asked'
  <2>0. StepAt(c) /\ c # None
    BY UnitAssumption DEF IInv, StepInv, Threads
  <2>1. CASE TakeDown(c)
    BY <1>a, <2>1, TakesDown
  <2>2. CASE ~TakeDown(c)
    <3>1. job = None /\ state = "activating"
      BY <1>2, <2>2, <1>a, <2>0 DEF CallNext, CallStart, CallStop, CallReload, RequiresUp, Reload, ExecReload,
           StopNext, FlagStop, CancelRestart, ReadCurrent, SignalCurrent, ExecStop, Stopped, Returned,
           StepAt, Watching
    <3> QED
      BY <1>2, <1>b, <1>c, <2>2, <3>1, AskedMoves
  <2> QED
    BY <2>1, <2>2
<1>3. ASSUME NEW p \in Procs, WatchNext(p) PROVE Asked'
  <2>0. StepAt(p) /\ p # None
    BY UnitAssumption DEF IInv, StepInv, Threads
  <2>1. job = None /\ state = "activating"
    BY <1>3, <1>a, <2>0 DEF WatchNext, Exit, NoticeExit, TakeExit, ReapExit, WatchExecStop, Decide, Backoff,
         RestartDeps, RestartDepsFailed, StepAt, Watching
  <2> QED
    BY <1>3, <1>b, <1>c, <2>1, AskedStays
<1> QED
  BY <1>1, <1>2, <1>3 DEF JobNext

-----------------------------------------------------------------------------
(* CancelAsked and RestartInv: for RestartPending *)

\* Who set cancel stays on its way to the job.
LEMMA CancelAskedKept ==
  ASSUME IInv, CancelAsked, JobNext PROVE CancelAsked'
<1>a. SUFFICES ASSUME cancel', state' \in {"activating", "active"} PROVE Signalling'
  BY DEF CancelAsked, Signalling
<1>b. PcOK
  BY DEF IInv, TypeOK
<1>c. cancel /\ state \in {"activating", "active"} => Signalling
  BY DEF CancelAsked, Signalling
<1> USE DEF job_vars, proc_vars, call_vars
<1>1. ASSUME NEW t \in Threads, ActivateNext(t) PROVE Signalling'
  <2>0. StepAt(t)
    BY DEF IInv, StepInv
  <2>1. ~ClearCancel(t)
    BY <1>a DEF ClearCancel
  <2>2. state \in {"activating", "active"}
    BY <1>1, <1>a, <2>0, <2>1 DEF ActivateNext, Activate, Settled, Condition, StartWindow, CountStart, Begin,
         LoadCredentials, ExecStartPre, ExecStart, Spawn, ExecStartPost, EndOneshot, Fail, RunCommand,
         Terminate, Kill, Reap, Returned, StepAt, Activating
  <2>3. cancel
    BY <1>1, <1>a, <2>1, <2>2 DEF ActivateNext, Activate, Settled, Condition, StartWindow, CountStart, Begin,
         LoadCredentials, ExecStartPre, ExecStart, Spawn, ExecStartPost, EndOneshot, Fail, RunCommand,
         Terminate, Kill, Reap
  <2> QED
    BY <1>1, <1>b, <1>c, <2>2, <2>3, AskedStays
<1>2. ASSUME NEW c \in Clients, CallNext(c) \/ RequiresUp(c) \/ Reload(c) \/ ExecReload(c) \/ StopNext(c)
      PROVE  Signalling'
  <2>1. CASE TakeDown(c)
    BY <1>a, <2>1, TakesDown
  <2>2. CASE CancelRestart(c)
    BY <1>b, <2>2 DEF CancelRestart, Goto, PcOK, Threads, Signalling, Signals
  <2>3. CASE ~TakeDown(c) /\ ~CancelRestart(c)
    <3>1. cancel /\ state \in {"activating", "active"}
      BY <1>2, <1>a, <2>3 DEF CallNext, CallStart, CallStop, CallReload, RequiresUp, Reload, ExecReload,
           StopNext, FlagStop, ReadCurrent, SignalCurrent, ExecStop, Stopped
    <3> QED
      BY <1>2, <1>b, <1>c, <2>3, <3>1, AskedMoves
  <2> QED
    BY <2>1, <2>2, <2>3
<1>3. ASSUME NEW p \in Procs, WatchNext(p) PROVE Signalling'
  <2>1. cancel /\ state \in {"activating", "active"}
    BY <1>3, <1>a DEF WatchNext, Exit, NoticeExit, TakeExit, ReapExit, WatchExecStop, Decide, Backoff,
         RestartDeps, RestartDepsFailed
  <2> QED
    BY <1>3, <1>b, <1>c, <2>1, AskedStays
<1> QED
  BY <1>1, <1>2, <1>3 DEF JobNext

OnItsWay == \E p \in Procs : pc[p] \in {"backoff", "deps", "depfail", "activate"}
Waits    == job = None /\ state = "auto-restart"
Expected == IF cancel THEN Signalling ELSE OnItsWay
Counted  == \A t \in Threads : pc[t] = "count" => starts # NoWindow

\* RestartInv by the names of its parts.
LEMMA RestartInvDef == RestartInv <=> (Waits => Expected) /\ Counted
  BY DEF RestartInv, Waits, Expected, Counted, Signalling, OnItsWay

\* A start is counted in a window that is there.
LEMMA CountedKept ==
  ASSUME IInv, Counted, JobNext PROVE Counted'
<1>a. PcOK /\ starts \in NoWindow .. Burst + 1
  BY DEF IInv, TypeOK
<1> USE DEF job_vars, proc_vars, call_vars
<1>1. ASSUME NEW t \in Threads, ActivateNext(t) PROVE Counted'
  <2>1. CASE StartWindow(t)
    BY <2>1, UnitAssumption DEF StartWindow, Counted
  <2>2. CASE ~StartWindow(t)
    <3>1. \A u \in Threads : pc'[u] = "count" => pc[u] = "count"
      BY <1>1, <1>a, <2>2, StartMoves
    <3>2. CASE CountStart(t)
      <4>1. starts' = starts \/ starts' = starts + 1 \/ starts' = Burst + 1
        BY <3>2 DEF CountStart
      <4>2. starts # NoWindow /\ t \in Threads
        BY <3>2 DEF CountStart, Counted
      <4>3. starts' # NoWindow
        BY <1>a, <4>1, <4>2, UnitAssumption DEF NoWindow
      <4> QED
        BY <4>3 DEF Counted, NoWindow
    <3>3. CASE ~CountStart(t)
      <4>1. starts' = starts
        BY <1>1, <2>2, <3>3 DEF ActivateNext, Activate, Settled, Condition, Begin, ClearCancel,
             LoadCredentials, ExecStartPre, ExecStart, Spawn, ExecStartPost, EndOneshot, Fail, RunCommand,
             Terminate, Kill, Reap
      <4> QED
        BY <3>1, <4>1 DEF Counted, NoWindow
    <3> QED
      BY <3>2, <3>3
  <2> QED
    BY <2>1, <2>2
<1>2. ASSUME NEW c \in Clients, CallNext(c) \/ RequiresUp(c) \/ Reload(c) \/ ExecReload(c) \/ StopNext(c)
      PROVE  Counted'
  <2>1. starts' = starts
    BY <1>2 DEF CallNext, CallStart, CallStop, CallReload, RequiresUp, Reload, ExecReload, StopNext,
         FlagStop, CancelRestart, ReadCurrent, SignalCurrent, TakeDown, ExecStop, Stopped
  <2>2. pc'[c] # "count"
    BY <1>2, <1>a DEF CallNext, CallStart, CallStop, CallReload, RequiresUp, Reload, ExecReload,
         StopNext, FlagStop, CancelRestart, ReadCurrent, SignalCurrent, TakeDown, ExecStop, Stopped, Goto,
         Return, Finish, PcOK, Threads, IInv, TypeOK
  <2> QED
    BY <1>2, <1>a, <2>1, <2>2, ClientMoves DEF Counted, NoWindow
<1>3. ASSUME NEW p \in Procs, WatchNext(p) PROVE Counted'
  <2>1. starts' = starts
    BY <1>3 DEF WatchNext, Exit, NoticeExit, TakeExit, ReapExit, WatchExecStop, Decide, Backoff,
         RestartDeps, RestartDepsFailed
  <2>2. pc'[p] = "count" => pc[p] = "count"
    BY <1>3, <1>a DEF WatchNext, Exit, NoticeExit, TakeExit, ReapExit, WatchExecStop, Decide, Backoff,
         RestartDeps, RestartDepsFailed, Goto, PcOK, Threads
  <2> QED
    BY <1>3, <1>a, <2>1, <2>2, WatchMoves DEF Counted, NoWindow
<1> QED
  BY <1>1, <1>2, <1>3 DEF JobNext

\* A unit in auto-restart keeps the thread that is on its way to it.
LEMMA RestartInvKept ==
  ASSUME IInv, CancelAsked, RestartInv, JobNext PROVE RestartInv'
<1>a. /\ PcOK /\ Counted /\ Counted'
      /\ Waits => Expected
      /\ cancel \in BOOLEAN
  BY RestartInvDef, CountedKept DEF IInv, TypeOK
<1>b. SUFFICES ASSUME Waits' PROVE Expected'
  BY <1>a, RestartInvDef DEF RestartInv, Waits, Expected, Counted, Signalling, OnItsWay
<1>c. job' = None /\ state' = "auto-restart"
  BY <1>b DEF Waits
<1> USE DEF job_vars, proc_vars, call_vars
<1>1. ASSUME NEW t \in Threads, ActivateNext(t) PROVE Expected'
  <2>0. StepAt(t) /\ t # None
    BY UnitAssumption DEF IInv, StepInv, Threads
  <2>1. CASE Activate(t)
    <3>1. /\ Waits /\ cancel' = cancel /\ Return(t)
          /\ t \in Procs => cancel
      BY <2>1, <1>c, <2>0 DEF Activate, CalledOff, Waits
    <3>2. CASE cancel
      BY <3>1, <3>2, <1>1, <1>a, AskedStays DEF Expected
    <3>3. CASE ~cancel
      BY <2>1, <1>c, <2>0, <3>3 DEF Activate, CalledOff
    <3> QED
      BY <3>2, <3>3
  <2>2. CASE ~Activate(t)
    <3>1. pc[t] \in JobSteps
      BY <1>1, <2>2, JobNames DEF ActivateNext, Settled, Condition, StartWindow, CountStart, Begin, ClearCancel,
           LoadCredentials, ExecStartPre, ExecStart, Spawn, ExecStartPost, EndOneshot, Fail, RunCommand,
           Terminate, Kill, Reap, Returned, TermSteps, ReapSteps, JobSteps
    <3>2. job # None
      BY <3>1, Holder DEF IInv
    <3>3. \/ Settled(t) \/ Condition(t) \/ CountStart(t) \/ ExecStart(t) \/ ExecStartPost(t)
          \/ EndOneshot(t) \/ Fail(t)
      BY <1>1, <2>2, <3>2, <1>c DEF ActivateNext, StartWindow, Begin, ClearCancel, LoadCredentials,
           ExecStartPre, Spawn, RunCommand, Terminate, Kill, Reap
    <3>4. Condition(t) \/ CountStart(t)
      BY <3>2, <3>3, <1>c, <2>0 DEF Settled, ExecStart, ExecStartPost, EndOneshot, Fail, Returned,
           StepAt, Activating
    <3>5. ~CountStart(t)
      BY <3>2, <1>c, <1>a DEF CountStart, Counted
    <3>6. ~Condition(t)
      BY <3>2, <1>c, <2>0 DEF Condition
    <3> QED
      BY <3>4, <3>5, <3>6
  <2> QED
    BY <2>1, <2>2
<1>2. ASSUME NEW c \in Clients, CallNext(c) \/ RequiresUp(c) \/ Reload(c) \/ ExecReload(c) \/ StopNext(c)
      PROVE  Expected'
  <2>0. StepAt(c) /\ c \in Threads \ Procs
    BY UnitAssumption DEF IInv, StepInv, Threads
  <2>1. ~TakeDown(c)
    BY <1>c, TakesDown
  <2>2. Waits /\ (~CancelRestart(c) => cancel' = cancel)
    BY <1>2, <2>1, <1>c, <2>0 DEF CallNext, CallStart, CallStop, CallReload, RequiresUp, Reload, ExecReload,
         StopNext, FlagStop, CancelRestart, ReadCurrent, SignalCurrent, ExecStop, Stopped, Returned,
         StepAt, Watching, Waits
  <2>3. CASE CancelRestart(c)
    <3>1. Signalling' /\ cancel'
      BY <1>a, <2>3 DEF CancelRestart, Goto, PcOK, Threads, Signalling, Signals
    <3> QED
      BY <3>1 DEF Expected
  <2>4. CASE ~CancelRestart(c)
    <3>1. OnItsWay => OnItsWay'
      BY <1>2, <1>a, <2>0, ClientMoves DEF OnItsWay, Threads
    <3> QED
      BY <1>2, <1>a, <2>1, <2>2, <2>4, <3>1, AskedMoves DEF Expected
  <2> QED
    BY <2>3, <2>4
<1>3. ASSUME NEW p \in Procs, WatchNext(p) PROVE Expected'
  <2>0. StepAt(p) /\ p \in Threads /\ p # None
    BY UnitAssumption DEF IInv, StepInv, Threads
  <2>1. cancel' = cancel
    BY <1>3 DEF WatchNext, Exit, NoticeExit, TakeExit, ReapExit, WatchExecStop, Decide, Backoff,
         RestartDeps, RestartDepsFailed
  <2>2. CASE Decide(p)
    <3>1. state = "active"
      BY <2>2, <2>0 DEF Decide, Returned, StepAt, Watching
    <3>2. pc'[p] = "backoff"
      BY <2>2, <1>a, <1>c DEF Decide, Goto, PcOK, Threads
    <3>3. cancel => Signalling
      BY <3>1 DEF CancelAsked, Signalling
    <3> QED
      BY <1>3, <1>a, <2>1, <3>2, <3>3, AskedStays DEF Expected, OnItsWay
  <2>3. CASE ~Decide(p)
    <3>1. Waits
      BY <1>3, <1>c, <2>0, <2>3 DEF WatchNext, Exit, NoticeExit, TakeExit, ReapExit, WatchExecStop, Backoff,
           RestartDeps, RestartDepsFailed, Returned, StepAt, Watching, Waits
    <3>2. CASE cancel
      BY <1>3, <1>a, <2>1, <3>1, <3>2, AskedStays DEF Expected
    <3>3. CASE ~cancel
      <4>1. PICK q \in Procs : pc[q] \in {"backoff", "deps", "depfail", "activate"}
        BY <3>1, <3>3, <1>a DEF Expected, OnItsWay
      <4>2. CASE q # p
        BY <1>3, <1>a, <2>1, <3>3, <4>1, <4>2, WatchMoves DEF Expected, OnItsWay, Threads
      <4>3. CASE q = p
        <5>1. pc'[p] \in {"backoff", "deps", "depfail", "activate"}
          BY <1>3, <1>a, <1>c, <2>0, <2>3, <3>1, <3>3, <4>1, <4>3 DEF WatchNext, Exit, NoticeExit, TakeExit, ReapExit,
               WatchExecStop, Backoff, RestartDeps, RestartDepsFailed, Returned, Reaping, Goto, PcOK, Waits
        <5> QED
          BY <2>1, <3>3, <5>1 DEF Expected, OnItsWay
      <4> QED
        BY <4>2, <4>3
    <3> QED
      BY <3>2, <3>3
  <2> QED
    BY <2>2, <2>3
<1> QED
  BY <1>1, <1>2, <1>3 DEF JobNext

-----------------------------------------------------------------------------
(* GroupInv and UpInv *)

\* What is left in a group is ended before its leader is reaped.
LEMMA GroupInvKept ==
  ASSUME IInv, GroupInv, JobNext PROVE GroupInv'
<1>a. /\ PcOK /\ WatchInv /\ Procs \subseteq Threads
      /\ status \in [Procs -> {"live", "zombie", "gone"}] /\ rest \in [Procs -> BOOLEAN]
  BY DEF IInv, TypeOK, Threads
<1>b. ASSUME UNCHANGED <<status, rest>>,
             \A p \in Procs : pc'[p] \in {"watch.reap", "watch.remain"} => pc'[p] = pc[p]
      PROVE  GroupInv'
  BY <1>b DEF GroupInv
<1> USE DEF job_vars, proc_vars, call_vars
<1>1. ASSUME NEW t \in Threads, ActivateNext(t) PROVE GroupInv'
  <2>0. \A u \in Threads : pc'[u] \in {"watch.reap", "watch.remain"} => pc'[u] = pc[u]
    BY <1>1, <1>a, StartMoves
  <2>1. CASE Spawn(t)
    <3>1. CASE status' = status
      BY <1>b, <2>0, <2>1, <3>1, <1>a DEF Spawn
    <3>2. CASE status' # status
      <4>1. PICK p \in Procs : /\ rest' = rest /\ ~rest[p]
                               /\ status' = [status EXCEPT ![p] = "live"]
        BY <2>1, <3>2 DEF Spawn
      <4> QED
        BY <1>a, <2>0, <4>1 DEF GroupInv
    <3> QED
      BY <3>1, <3>2
  <2>2. CASE Kill(t)
    <3>1. rest' = rest /\ pc' = pc /\ status' = [status EXCEPT ![taken] = "zombie"] /\ status[taken] = "live"
      BY <2>2 DEF Kill
    <3> QED
      BY <1>a, <3>1 DEF GroupInv
  <2>3. CASE Reap(t)
    <3>1. rest' = [rest EXCEPT ![taken] = FALSE] /\ status' = [status EXCEPT ![taken] = "gone"]
      BY <2>3 DEF Reap
    <3> QED
      BY <1>a, <2>0, <3>1 DEF GroupInv
  <2>4. CASE ~Spawn(t) /\ ~Kill(t) /\ ~Reap(t)
    <3>1. UNCHANGED <<status, rest>>
      BY <1>1, <2>4 DEF ActivateNext, Activate, Settled, Condition, StartWindow, CountStart, Begin,
           ClearCancel, LoadCredentials, ExecStartPre, ExecStart, ExecStartPost, EndOneshot, Fail,
           RunCommand, Terminate
    <3> QED
      BY <1>a, <1>b, <2>0, <3>1
  <2> QED
    BY <2>1, <2>2, <2>3, <2>4
<1>2. ASSUME NEW c \in Clients, CallNext(c) \/ RequiresUp(c) \/ Reload(c) \/ ExecReload(c) \/ StopNext(c)
      PROVE  GroupInv'
  <2>1. UNCHANGED <<status, rest>>
    BY <1>2 DEF CallNext, CallStart, CallStop, CallReload, RequiresUp, Reload, ExecReload, StopNext,
         FlagStop, CancelRestart, ReadCurrent, SignalCurrent, TakeDown, ExecStop, Stopped
  <2>2. \A p \in Procs : pc'[p] = pc[p]
    BY <1>2, <1>a, ClientMoves, UnitAssumption DEF Threads
  <2> QED
    BY <1>b, <2>1, <2>2
<1>3. ASSUME NEW p \in Procs, WatchNext(p) PROVE GroupInv'
  <2>0. \A q \in Procs \ {p} : pc'[q] = pc[q]
    BY <1>3, <1>a, WatchMoves DEF Threads
  <2>1. CASE Exit(p)
    <3>1. /\ pc' = pc /\ status[p] = "live" /\ status' = [status EXCEPT ![p] = "zombie"]
          /\ \E left \in BOOLEAN : rest' = [rest EXCEPT ![p] = left]
      BY <2>1 DEF Exit
    <3>2. \A q \in Procs : status'[q] = (IF q = p THEN "zombie" ELSE status[q]) /\ (q # p => rest'[q] = rest[q])
      BY <1>a, <3>1
    <3>3. pc[p] \notin Reaping
      BY <1>a, <3>1 DEF WatchInv
    <3> QED
      BY <3>1, <3>2, <3>3 DEF GroupInv, Reaping
  <2>2. CASE TakeExit(p)
    <3>1. status' = status /\ (rest' = rest \/ rest' = [rest EXCEPT ![p] = FALSE])
      BY <2>2 DEF TakeExit
    <3>2. pc'[p] = "watch.reap" => rest' = [rest EXCEPT ![p] = FALSE]
      BY <2>2, <1>a DEF TakeExit, Goto, PcOK
    <3>3. pc'[p] = "watch.remain" => RemainAfterExit
      BY <2>2, <1>a DEF TakeExit, Goto, PcOK, Remains
    <3> QED
      BY <1>a, <2>0, <3>1, <3>2, <3>3 DEF GroupInv
  <2>3. CASE ReapExit(p)
    <3>1. /\ pc[p] \in Reaping /\ rest' = rest /\ status' = [status EXCEPT ![p] = "gone"]
          /\ pc'[p] \notin Reaping
      BY <2>3, <1>a DEF ReapExit, Goto, PcOK, Reaping
    <3> QED
      BY <1>a, <2>0, <3>1 DEF GroupInv, Reaping
  <2>4. CASE ~Exit(p) /\ ~TakeExit(p) /\ ~ReapExit(p)
    <3>1. UNCHANGED <<status, rest>>
      BY <1>3, <2>4 DEF WatchNext, NoticeExit, WatchExecStop, Decide, Backoff, RestartDeps, RestartDepsFailed
    <3>2. pc'[p] \notin {"watch.reap", "watch.remain"}
      BY <1>3, <2>4, <1>a DEF WatchNext, NoticeExit, WatchExecStop, Decide, Backoff, RestartDeps,
           RestartDepsFailed, Goto, PcOK
    <3> QED
      BY <1>b, <2>0, <3>1, <3>2
  <2> QED
    BY <2>1, <2>2, <2>3, <2>4
<1> QED
  BY <1>1, <1>2, <1>3 DEF JobNext

\* An active unit keeps its process, or the thread that is at its exit.
LEMMA UpInvKept ==
  ASSUME IInv, GroupInv, UpInv, JobNext PROVE UpInv'
<1> DEFINE Watched == \E p \in Procs : pc[p] \in Watching \ {"ExecReload"}
<1>a. SUFFICES ASSUME Type = "simple", state' = "active", ~stopping'
               PROVE  main' # None \/ RemainAfterExit \/ Watched'
  BY DEF UpInv
<1>b. /\ state = "active" /\ ~stopping => main # None \/ RemainAfterExit \/ Watched
      /\ PcOK /\ OneProcess /\ stopping \in BOOLEAN
  BY <1>a DEF UpInv, IInv, TypeOK
<1> USE DEF job_vars, proc_vars, call_vars
<1>1. ASSUME NEW t \in Threads, ActivateNext(t) PROVE main' # None \/ RemainAfterExit \/ Watched'
  <2>0. StepAt(t)
    BY DEF IInv, StepInv
  <2>1. CASE ExecStartPost(t)
    BY <2>0, <2>1, <1>a DEF ExecStartPost, Returned, StepAt, Activating
  <2>2. CASE ~ExecStartPost(t)
    <3>1. state = "active"
      BY <1>1, <1>a, <2>2 DEF ActivateNext, Activate, Settled, Condition, StartWindow, CountStart, Begin,
           ClearCancel, LoadCredentials, ExecStartPre, ExecStart, Spawn, EndOneshot, Fail, RunCommand,
           Terminate, Kill, Reap
    <3>2. CASE Activate(t)
      BY <3>2, <1>1, <1>a, <1>b, <3>1, StepNames, JobGroups, StartMoves DEF Activate, Goto, Return, PcOK, Threads,
         Watching, Reaping
    <3>3. CASE RunCommand(t)
      BY <3>3, <3>1, <1>a, <1>b DEF RunCommand
    <3>4. CASE ~Activate(t) /\ ~RunCommand(t)
      BY <3>1, <3>4, <2>0, <2>2, <1>1 DEF ActivateNext, Settled, Condition, StartWindow, CountStart, Begin,
           ClearCancel, LoadCredentials, ExecStartPre, ExecStart, Spawn, EndOneshot, Fail, Terminate, Kill,
           Reap, Returned, StepAt, Starting, Activating, Stopping, AtRest, Down, TermSteps, ReapSteps
    <3> QED
      BY <3>2, <3>3, <3>4
  <2> QED
    BY <2>1, <2>2
<1>2. ASSUME NEW c \in Clients, CallNext(c) \/ RequiresUp(c) \/ Reload(c) \/ ExecReload(c) \/ StopNext(c)
      PROVE  main' # None \/ RemainAfterExit \/ Watched'
  <2>1. ~TakeDown(c)
    BY <1>a, TakesDown
  <2>2. UNCHANGED <<main, state>> /\ (stopping => stopping')
    BY <1>2, <1>a, <2>1 DEF CallNext, CallStart, CallStop, CallReload, RequiresUp, Reload, ExecReload,
         StopNext, FlagStop, CancelRestart, ReadCurrent, SignalCurrent, ExecStop, Stopped
  <2>3. \A p \in Procs : pc'[p] = pc[p]
    BY <1>2, <1>b, ClientMoves, UnitAssumption DEF Threads
  <2> QED
    BY <1>a, <1>b, <2>2, <2>3
<1>3. ASSUME NEW p \in Procs, WatchNext(p) PROVE main' # None \/ RemainAfterExit \/ Watched'
  <2>0. \A q \in Procs \ {p} : pc'[q] = pc[q]
    BY <1>3, <1>b, WatchMoves DEF Threads
  <2>1. ~Decide(p)
    BY <1>a DEF Decide
  <2>2. state = "active" /\ stopping' = stopping
    BY <1>3, <1>a, <2>1 DEF WatchNext, Exit, NoticeExit, TakeExit, ReapExit, WatchExecStop, Backoff,
         RestartDeps, RestartDepsFailed
  <2>3. CASE TakeExit(p)
    <3>1. CASE main = p
      <4>1. pc'[p] \in Reaping
        BY <2>3, <3>1, <1>b DEF TakeExit, Goto, PcOK, Threads, Reaping
      <4> QED
        BY <4>1 DEF Watching, Reaping
    <3>2. CASE main # p
      BY <2>3, <3>2, <1>a, <1>b, <2>0, <2>2 DEF TakeExit, Watching, Reaping
    <3> QED
      BY <3>1, <3>2
  <2>4. CASE ReapExit(p)
    <3>1. CASE pc[p] = "watch.remain"
      BY <3>1 DEF GroupInv
    <3>2. CASE pc[p] # "watch.remain"
      <4>1. pc'[p] = "watch.ExecStop"
        BY <2>4, <3>2, <1>a, <1>b, <2>2 DEF ReapExit, Goto, PcOK, Threads
      <4> QED
        BY <4>1 DEF Watching
    <3> QED
      BY <3>1, <3>2
  <2>5. CASE WatchExecStop(p)
    <3>1. pc'[p] = "watch.ExecStopPost"
      BY <2>5, <1>b DEF WatchExecStop, Goto, PcOK, Threads
    <3> QED
      BY <3>1 DEF Watching
  <2>6. CASE Exit(p) \/ NoticeExit(p) \/ Backoff(p) \/ RestartDeps(p) \/ RestartDepsFailed(p)
    <3>1. main' = main /\ (pc[p] \notin Watching \ {"ExecReload"} \/ pc' = pc)
      BY <2>6 DEF Exit, NoticeExit, Backoff, RestartDeps, RestartDepsFailed, Watching, Reaping
    <3> QED
      BY <1>a, <1>b, <2>0, <2>2, <3>1
  <2> QED
    BY <1>3, <2>1, <2>3, <2>4, <2>5, <2>6 DEF WatchNext
<1> QED
  BY <1>1, <1>2, <1>3 DEF JobNext

-----------------------------------------------------------------------------
(* The theorems *)

\* The further parts hold at first.
LEMMA InitPending == Init => PendingInv
<1> SUFFICES ASSUME Init PROVE PendingInv
  OBVIOUS
<1>1. GroupInv
  BY UnitAssumption DEF Init, GroupInv, Threads
<1>2. \A t \in Threads : pc[t] # "count"
  BY DEF Init
<1> QED
  BY <1>1, <1>2 DEF Init, PendingInv, StopAsked, LeftActivating, CancelAsked, RestartInv, UpInv

\* Every step under the locks keeps them, given IInv.
LEMMA PendingNext == IInv /\ PendingInv /\ [JobNext]_vars => PendingInv'
<1> SUFFICES ASSUME IInv, PendingInv, [JobNext]_vars PROVE PendingInv'
  OBVIOUS
<1>1. CASE UNCHANGED vars
  BY <1>1 DEF vars, PendingInv, GroupInv, StopAsked, LeftActivating, CancelAsked, RestartInv, UpInv
<1>2. CASE JobNext
  BY <1>2, GroupInvKept, StopAskedKept, LeftActivatingKept, CancelAskedKept, RestartInvKept, UpInvKept
     DEF PendingInv
<1> QED
  BY <1>1, <1>2

\* Whoever asked for a stop or waits for a restart is still on its way.
THEOREM NothingLost == JobSpec => [](IInv /\ PendingInv)
  BY InitPending, PendingNext, InitBase, BaseIInv, IInvNext, PTL DEF JobSpec

\* No process of a main process's group is left running once its leader is reaped, but by a
\* unit that remains active.
THEOREM GroupEnds == JobSpec => []GroupEnded
<1>1. PendingInv => GroupEnded
  BY DEF PendingInv, GroupInv, GroupEnded
<1> QED
  BY <1>1, NothingLost, PTL

\* A unit waiting for its restart is not stuck there: a watch() thread is on its way to it,
\* or a stop() that called it off.
THEOREM RestartsArePending == JobSpec => []RestartPending
<1>1. PendingInv => RestartPending
  BY DEF PendingInv, RestartInv, RestartPending, Signals
<1> QED
  BY <1>1, NothingLost, PTL

\* A unit left activating with its job free is about to be taken down.
THEOREM LeftActivatingIsStopped == JobSpec => []ActivatingIsStopped
<1>1. IInv /\ PendingInv => ActivatingIsStopped
  <2> SUFFICES ASSUME IInv, PendingInv, job = None PROVE ActivatingIsStopped
    BY DEF ActivatingIsStopped
  <2>1. state # "deactivating" /\ (state = "activating" => Type # "simple")
    BY DEF IInv, IdleInv, AtRest, Down
  <2>2. state = "activating" => \E c \in Clients : pc[c] \in {"cancel", "signal", "kill", "job"}
    BY DEF PendingInv, LeftActivating, Signals
  <2> QED
    BY <2>1, <2>2 DEF ActivatingIsStopped
<1> QED
  BY <1>1, NothingLost, PTL

\* An active Type=simple unit has its main process.
THEOREM ActiveIsUp == JobSpec => []UpIsUp
<1>1. IInv /\ PendingInv => UpIsUp
  <2> SUFFICES ASSUME IInv, PendingInv, job = None PROVE UpIsUp
    BY DEF UpIsUp
  <2>1. \A p \in Procs : pc[p] \notin Watching
    BY NoHolder, JobGroups DEF IInv, Threads
  <2> QED
    BY <2>1 DEF PendingInv, UpInv, UpIsUp
<1> QED
  BY <1>1, NothingLost, PTL
===============================================================================
