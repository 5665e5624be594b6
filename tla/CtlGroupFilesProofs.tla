-------------------------- MODULE CtlGroupFilesProofs --------------------------
(***************************************************************************)
(* Proofs about CtlGroupFiles: for any number of `groups` and `priority`   *)
(* commands, of any kind, and killed at any step.                          *)
(***************************************************************************)
EXTENDS CtlGroupFiles, TLAPS

Paths == {"group", "priority"}
\* The steps between _same_file and the close of the lock's descriptor, but for the close.
Inside == {"read", "write", "unlink"}
Holds  == Inside \union {"same", "close"}
Steps  == Holds \union {"idle", "open", "flock"}

FileAt(path) == IF path = "group" THEN group ELSE priority

\* The types.  Inodes are never used again.
ShapeInv ==
  /\ proc = [p \in Procs |-> [cmd |-> proc[p].cmd, step |-> proc[p].step, fd |-> proc[p].fd, read |-> proc[p].read]]
  /\ inodes \in Nat
  /\ lockfile \in [Paths -> (1..inodes) \union {None}]
  /\ \A p \in Procs : proc[p].step \in Steps /\ proc[p].fd \in (1..inodes) \union {None}
  /\ \A p \in Procs : proc[p].step \notin {"idle", "open"} => proc[p].fd # None

\* No two paths have one lock file.  Whoever is past flock holds the file it opened, and is past
\* _same_file only with the one at its path.
LockInv ==
  /\ \A path, other \in Paths : lockfile[path] = lockfile[other] /\ lockfile[path] # None => path = other
  /\ \A p \in Procs : proc[p].step \in Holds => proc[p].fd \in DOMAIN held /\ held[proc[p].fd] = p
  /\ \A p \in Procs : proc[p].step \in Inside => proc[p].fd = lockfile[Path(proc[p].cmd)]
  /\ \A p \in Procs : proc[p].step = "unlink" => proc[p].cmd[1] = "rm"

\* What a command is about to change is what it read, and what is owed.
ReadInv ==
  /\ \A p \in Procs : proc[p].step = "write" => proc[p].read = FileAt(Path(proc[p].cmd))
  /\ owed = [group |-> group, priority |-> priority]

FilesInv == ShapeInv /\ LockInv /\ ReadInv

-----------------------------------------------------------------------------
\* A command has one of two files.
LEMMA PathType == \A cmd : Path(cmd) \in Paths
  BY DEF Path, Paths

\* One command at a time has a file.
LEMMA OneInside ==
  ASSUME LockInv, NEW p \in Procs, NEW q \in Procs, proc[p].step \in Inside, proc[q].step \in Inside,
         Path(proc[p].cmd) = Path(proc[q].cmd)
  PROVE  p = q
  BY DEF LockInv, Holds

\* What a step makes of one process, the others staying as they are.
Sets(p, cmd, step, fd, read) ==
  /\ proc' = [q \in Procs |-> [cmd |-> proc'[q].cmd, step |-> proc'[q].step, fd |-> proc'[q].fd, read |-> proc'[q].read]]
  /\ proc'[p].cmd = cmd /\ proc'[p].step = step /\ proc'[p].fd = fd /\ proc'[p].read = read
  /\ \A q \in Procs \ {p} : proc'[q] = proc[q]

\* It is one of its fields that changes, or all of them.
LEMMA SetsAll ==
  ASSUME ShapeInv, NEW p \in Procs, NEW cmd, NEW step, NEW fd, NEW read,
         proc' = [proc EXCEPT ![p] = [cmd |-> cmd, step |-> step, fd |-> fd, read |-> read]]
  PROVE  Sets(p, cmd, step, fd, read)
  <1>1. DOMAIN proc = Procs
    BY DEF ShapeInv
  <1>2. \A q \in Procs : proc'[q] = IF q = p THEN [cmd |-> cmd, step |-> step, fd |-> fd, read |-> read] ELSE proc[q]
    BY <1>1
  <1>3. \A q \in Procs : proc[q] = [cmd |-> proc[q].cmd, step |-> proc[q].step, fd |-> proc[q].fd, read |-> proc[q].read]
    BY DEF ShapeInv
  <1>4. \A q \in Procs : proc'[q] = [cmd |-> proc'[q].cmd, step |-> proc'[q].step, fd |-> proc'[q].fd, read |-> proc'[q].read]
    BY <1>2, <1>3
  <1>5. proc' = [q \in Procs |-> proc'[q]]
    BY <1>1
  <1> QED
    BY <1>2, <1>4, <1>5 DEF Sets

\* To is a case of it ...
LEMMA SetsStep == ASSUME ShapeInv, NEW p \in Procs, NEW step, To(p, step)
  PROVE Sets(p, proc[p].cmd, step, proc[p].fd, proc[p].read)
  <1>1. proc[p] = [cmd |-> proc[p].cmd, step |-> proc[p].step, fd |-> proc[p].fd, read |-> proc[p].read]
    BY DEF ShapeInv
  <1>2. [proc[p] EXCEPT !.step = step] = [cmd |-> proc[p].cmd, step |-> step, fd |-> proc[p].fd, read |-> proc[p].read]
    BY <1>1
  <1> QED
    BY <1>2, SetsAll DEF To

\* ... and so is a process that ends.
LEMMA SetsEmpty == ASSUME ShapeInv, NEW p \in Procs, proc' = [proc EXCEPT ![p] = Empty]
  PROVE Sets(p, <<"none">>, "idle", None, None)
  BY SetsAll DEF Empty, At

\* Every step keeps the types, and the lock with its holder.
LEMMA LockNext == ASSUME None \notin Nat, ShapeInv, LockInv, [Next]_gvars PROVE ShapeInv' /\ LockInv'
  <1> USE DEF gvars
  <1>1. ASSUME NEW p \in Procs, NEW cmd, Ask(p, cmd) PROVE ShapeInv' /\ LockInv'
    <2>1. Sets(p, cmd, "open", None, None) /\ UNCHANGED <<lockfile, inodes, held>>
      BY <1>1, SetsAll DEF Ask, At
    <2> QED
      BY <2>1 DEF Sets, ShapeInv, LockInv, Steps, Holds, Inside
  <1>2. ASSUME NEW p \in Procs, Open(p) PROVE ShapeInv' /\ LockInv'
    <2> DEFINE path == Path(proc[p].cmd)
               fd   == IF lockfile[path] = None THEN inodes + 1 ELSE lockfile[path]
    <2>1. /\ inodes' = (IF lockfile[path] = None THEN inodes + 1 ELSE inodes)
          /\ lockfile' = [lockfile EXCEPT ![path] = fd]
          /\ proc' = [proc EXCEPT ![p] = [cmd |-> proc[p].cmd, step |-> "flock", fd |-> fd, read |-> proc[p].read]]
          /\ UNCHANGED held
      BY <1>2 DEF Open, At
    <2>2. path \in Paths /\ inodes \in Nat
      BY PathType DEF ShapeInv
    <2>3. fd \in 1..inodes' /\ inodes' \in Nat /\ 1..inodes \subseteq 1..inodes' /\ fd # None
      <3>1. CASE lockfile[path] = None
        BY <2>1, <2>2, <3>1
      <3>2. CASE lockfile[path] # None
        BY <2>1, <2>2, <3>2 DEF ShapeInv
      <3> QED
        BY <3>1, <3>2
    <2>4. Sets(p, proc[p].cmd, "flock", fd, proc[p].read)
      <3> HIDE DEF fd
      <3> QED
        BY <2>1, SetsAll
    <2>5. \A other \in Paths \ {path} : lockfile'[other] = lockfile[other] /\ (lockfile[other] # None => lockfile[other] # fd)
      BY <2>1, <2>2 DEF ShapeInv, LockInv
    <2>6. lockfile'[path] = fd /\ lockfile' \in [Paths -> (1..inodes') \union {None}]
      BY <2>1, <2>2, <2>3 DEF ShapeInv
    <2> HIDE DEF fd, path
    <2>7. ShapeInv'
      BY <2>1, <2>3, <2>4, <2>6 DEF Sets, ShapeInv, Steps, Holds, Inside
    <2>8. \A q \in Procs : proc'[q].step \in Holds => q # p /\ proc[q].step \in Holds
      BY <2>4 DEF Sets, Holds, Inside
    <2>9. \A q \in Procs : proc'[q].step \in Inside => proc'[q].fd = lockfile'[Path(proc'[q].cmd)]
      <3> SUFFICES ASSUME NEW q \in Procs, proc'[q].step \in Inside PROVE proc'[q].fd = lockfile'[Path(proc'[q].cmd)]
        OBVIOUS
      <3>1. q # p /\ proc'[q] = proc[q] /\ proc[q].fd = lockfile[Path(proc[q].cmd)] /\ proc[q].fd # None
        BY <2>4, <2>8 DEF Holds, Sets, LockInv, ShapeInv, Inside
      <3>2. Path(proc[q].cmd) \in Paths
        BY PathType
      <3>3. Path(proc[q].cmd) = path => lockfile'[path] = lockfile[path]
        BY <2>6, <3>1 DEF fd
      <3> QED
        BY <2>5, <3>1, <3>2, <3>3
    <2>10. \A a, b \in Paths : lockfile'[a] = lockfile'[b] /\ lockfile'[a] # None => a = b
      BY <2>2, <2>5, <2>6 DEF LockInv
    <2>11. \A q \in Procs : proc'[q].step = "unlink" => proc'[q].cmd[1] = "rm"
      BY <2>4 DEF Sets, LockInv
    <2>12. \A q \in Procs : proc'[q].step \in Holds => proc'[q].fd \in DOMAIN held' /\ held'[proc'[q].fd] = q
      BY <2>1, <2>4, <2>8 DEF Sets, LockInv
    <2> QED
      BY <2>7, <2>9, <2>10, <2>11, <2>12 DEF LockInv
  <1>3. ASSUME NEW p \in Procs, Flock(p) PROVE ShapeInv' /\ LockInv'
    <2>1. Sets(p, proc[p].cmd, "same", proc[p].fd, proc[p].read) /\ UNCHANGED <<lockfile, inodes>>
      BY <1>3, SetsStep DEF Flock
    <2>2. proc[p].fd \notin DOMAIN held /\ held' = [i \in DOMAIN held \union {proc[p].fd} |-> IF i = proc[p].fd THEN p ELSE held[i]]
      BY <1>3 DEF Flock
    <2>3. \A q \in Procs : proc'[q].step \in Holds => proc'[q].fd \in DOMAIN held' /\ held'[proc'[q].fd] = q
      BY <2>1, <2>2 DEF Sets, LockInv
    <2>4. ShapeInv'
      BY <1>3, <2>1 DEF Flock, Sets, ShapeInv, Steps, Holds
    <2>5. \A q \in Procs : proc'[q].step \in Inside => q # p /\ proc[q].step \in Inside
      BY <2>1 DEF Sets, Inside
    <2> QED
      BY <2>1, <2>3, <2>4, <2>5 DEF LockInv, Sets
  <1>4. ASSUME NEW p \in Procs, NEW step \in {"read", "write", "unlink", "close"}, NEW read,
               Sets(p, proc[p].cmd, step, proc[p].fd, read), UNCHANGED <<lockfile, inodes, held>>,
               proc[p].step \in Holds, step \in Inside => proc[p].step \in Inside \/ proc[p].fd = lockfile[Path(proc[p].cmd)],
               step = "unlink" => proc[p].cmd[1] = "rm"
        PROVE  ShapeInv' /\ LockInv'
    <2>1. \A q \in Procs : proc'[q].step \in Steps /\ proc'[q].fd \in (1..inodes) \union {None}
      BY <1>4 DEF Sets, ShapeInv, Steps, Holds, Inside
    <2>2. \A q \in Procs : proc'[q].step \notin {"idle", "open"} => proc'[q].fd # None
      BY <1>4 DEF Sets, ShapeInv, Holds, Inside
    <2>3. ShapeInv'
      BY <1>4, <2>1, <2>2 DEF Sets, ShapeInv
    <2> QED
      BY <1>4, <2>3 DEF Sets, LockInv, Holds, Inside
  <1>5. ASSUME NEW p \in Procs, NEW cmd, NEW step \in {"idle", "open"}, NEW fd \in {None, proc[p].fd}, NEW read,
               Sets(p, cmd, step, fd, read), held' = Unlocked(p) \/ (proc[p].step \notin Holds /\ UNCHANGED held),
               UNCHANGED <<lockfile, inodes>>
        PROVE  ShapeInv' /\ LockInv'
    <2>1. ShapeInv'
      BY <1>5 DEF Sets, ShapeInv, Steps
    <2>2. \A q \in Procs : proc'[q].step \in Holds => q # p /\ proc[q].step \in Holds /\ proc'[q] = proc[q]
      BY <1>5 DEF Sets, Holds, Inside
    <2>3. \A q \in Procs : proc'[q].step \in Holds => proc'[q].fd \in DOMAIN held' /\ held'[proc'[q].fd] = q
      BY <1>5, <2>2 DEF LockInv, Unlocked
    <2>4. \A q \in Procs : proc'[q].step \in Inside => proc'[q].fd = lockfile'[Path(proc'[q].cmd)]
      BY <1>5, <2>2 DEF LockInv, Holds
    <2>5. \A q \in Procs : proc'[q].step = "unlink" => proc'[q].cmd[1] = "rm"
      BY <2>2 DEF LockInv, Holds, Inside
    <2> QED
      BY <1>5, <2>1, <2>3, <2>4, <2>5 DEF LockInv
  <1>6. ASSUME NEW p \in Procs, SameFile(p) PROVE ShapeInv' /\ LockInv'
    <2>1. CASE proc[p].fd = lockfile[Path(proc[p].cmd)]
      <3>1. Sets(p, proc[p].cmd, "read", proc[p].fd, proc[p].read)
        BY <1>6, <2>1, SetsStep DEF SameFile
      <3> QED
        BY <1>4, <1>6, <2>1, <3>1 DEF SameFile, Holds
    <2>2. CASE proc[p].fd # lockfile[Path(proc[p].cmd)]
      <3>1. Sets(p, proc[p].cmd, "open", proc[p].fd, proc[p].read)
        BY <1>6, <2>2, SetsStep DEF SameFile
      <3> QED
        BY <1>5, <1>6, <2>2, <3>1 DEF SameFile
    <2> QED
      BY <2>1, <2>2
  <1>7. ASSUME NEW p \in Procs, GiveUp(p) \/ Close(p) \/ Kill(p) PROVE ShapeInv' /\ LockInv'
    <2>1. Sets(p, <<"none">>, "idle", None, None) /\ UNCHANGED <<lockfile, inodes>>
      BY <1>7, SetsEmpty DEF GiveUp, Close, Kill
    <2>2. held' = Unlocked(p) \/ (proc[p].step \notin Holds /\ UNCHANGED held)
      BY <1>7 DEF GiveUp, Close, Kill, Holds, Inside
    <2> QED
      BY <1>5, <2>1, <2>2
  <1>8. ASSUME NEW p \in Procs, Read(p) PROVE ShapeInv' /\ LockInv'
    <2> DEFINE value == FileAt(Path(proc[p].cmd))
    <2>1. proc' = [proc EXCEPT ![p] = [cmd |-> proc[p].cmd, step |-> "write", fd |-> proc[p].fd, read |-> value]]
      BY <1>8 DEF Read, FileAt, At
    <2> HIDE DEF value
    <2>2. Sets(p, proc[p].cmd, "write", proc[p].fd, value)
      BY <2>1, SetsAll
    <2> QED
      BY <1>4, <1>8, <2>2 DEF Read, Holds, Inside
  <1>9. ASSUME NEW p \in Procs, Write(p) PROVE ShapeInv' /\ LockInv'
    <2>1. PICK step \in {"close", "unlink"} : To(p, step) /\ (step = "unlink" => proc[p].cmd[1] = "rm")
      BY <1>9 DEF Write
    <2>2. Sets(p, proc[p].cmd, step, proc[p].fd, proc[p].read)
      BY <2>1, SetsStep
    <2> QED
      BY <1>4, <1>9, <2>1, <2>2 DEF Write, Holds, Inside
  <1>10. ASSUME NEW p \in Procs, Unlink(p) PROVE ShapeInv' /\ LockInv'
    <2>1. Sets(p, proc[p].cmd, "close", proc[p].fd, proc[p].read) /\ UNCHANGED <<inodes, held>>
      BY <1>10, SetsStep DEF Unlink
    <2>2. proc[p].step = "unlink" /\ proc[p].cmd[1] = "rm" /\ Path(proc[p].cmd) = "group"
      BY <1>10 DEF Unlink, LockInv, Path
    <2>3. lockfile' \in [Paths -> (1..inodes) \union {None}] /\ lockfile'["group"] = None /\ lockfile'["priority"] = lockfile["priority"]
      BY <1>10 DEF Unlink, ShapeInv, Paths
    <2>4. ShapeInv'
      BY <2>1, <2>2, <2>3 DEF Sets, ShapeInv, Steps, Holds, Inside
    <2>5. \A q \in Procs : proc'[q].step \in Inside => q # p /\ proc[q].step \in Inside /\ proc'[q] = proc[q]
      BY <2>1 DEF Sets, Inside
    <2>6. ASSUME NEW q \in Procs, proc'[q].step \in Inside PROVE proc'[q].fd = lockfile'[Path(proc'[q].cmd)]
      <3>1. Path(proc[q].cmd) # "group"
        BY <2>2, <2>5, <2>6, OneInside DEF Inside
      <3> QED
        BY <2>3, <2>5, <2>6, <3>1, PathType DEF LockInv, Paths
    <2>7. \A q \in Procs : proc'[q].step \in Holds => proc'[q].fd \in DOMAIN held' /\ held'[proc'[q].fd] = q
      BY <2>1, <2>2 DEF Sets, LockInv, Holds, Inside
    <2> QED
      BY <2>3, <2>4, <2>5, <2>6, <2>7 DEF LockInv, Paths, Inside
  <1>11. CASE Reload \/ UNCHANGED gvars
    BY <1>11 DEF Reload, ShapeInv, LockInv
  <1> QED
    BY <1>1, <1>2, <1>3, <1>6, <1>7, <1>8, <1>9, <1>10, <1>11 DEF Next

\* What a step leaves alone of the others' reads and of the files.
LEMMA ReadAside ==
  ASSUME ReadInv, NEW p \in Procs, NEW cmd, NEW step, NEW fd, NEW read, Sets(p, cmd, step, fd, read),
         step # "write", UNCHANGED <<group, priority, owed>>
  PROVE  ReadInv'
  BY DEF ReadInv, Sets, FileAt

\* Every step keeps what was read current until it is written.
LEMMA ReadNext == ASSUME ShapeInv, LockInv, ReadInv, [Next]_gvars PROVE ReadInv'
  <1> USE DEF gvars
  <1>1. ASSUME NEW p \in Procs, NEW cmd, Ask(p, cmd) PROVE ReadInv'
    <2>1. Sets(p, cmd, "open", None, None)
      BY <1>1, SetsAll DEF Ask, At
    <2> QED
      BY <1>1, <2>1, ReadAside DEF Ask
  <1>2. ASSUME NEW p \in Procs, Open(p) PROVE ReadInv'
    <2>1. PICK fd : proc' = [proc EXCEPT ![p] = [cmd |-> proc[p].cmd, step |-> "flock", fd |-> fd, read |-> proc[p].read]]
      BY <1>2 DEF Open, At
    <2>2. Sets(p, proc[p].cmd, "flock", fd, proc[p].read)
      BY <2>1, SetsAll
    <2> QED
      BY <1>2, <2>2, ReadAside DEF Open
  <1>3. ASSUME NEW p \in Procs, Flock(p) \/ SameFile(p) \/ Unlink(p) PROVE ReadInv'
    <2>1. PICK step \in {"same", "read", "open", "close"} : To(p, step)
      BY <1>3 DEF Flock, SameFile, Unlink
    <2>2. Sets(p, proc[p].cmd, step, proc[p].fd, proc[p].read)
      BY <2>1, SetsStep
    <2> QED
      BY <1>3, <2>2, ReadAside DEF Flock, SameFile, Unlink
  <1>4. ASSUME NEW p \in Procs, GiveUp(p) \/ Close(p) \/ Kill(p) PROVE ReadInv'
    <2>1. Sets(p, <<"none">>, "idle", None, None)
      BY <1>4, SetsEmpty DEF GiveUp, Close, Kill
    <2> QED
      BY <1>4, <2>1, ReadAside DEF GiveUp, Close, Kill
  <1>5. ASSUME NEW p \in Procs, Read(p) PROVE ReadInv'
    <2> DEFINE value == FileAt(Path(proc[p].cmd))
    <2>1. proc' = [proc EXCEPT ![p] = [cmd |-> proc[p].cmd, step |-> "write", fd |-> proc[p].fd, read |-> value]]
      BY <1>5 DEF Read, FileAt, At
    <2>2. Sets(p, proc[p].cmd, "write", proc[p].fd, value)
      <3> HIDE DEF value
      <3> QED
        BY <2>1, SetsAll
    <2>3. UNCHANGED <<group, priority, owed>>
      BY <1>5 DEF Read
    <2> QED
      BY <2>2, <2>3 DEF ReadInv, Sets, FileAt
  <1>6. ASSUME NEW p \in Procs, Write(p) PROVE ReadInv'
    <2> DEFINE cmd == proc[p].cmd
               After(value) == IF Path(cmd) = "group" THEN GroupAfter(cmd, value) ELSE PriorityAfter(cmd, value)
    <2>1. proc[p].step = "write" /\ proc[p].read = FileAt(Path(cmd))
      BY <1>6 DEF Write, ReadInv
    <2>2. After(FileAt(Path(cmd))) = After(IF Path(cmd) = "group" THEN owed.group ELSE owed.priority)
      BY DEF ReadInv, FileAt
    <2>3. PICK step \in {"close", "unlink"} : To(p, step)
      BY <1>6 DEF Write
    <2>4. Sets(p, cmd, step, proc[p].fd, proc[p].read)
      BY <2>3, SetsStep
    <2>5. \/ UNCHANGED <<group, priority, owed>>
          \/ /\ Path(cmd) = "group" /\ group' = After(proc[p].read) /\ UNCHANGED priority
             /\ owed' = [owed EXCEPT !.group = After(owed.group)]
          \/ /\ Path(cmd) # "group" /\ priority' = After(proc[p].read) /\ UNCHANGED group
             /\ owed' = [owed EXCEPT !.priority = After(owed.priority)]
      BY <1>6 DEF Write
    <2> HIDE DEF After
    <2>6. owed' = [group |-> group', priority |-> priority']
      BY <2>1, <2>2, <2>5 DEF ReadInv, FileAt
    <2>7. ASSUME NEW q \in Procs, proc'[q].step = "write"
                 PROVE  proc'[q].read = IF Path(proc'[q].cmd) = "group" THEN group' ELSE priority'
      <3>1. q # p /\ proc'[q] = proc[q] /\ Path(proc[q].cmd) # Path(cmd)
        BY <2>1, <2>4, <2>7, OneInside DEF Sets, Inside
      <3>2. FileAt(Path(proc[q].cmd)) = IF Path(proc[q].cmd) = "group" THEN group' ELSE priority'
        BY <2>5, <3>1, PathType DEF FileAt, Paths
      <3> QED
        BY <2>7, <3>1, <3>2 DEF ReadInv
    <2> QED
      BY <2>6, <2>7 DEF ReadInv, FileAt
  <1>7. CASE Reload \/ UNCHANGED gvars
    BY <1>7 DEF Reload, ReadInv, FileAt
  <1> QED
    BY <1>1, <1>2, <1>3, <1>4, <1>5, <1>6, <1>7 DEF Next

\* The whole invariant, from the first state on.
LEMMA FilesKept == ASSUME None \notin Nat PROVE Spec => []FilesInv
  <1>1. Init => FilesInv
    <2> SUFFICES ASSUME Init PROVE FilesInv
      OBVIOUS
    <2>1. \A p \in Procs : proc[p] = [cmd |-> <<"none">>, step |-> "idle", fd |-> None, read |-> None]
      BY DEF Init, Empty, At
    <2>2. ShapeInv
      BY <2>1 DEF Init, ShapeInv, Empty, At, Paths, Steps, Holds, Inside
    <2>3. LockInv /\ ReadInv
      BY <2>1 DEF Init, LockInv, ReadInv, Paths, Holds, Inside
    <2> QED
      BY <2>2, <2>3 DEF FilesInv
  <1>2. FilesInv /\ [Next]_gvars => FilesInv'
    BY LockNext, ReadNext DEF FilesInv
  <1> QED
    BY <1>1, <1>2, PTL DEF Spec

\* However many commands change a group and the priorities at once, a `groups rm` that takes the
\* lock file with it among them, and wherever they are killed, each change that was written was
\* made to what the one before it left: _file_lock keeps two that have opened different lock
\* files at one path apart.
THEOREM NoneLostKept == ASSUME None \notin Nat PROVE Spec => []NoneLost
  <1>1. FilesInv => NoneLost
    BY DEF FilesInv, ReadInv, NoneLost
  <1> QED
    BY <1>1, FilesKept, PTL
=============================================================================
