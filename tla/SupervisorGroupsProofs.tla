------------------------ MODULE SupervisorGroupsProofs ------------------------
(***************************************************************************)
(* Proofs about SupervisorGroups: for any units and process ids, any       *)
(* number of processes, supervisors killed at any step, any number of      *)
(* times, and any number of reads and writes of the record that fail.      *)
(***************************************************************************)
EXTENDS SupervisorGroups, TLAPS

\* What there can be of a group.
GroupType == [unit : Units \union {Other}, role : Roles, born : Nat, leader : {"running", "zombie", "reaped"},
              kids : BOOLEAN, record : {"new", "added", "known"}]

\* What the constants have to be told apart by.
Sane ==
  /\ Other \notin Units /\ None \notin Pids /\ None \notin GroupType
  /\ MaxBorn \in Nat /\ MaxDeaths \in Nat /\ MaxFaults \in Nat

EntryType == Units \X Pids \X Nat

\* The types; a birth has a number of its own.
TypeInv ==
  /\ procs \in [Pids -> GroupType \union {None}]
  /\ held \in [Jobs -> Pids \union {None}]
  /\ leaving \subseteq EntryType /\ ended \subseteq Pids /\ only \subseteq Units
  /\ file \subseteq EntryType
  /\ daemon \in {"up", "down", "asked", "ended"}
  /\ born \in Nat /\ deaths \in Nat /\ faults \in Nat
  /\ \A p \in Pids : Taken(p) => procs[p].born <= born
  /\ \A e \in file \union leaving : e[3] <= born

\* A job's process, until its leader is reaped.
Has(job) ==
  Taken(held[job]) /\ procs[held[job]].unit = job[1] /\ procs[held[job]].role = job[2]
    /\ procs[held[job]].leader # "reaped"

\* A supervisor has the groups it started, each its job's, until it reaps the leader; before that
\* is off the record the pid is nobody's, or of what is left of that very group.
HeldInv ==
  /\ \A job \in Jobs : held[job] # None => Has(job)
  /\ daemon # "up" => leaving = {} /\ \A job \in Jobs : held[job] = None
  /\ daemon \in {"up", "down"} => ended = {}
  /\ \A e \in leaving : Taken(e[2]) => Entry(e[2]) = e /\ procs[e[2]].leader = "reaped"

\* Somebody else's process is one process, which init reaps.
StrangerInv == \A p \in Pids : Taken(p) /\ ~Ours(p) => Runs(p) /\ ~procs[p].kids /\ procs[p].record = "new"

\* A group of a unit's that got on disk and whose leader runs.
Known(p) == Ours(p) /\ Runs(p) /\ procs[p].record = "known"

\* The record has every such group, and its start times tell whose they were.
RecordInv ==
  /\ \A p \in Pids : Known(p) => Entry(p) \in file
  /\ \A e \in file : Taken(e[2]) /\ procs[e[2]].born = e[3] => procs[e[2]].unit = e[1]

\* end_orphans: those asked for are signalled, then gone; nobody else's is among them.
EndingInv ==
  /\ \A p \in ended : Taken(p) => Ours(p)
  /\ daemon = "asked" => \A p \in Pids : Known(p) /\ procs[p].unit \in only => p \in ended
  /\ daemon = "ended" => \A p \in Pids : Known(p) => procs[p].unit \notin only

GroupsInv == TypeInv /\ HeldInv /\ StrangerInv /\ RecordInv /\ EndingInv /\ OrphansEnded

\* Until a supervisor is killed there is one, and an exit leaves no more than it may.
BehindInv == deaths = 0 => daemon = "up" /\ NothingBehind

-----------------------------------------------------------------------------
\* What a group is once a member has ended.
LEMMA LeftType ==
  ASSUME Sane, NEW g \in GroupType
  PROVE  /\ Left(g) \in GroupType \union {None}
         /\ Left(g) # None => Left(g) = g
  BY DEF Left

\* h is g later: whose it is stays, a leader that is gone stays gone.
Later(g, h) ==
  /\ h.unit = g.unit /\ h.role = g.role /\ h.born = g.born
  /\ h.leader = "running" => g.leader = "running"
  /\ g.leader = "reaped" => h.leader = "reaped"

\* A group as it starts.
LEMMA GroupNew ==
  ASSUME NEW u \in Units \union {Other}, NEW role \in Roles, born \in Nat, Sane
  PROVE  LET g == Group(u, role) IN
           /\ g \in GroupType /\ g # None
           /\ g.unit = u /\ g.role = role /\ g.born = born + 1 /\ g.leader = "running" /\ ~g.kids /\ g.record = "new"
  <1> DEFINE g == Group(u, role)
  <1>1. g = [unit |-> u, role |-> role, born |-> born + 1, leader |-> "running", kids |-> FALSE, record |-> "new"]
    BY DEF Group
  <1>2. g \in GroupType
    BY <1>1 DEF GroupType
  <1>3. g.unit = u /\ g.role = role /\ g.born = born + 1 /\ g.leader = "running" /\ ~g.kids /\ g.record = "new"
    BY <1>1
  <1> QED
    BY <1>2, <1>3 DEF Sane

\* The supervisor's own record is of groups it started, by now.
LEMMA GroupsTyped ==
  ASSUME Sane, TypeInv, HeldInv
  PROVE  /\ Groups \subseteq EntryType
         /\ \A e \in Groups : e[3] <= born /\ (Taken(e[2]) => Entry(e[2]) = e)
  <1>1. ASSUME NEW p \in Pids, Held(p) PROVE Entry(p) \in EntryType /\ Entry(p)[2] = p /\ Entry(p)[3] <= born
    <2>1. PICK job \in Jobs : held[job] = p
      BY <1>1 DEF Held
    <2>2. Taken(p) /\ procs[p].unit = job[1] /\ job[1] \in Units
      BY <2>1 DEF HeldInv, Has, Sane, Jobs
    <2>3. procs[p].born \in Nat /\ procs[p].born <= born
      BY <2>2 DEF TypeInv, Taken, GroupType
    <2> QED
      BY <2>2, <2>3 DEF Entry, EntryType
  <1>2. \A e \in leaving : e \in EntryType /\ e[3] <= born /\ (Taken(e[2]) => Entry(e[2]) = e)
    BY DEF TypeInv, HeldInv
  <1> QED
    BY <1>1, <1>2 DEF Groups

\* A job's group, and what is left of it once its leader is reaped.
LEMMA Reaped ==
  ASSUME Sane, TypeInv, HeldInv, NEW u \in Units, NEW role \in Roles, daemon = "up", held[<<u, role>>] # None
  PROVE  LET p == held[<<u, role>>] IN
         /\ p \in Pids /\ Taken(p) /\ procs[p] \in GroupType /\ procs[p].unit = u /\ procs[p].role = role
         /\ procs[p].leader # "reaped" /\ Entry(p) \in EntryType /\ Entry(p)[3] <= born
         /\ \A job \in Jobs \ {<<u, role>>} : held[job] # p
  <1> DEFINE p == held[<<u, role>>]
  <1>1. <<u, role>> \in Jobs
    BY DEF Jobs
  <1>2. p \in Pids /\ Taken(p) /\ procs[p].unit = u /\ procs[p].role = role /\ procs[p].leader # "reaped"
    BY <1>1 DEF HeldInv, Has, TypeInv
  <1>3. procs[p] \in GroupType /\ procs[p].born <= born
    BY <1>2 DEF TypeInv, Taken
  <1>4. ASSUME NEW job \in Jobs, held[job] = p PROVE job = <<u, role>>
    <2>1. job[1] = u /\ job[2] = role
      BY <1>2, <1>4 DEF HeldInv, Has, Taken, TypeInv, Sane
    <2> QED
      BY <2>1 DEF Jobs
  <1> QED
    BY <1>2, <1>3, <1>4 DEF Entry, EntryType, GroupType

\* What a reap does to the groups: the job's is gone, or is without its leader.
ReapTo(u, role, g) ==
  /\ procs' = [procs EXCEPT ![held[<<u, role>>]] = g]
  /\ g = None \/ (g.leader = "reaped" /\ (role = "command" \/ u \in Remain)
                    /\ g = [procs[held[<<u, role>>]] EXCEPT !.leader = "reaped"])
ReapOf(u, role) ==
  /\ daemon = "up" /\ held[<<u, role>>] # None
  /\ \E g \in GroupType \union {None} : ReapTo(u, role, g)
  /\ held' = [held EXCEPT ![<<u, role>>] = None]
  /\ leaving' = leaving \union {Entry(held[<<u, role>>])}
  /\ procs[held[<<u, role>>]].leader = "zombie"
  /\ UNCHANGED <<file, daemon, only, ended, born, deaths, faults>>

\* Either kind of a reap is one.
LEMMA ReapIs ==
  ASSUME Sane, TypeInv, HeldInv, NEW u \in Units, NEW role \in Roles, Reap(u, role) \/ ReapLeader(u, role)
  PROVE  ReapOf(u, role)
  <1> DEFINE p == held[<<u, role>>]
  <1>1. daemon = "up" /\ p # None
    BY DEF Reap, ReapLeader
  <1>2. p \in Pids /\ procs[p] \in GroupType
    BY <1>1, Reaped
  <1> DEFINE l == [procs[p] EXCEPT !.leader = "reaped"]
  <1>3. l \in GroupType /\ l.leader = "reaped"
    BY <1>2 DEF GroupType
  <1>4. CASE Reap(u, role)
    <2>1. ReapTo(u, role, None)
      BY <1>4 DEF Reap, Reaps, ReapTo
    <2> QED
      BY <1>1, <1>4, <2>1 DEF Reap, Reaps, ReapOf
  <1>5. CASE ReapLeader(u, role)
    <2>1. Reaps(u, role, Left(l)) /\ (role = "command" \/ u \in Remain)
      BY <1>5 DEF ReapLeader
    <2>2. PICK g \in {l, None} : Left(l) = g
      BY DEF Left
    <2>3. procs' = [procs EXCEPT ![p] = g]
      BY <2>1, <2>2 DEF Reaps
    <2>4. g \in GroupType \union {None} /\ ReapTo(u, role, g)
      BY <1>3, <2>1, <2>2, <2>3 DEF ReapTo
    <2> QED
      BY <1>1, <2>1, <2>4 DEF Reaps, ReapOf
  <1> QED
    BY <1>4, <1>5

\* A process that ends, or one of its group's that does or starts.
Moves(p, g) == procs' = [procs EXCEPT ![p] = g]

\* What happens to a group of itself.
LEMMA MovesIs ==
  ASSUME Sane, TypeInv, HeldInv, NEW p \in Pids, Fork(p) \/ Exit(p) \/ KidsExit(p)
  PROVE  /\ procs[p] \in GroupType /\ Taken(p)
         /\ \E g \in GroupType \union {None} :
              /\ Moves(p, g)
              /\ g # None => Later(procs[p], g) /\ g.record = procs[p].record
              /\ g # None /\ Held(p) => g.leader # "reaped" \/ procs[p].leader = "reaped"
              /\ g = None => procs[p].leader = "reaped" \/ ~Held(p)
         /\ UNCHANGED <<held, leaving, file, daemon, only, ended, born, deaths, faults>>
  <1>1. procs[p] \in GroupType /\ Taken(p) /\ UNCHANGED <<held, leaving, file, daemon, only, ended, born, deaths, faults>>
    BY DEF Fork, Exit, KidsExit, Ours, Runs, Taken, TypeInv
  <1>2. PICK h \in {[procs[p] EXCEPT !.kids = TRUE], [procs[p] EXCEPT !.kids = FALSE],
                    [procs[p] EXCEPT !.leader = "zombie"], [procs[p] EXCEPT !.leader = "reaped"]} :
          /\ Moves(p, h) \/ Moves(p, Left(h))
          /\ Held(p) => h.leader # "reaped" \/ procs[p].leader = "reaped"
          /\ h.leader # "reaped" => procs' = [procs EXCEPT ![p] = h]
          /\ procs[p].leader = "reaped" => h.leader = "reaped"
    <2>1. CASE Fork(p)
      <3>1. [procs[p] EXCEPT !.kids = TRUE].leader = "running"
        BY <1>1, <2>1 DEF Fork, Runs, GroupType
      <3> QED
        BY <2>1, <3>1 DEF Fork, Moves
    <2>2. CASE Exit(p)
      <3>1. CASE Held(p)
        <4>1. procs' = [procs EXCEPT ![p] = Left([procs[p] EXCEPT !.leader = "zombie"])]
          BY <2>2, <3>1 DEF Exit
        <4>2. [procs[p] EXCEPT !.leader = "zombie"].leader = "zombie" /\ procs[p].leader = "running"
          BY <1>1, <2>2 DEF Exit, Runs, GroupType
        <4>3. Left([procs[p] EXCEPT !.leader = "zombie"]) = [procs[p] EXCEPT !.leader = "zombie"]
          BY <4>2 DEF Left
        <4> QED
          BY <4>1, <4>2, <4>3 DEF Moves
      <3>2. CASE ~Held(p)
        BY <1>1, <2>2, <3>2 DEF Exit, Moves, GroupType, Left
      <3> QED
        BY <3>1, <3>2
    <2>3. CASE KidsExit(p)
      BY <1>1, <2>3 DEF KidsExit, Moves, GroupType, Left
    <2> QED
      BY <2>1, <2>2, <2>3
  <1>3. h \in GroupType /\ Later(procs[p], h) /\ h.record = procs[p].record
    <2>1. h \in GroupType
      BY <1>1, <1>2 DEF GroupType
    <2>2. Later(procs[p], h)
      BY <1>1, <1>2 DEF GroupType, Later
    <2>3. h.record = procs[p].record
      BY <1>1, <1>2 DEF GroupType
    <2> QED
      BY <2>1, <2>2, <2>3
  <1>4. PICK g \in {h, None} : Moves(p, g) /\ (g = None => h.leader = "reaped")
    <2>1. Left(h) = h \/ (Left(h) = None /\ h.leader = "reaped")
      BY DEF Left
    <2> HIDE DEF Moves
    <2>2. CASE Moves(p, h)
      BY <1>3, <2>2 DEF Sane
    <2>3. CASE Moves(p, Left(h))
      BY <1>3, <2>1, <2>3 DEF Sane
    <2> QED
      BY <1>2, <2>2, <2>3
  <1> QED
    BY <1>1, <1>2, <1>3, <1>4

\* A write of the record leaves it of groups there were.
LEMMA SaveTyped ==
  ASSUME TypeInv, NEW E \in SUBSET EntryType, \A e \in E : e[3] <= born, Save(E)
  PROVE  file' \subseteq EntryType /\ faults' \in Nat /\ \A e \in file' : e[3] <= born
  BY DEF Save, TypeInv

\* What Add changes: the group's mark, and the record.
AddOf(p) ==
  \E r \in {"added", "known"} :
    /\ procs' = [procs EXCEPT ![p] = [procs[p] EXCEPT !.record = r]]
    /\ r = "known" => Entry(p) \in file'
\* And Add does just that, to the group of its job.
LEMMA AddIs ==
  ASSUME Sane, TypeInv, HeldInv, NEW u \in Units, NEW role \in Roles, Add(u, role)
  PROVE  /\ daemon = "up" /\ held[<<u, role>>] # None /\ AddOf(held[<<u, role>>])
         /\ Save(Groups \union {Entry(held[<<u, role>>])})
         /\ UNCHANGED <<held, leaving, daemon, only, ended, born, deaths>>
  <1> DEFINE p == held[<<u, role>>]
  <1>1. daemon = "up" /\ p # None /\ Save(Groups \union {Entry(p)})
        /\ UNCHANGED <<held, leaving, daemon, only, ended, born, deaths>>
    BY DEF Add
  <1> DEFINE mark == IF Entry(p) \in file' THEN "known" ELSE "added"
  <1>2. procs' = [procs EXCEPT ![p].record = mark]
    BY DEF Add
  <1>3. mark \in {"added", "known"} /\ (mark = "known" => Entry(p) \in file')
    OBVIOUS
  <1> HIDE DEF mark, p
  <1>4. procs' = [procs EXCEPT ![p] = [procs[p] EXCEPT !.record = mark]]
    BY <1>2
  <1>5. AddOf(p)
    BY <1>3, <1>4 DEF AddOf
  <1> QED
    BY <1>1, <1>5 DEF p

\* Every step keeps the types, and gives each birth a number of its own.
LEMMA TypeNext == ASSUME Sane, TypeInv, HeldInv, [Next]_gvars PROVE TypeInv'
  <1> DEFINE Young == \A q \in Pids : procs'[q] # None => procs'[q].born <= born'
  <1>1. CASE \E u \in Units, role \in Roles : Spawn(u, role)
    <2>1. PICK u \in Units, role \in Roles, p \in Pids :
            procs' = [procs EXCEPT ![p] = Group(u, role)] /\ held' = [held EXCEPT ![<<u, role>>] = p]
      BY <1>1 DEF Spawn
    <2>2. Group(u, role) \in GroupType /\ Group(u, role).born = born + 1
      BY GroupNew DEF TypeInv
    <2>3. UNCHANGED <<leaving, file, daemon, only, ended, deaths, faults>> /\ born' = born + 1
      BY <1>1 DEF Spawn
    <2> DEFINE g == Group(u, role)
    <2> HIDE DEF g
    <2>4. Young /\ procs' \in [Pids -> GroupType \union {None}] /\ held' \in [Jobs -> Pids \union {None}]
      <3>1. \A q \in Pids \ {p} : procs'[q] = procs[q] /\ (procs[q] # None => procs[q].born \in Nat /\ procs[q].born <= born)
        BY <2>1 DEF TypeInv, Taken, GroupType
      <3>2. procs'[p] = g /\ g.born = born + 1 /\ procs' \in [Pids -> GroupType \union {None}]
        BY <2>1, <2>2 DEF TypeInv, g
      <3>3. Young
        BY <2>3, <3>1, <3>2 DEF TypeInv
      <3> QED
        BY <2>1, <3>2, <3>3 DEF TypeInv
    <2>5. \A e \in file \union leaving : e[3] <= born + 1
      BY DEF TypeInv, EntryType
    <2> QED
      BY <2>3, <2>4, <2>5 DEF TypeInv, Taken
  <1>2. CASE \E u \in Units, role \in Roles : Add(u, role)
    <2>1. PICK u \in Units, role \in Roles : Add(u, role)
      BY <1>2
    <2> DEFINE p == held[<<u, role>>]
    <2>2. /\ p \in Pids /\ Taken(p) /\ procs[p] \in GroupType /\ AddOf(p) /\ Entry(p) \in EntryType /\ Entry(p)[3] <= born
          /\ Save(Groups \union {Entry(p)}) /\ UNCHANGED <<held, leaving, daemon, only, ended, born, deaths>>
      BY <2>1, AddIs, Reaped
    <2>3. PICK r \in {"added", "known"} : procs' = [procs EXCEPT ![p] = [procs[p] EXCEPT !.record = r]]
      BY <2>2 DEF AddOf
    <2>4. [procs[p] EXCEPT !.record = r] \in GroupType /\ [procs[p] EXCEPT !.record = r].born = procs[p].born
      BY <2>2 DEF GroupType
    <2>5. Young /\ procs' \in [Pids -> GroupType \union {None}]
      BY <2>2, <2>3, <2>4 DEF TypeInv, Taken
    <2>6. file' \subseteq EntryType /\ faults' \in Nat /\ \A e \in file' : e[3] <= born
      <3>1. Groups \union {Entry(p)} \subseteq EntryType /\ \A e \in Groups \union {Entry(p)} : e[3] <= born
        BY <2>2, GroupsTyped
      <3> QED
        BY <2>2, <3>1, SaveTyped
    <2> QED
      BY <2>2, <2>5, <2>6 DEF TypeInv, Taken
  <1>3. CASE \E u \in Units, role \in Roles : Reap(u, role) \/ ReapLeader(u, role)
    <2>1. PICK u \in Units, role \in Roles : ReapOf(u, role)
      BY <1>3, ReapIs
    <2> DEFINE p == held[<<u, role>>]
    <2>2. p \in Pids /\ Taken(p) /\ procs[p] \in GroupType /\ Entry(p) \in EntryType /\ Entry(p)[3] <= born
      BY <2>1, Reaped DEF ReapOf
    <2>3. PICK g \in GroupType \union {None} : procs' = [procs EXCEPT ![p] = g] /\ (g # None => g.born = procs[p].born)
      BY <2>1, <2>2 DEF ReapOf, ReapTo, GroupType
    <2>4. UNCHANGED <<file, daemon, only, ended, born, deaths, faults>> /\ leaving' = leaving \union {Entry(p)}
          /\ held' = [held EXCEPT ![<<u, role>>] = None]
      BY <2>1 DEF ReapOf
    <2>5. Young /\ procs' \in [Pids -> GroupType \union {None}]
      BY <2>2, <2>3, <2>4 DEF TypeInv, Taken
    <2>6. held' \in [Jobs -> Pids \union {None}] /\ leaving' \subseteq EntryType /\ \A e \in file \union leaving' : e[3] <= born
      BY <2>2, <2>4 DEF TypeInv
    <2> QED
      BY <2>4, <2>5, <2>6 DEF TypeInv, Taken
  <1>4. CASE \E p \in Pids : Fork(p) \/ Exit(p) \/ KidsExit(p)
    <2>1. PICK p \in Pids : Fork(p) \/ Exit(p) \/ KidsExit(p)
      BY <1>4
    <2>2. Taken(p) /\ UNCHANGED <<held, leaving, file, daemon, only, ended, born, deaths, faults>>
      BY <2>1, MovesIs
    <2>3. PICK g \in GroupType \union {None} : procs' = [procs EXCEPT ![p] = g] /\ (g # None => g.born = procs[p].born)
      BY <2>1, MovesIs DEF Moves, Later
    <2> QED
      BY <2>2, <2>3 DEF TypeInv, Taken
  <1>5. CASE \E p \in Pids : Stranger(p)
    <2>1. Group(Other, "main") \in GroupType /\ Group(Other, "main").born = born + 1
      BY GroupNew DEF TypeInv, Roles
    <2>2. PICK p \in Pids : procs' = [procs EXCEPT ![p] = Group(Other, "main")]
      BY <1>5 DEF Stranger
    <2>3. born' = born + 1 /\ UNCHANGED <<held, leaving, file, daemon, only, ended, deaths, faults>>
      BY <1>5 DEF Stranger
    <2>4. Young /\ procs' \in [Pids -> GroupType \union {None}]
      BY <2>1, <2>2, <2>3 DEF TypeInv, Taken, GroupType
    <2>5. \A e \in file \union leaving : e[3] <= born + 1
      BY DEF TypeInv, EntryType
    <2> QED
      BY <2>3, <2>4, <2>5 DEF TypeInv, Taken
  <1>6. CASE Die
    <2>1. ASSUME NEW p \in Pids
          PROVE  /\ procs'[p] \in GroupType \union {None}
                 /\ procs'[p] # None => procs[p] # None /\ procs'[p].born = procs[p].born
      <3>1. CASE Taken(p) /\ procs[p].leader = "zombie"
        <4>1. procs[p] \in GroupType
          BY <3>1 DEF TypeInv, Taken
        <4>2. procs'[p] = Left([procs[p] EXCEPT !.leader = "reaped"])
          BY <1>6, <3>1 DEF Die
        <4>3. [procs[p] EXCEPT !.leader = "reaped"] \in GroupType
              /\ [procs[p] EXCEPT !.leader = "reaped"].born = procs[p].born
          BY <4>1 DEF GroupType
        <4> QED
          BY <3>1, <4>2, <4>3, LeftType DEF Taken
      <3>2. CASE ~(Taken(p) /\ procs[p].leader = "zombie")
        BY <1>6, <3>2 DEF Die, TypeInv
      <3> QED
        BY <3>1, <3>2
    <2>2. procs' \in [Pids -> GroupType \union {None}] /\ \A p \in Pids : Taken(p)' => procs'[p].born <= born
      <3>1. procs' = [p \in Pids |-> procs'[p]]
        BY <1>6 DEF Die
      <3> QED
        BY <2>1, <3>1 DEF TypeInv, Taken
    <2> QED
      BY <1>6, <2>2 DEF Die, TypeInv
  <1>7. CASE AskToEnd
    <2>1. UNCHANGED <<procs, held, leaving, file, born, deaths, faults>> /\ only' \subseteq Units /\ daemon' = "asked"
      BY <1>7 DEF AskToEnd
    <2>2. ended' \subseteq Pids
      BY <1>7 DEF AskToEnd, Orphans, TypeInv, EntryType
    <2> QED
      BY <2>1, <2>2 DEF TypeInv, Taken
  <1>8. CASE Unreadable
    <2>1. ASSUME NEW p \in Pids
          PROVE  procs'[p] \in GroupType \union {None} /\ (procs'[p] # None => procs'[p].born <= born)
      BY <1>8 DEF Unreadable, TypeInv, Taken, GroupType
    <2>2. procs' \in [Pids -> GroupType \union {None}]
      <3>1. procs' = [p \in Pids |-> procs'[p]]
        BY <1>8 DEF Unreadable
      <3> QED
        BY <2>1, <3>1
    <2> QED
      BY <1>8, <2>1, <2>2 DEF Unreadable, TypeInv, Taken
  <1>9. CASE Remove
    <2>1. PICK q \in leaving : /\ leaving' = {e \in leaving : e[2] # q[2]} /\ Save({e \in Groups : e[2] # q[2]})
                               /\ UNCHANGED <<procs, held, daemon, only, ended, born, deaths>>
      BY <1>9 DEF Remove
    <2>2. file' \subseteq EntryType /\ faults' \in Nat /\ \A e \in file' : e[3] <= born
      BY <2>1, GroupsTyped, SaveTyped
    <2> QED
      BY <2>1, <2>2 DEF TypeInv, Taken
  <1>10. CASE Written
    <2>1. file' \subseteq EntryType /\ faults' \in Nat /\ \A e \in file' : e[3] <= born
      <3>1. Kept \subseteq EntryType /\ \A e \in Kept : e[3] <= born
        BY DEF Kept, TypeInv
      <3> QED
        BY <1>10, <3>1, SaveTyped DEF Written
    <2> QED
      BY <1>10, <2>1 DEF Written, TypeInv, Taken
  <1>11. CASE End \/ UNCHANGED gvars
    BY <1>11 DEF End, gvars, TypeInv, Taken
  <1> QED
    BY <1>1, <1>2, <1>3, <1>4, <1>5, <1>6, <1>7, <1>8, <1>9, <1>10, <1>11 DEF Next

\* What becomes of a pid in a step: it is a new group's, or still the same one's, or nobody's.
Fresh(p) ==
  /\ Unused(p) /\ Taken(p)' /\ procs'[p].born = born + 1 /\ Runs(p)' /\ procs'[p].record = "new" /\ ~procs'[p].kids
  /\ procs'[p].unit \in Units => daemon = "up" /\ Held(p)'
Recorded(p) == daemon = "up" /\ Held(p) /\ Entry(p) \in file'
Same(p) ==
  /\ Taken(p) /\ Taken(p)' /\ Later(procs[p], procs'[p])
  /\ procs'[p].record = "known" => procs[p].record = "known" \/ Recorded(p)

\* What nobody touches stays the same ...
LEMMA Untouched == ASSUME NEW p \in Pids, procs'[p] = procs[p] PROVE ~Taken(p)' \/ Same(p)
  BY DEF Same, Later, Taken

\* ... and so does what only ends.
LEMMA Ended ==
  ASSUME NEW p \in Pids, Taken(p), NEW g, procs'[p] \in {g, None}, Later(procs[p], g), g.record = procs[p].record
  PROVE  ~Taken(p)' \/ Same(p)
  BY DEF Same, Taken

\* A group keeps its unit and its birth as long as its id is taken.
LEMMA Fates ==
  ASSUME Sane, TypeInv, HeldInv, [Next]_gvars, NEW p \in Pids PROVE ~Taken(p)' \/ Same(p) \/ Fresh(p)
  <1>1. CASE UNCHANGED procs
    BY <1>1, Untouched
  <1>2. CASE \E u \in Units, role \in Roles : Spawn(u, role)
    <2>1. PICK u \in Units, role \in Roles, q \in Pids :
            /\ Unused(q) /\ procs' = [procs EXCEPT ![q] = Group(u, role)]
            /\ held' = [held EXCEPT ![<<u, role>>] = q] /\ daemon = "up"
      BY <1>2 DEF Spawn
    <2> DEFINE g == Group(u, role)
    <2>2. /\ g # None /\ g.unit = u /\ g.born = born + 1 /\ g.leader = "running" /\ ~g.kids /\ g.record = "new"
      BY GroupNew DEF TypeInv
    <2> HIDE DEF g
    <2>3. CASE p = q
      <3>1. procs'[p] = g
        BY <2>1, <2>3 DEF TypeInv, g
      <3>2. Held(p)'
        BY <2>1, <2>3 DEF Held, TypeInv, Jobs
      <3> QED
        BY <2>1, <2>2, <2>3, <3>1, <3>2 DEF Fresh, Taken, Runs
    <2>4. CASE p # q
      BY <2>1, <2>4, Untouched DEF TypeInv
    <2> QED
      BY <2>3, <2>4
  <1>3. CASE \E u \in Units, role \in Roles : Add(u, role)
    <2>1. PICK u \in Units, role \in Roles : Add(u, role)
      BY <1>3
    <2> DEFINE q == held[<<u, role>>]
    <2>2. q \in Pids /\ Taken(q) /\ procs[q] \in GroupType /\ AddOf(q) /\ daemon = "up"
      <3>1. daemon = "up" /\ q # None /\ AddOf(q)
        BY <2>1, AddIs
      <3> QED
        BY <3>1, Reaped
    <2>3. PICK r \in {"added", "known"} :
            procs' = [procs EXCEPT ![q] = [procs[q] EXCEPT !.record = r]] /\ (r = "known" => Entry(q) \in file')
      BY <2>2 DEF AddOf
    <2>4. CASE p = q
      <3>1. procs'[p] = [procs[p] EXCEPT !.record = r]
        BY <2>2, <2>3, <2>4 DEF TypeInv
      <3>2. procs'[p] \in GroupType /\ Later(procs[p], procs'[p]) /\ procs'[p].record = r
        BY <2>2, <2>4, <3>1 DEF GroupType, Later
      <3>3. Held(p)
        BY <2>4 DEF Held, Jobs
      <3> QED
        BY <2>2, <2>3, <2>4, <3>2, <3>3 DEF Same, Recorded, Taken, Sane
    <2>5. CASE p # q
      BY <2>3, <2>5, Untouched DEF TypeInv
    <2> QED
      BY <2>4, <2>5
  <1>4. CASE \E q \in Pids : Fork(q) \/ Exit(q) \/ KidsExit(q)
    <2>1. PICK q \in Pids : Fork(q) \/ Exit(q) \/ KidsExit(q)
      BY <1>4
    <2>2. Taken(q)
      BY <2>1, MovesIs
    <2>3. PICK g \in GroupType \union {None} :
            procs' = [procs EXCEPT ![q] = g] /\ (g # None => Later(procs[q], g) /\ g.record = procs[q].record)
      BY <2>1, MovesIs DEF Moves
    <2>4. CASE p = q
      <3>1. procs'[p] = g
        BY <2>3, <2>4 DEF TypeInv
      <3> QED
        BY <2>2, <2>3, <2>4, <3>1, Ended DEF Taken
    <2>5. CASE p # q
      BY <2>3, <2>5, Untouched DEF TypeInv
    <2> QED
      BY <2>4, <2>5
  <1>5. CASE \E q \in Pids : Stranger(q)
    <2>1. PICK q \in Pids : Unused(q) /\ procs' = [procs EXCEPT ![q] = Group(Other, "main")]
      BY <1>5 DEF Stranger
    <2> DEFINE g == Group(Other, "main")
    <2>2. /\ g # None /\ g.unit = Other /\ g.born = born + 1 /\ g.leader = "running" /\ ~g.kids /\ g.record = "new"
      BY GroupNew DEF TypeInv, Roles
    <2> HIDE DEF g
    <2>3. CASE p = q
      <3>1. procs'[p] = g
        BY <2>1, <2>3 DEF TypeInv, g
      <3> QED
        BY <2>1, <2>2, <2>3, <3>1 DEF Fresh, Taken, Runs, Sane
    <2>4. CASE p # q
      BY <2>1, <2>4, Untouched DEF TypeInv
    <2> QED
      BY <2>3, <2>4
  <1>6. CASE Die
    <2>1. CASE Taken(p) /\ procs[p].leader = "zombie"
      <3> DEFINE g == [procs[p] EXCEPT !.leader = "reaped"]
      <3>1. procs[p] \in GroupType /\ procs'[p] = Left(g)
        BY <1>6, <2>1 DEF Die, TypeInv, Taken
      <3>2. Later(procs[p], g) /\ g.record = procs[p].record
        BY <3>1 DEF GroupType, Later
      <3>3. procs'[p] \in {g, None}
        BY <3>1 DEF Left
      <3> HIDE DEF g
      <3> QED
        BY <2>1, <3>2, <3>3, Ended
    <2>2. CASE ~(Taken(p) /\ procs[p].leader = "zombie")
      <3>1. procs'[p] = procs[p]
        BY <1>6, <2>2 DEF Die
      <3> QED
        BY <3>1, Untouched
    <2> QED
      BY <2>1, <2>2
  <1>7. CASE \E u \in Units, role \in Roles : Reap(u, role) \/ ReapLeader(u, role)
    <2>1. PICK u \in Units, role \in Roles : ReapOf(u, role)
      BY <1>7, ReapIs
    <2> DEFINE q == held[<<u, role>>]
    <2>2. q \in Pids /\ Taken(q) /\ procs[q] \in GroupType
      BY <2>1, Reaped DEF ReapOf
    <2>3. PICK g \in {[procs[q] EXCEPT !.leader = "reaped"], None} : procs' = [procs EXCEPT ![q] = g]
      BY <2>1 DEF ReapOf, ReapTo
    <2>4. Later(procs[q], [procs[q] EXCEPT !.leader = "reaped"])
          /\ [procs[q] EXCEPT !.leader = "reaped"].record = procs[q].record
      BY <2>2 DEF GroupType, Later
    <2>5. CASE p = q
      <3>1. procs'[p] = g
        BY <2>2, <2>3, <2>5 DEF TypeInv
      <3> QED
        <4> DEFINE l == [procs[q] EXCEPT !.leader = "reaped"]
        <4>1. Taken(p) /\ procs'[p] \in {l, None} /\ Later(procs[p], l) /\ l.record = procs[p].record
          BY <2>2, <2>3, <2>4, <2>5, <3>1
        <4> HIDE DEF l
        <4> QED
          BY <4>1, Ended
    <2>6. CASE p # q
      BY <2>3, <2>6, Untouched DEF TypeInv
    <2> QED
      BY <2>5, <2>6
  <1>8. CASE Unreadable
    <2>1. CASE Taken(p) /\ procs[p].record = "known"
      <3>1. procs'[p] = [procs[p] EXCEPT !.record = "added"] /\ procs[p] \in GroupType
        BY <1>8, <2>1 DEF Unreadable, TypeInv, Taken
      <3>2. Later(procs[p], procs'[p]) /\ procs'[p].record = "added"
        BY <3>1 DEF GroupType, Later
      <3> QED
        BY <2>1, <3>2 DEF Same
    <2>2. CASE ~(Taken(p) /\ procs[p].record = "known")
      <3>1. procs'[p] = procs[p]
        BY <1>8, <2>2 DEF Unreadable
      <3> QED
        BY <3>1, Untouched
    <2> QED
      BY <2>1, <2>2
  <1>9. CASE End
    BY <1>9, Untouched DEF End, Taken
  <1>10. CASE Remove \/ AskToEnd \/ Written
    BY <1>1, <1>10 DEF Remove, AskToEnd, Written
  <1>11. CASE UNCHANGED gvars
    BY <1>1, <1>11 DEF gvars
  <1> QED
    BY <1>2, <1>3, <1>4, <1>5, <1>6, <1>7, <1>8, <1>9, <1>10, <1>11 DEF Next

\* The next two: what a supervisor holds, and what is nobody's, stays so.
LEMMA HeldNext == ASSUME Sane, TypeInv, HeldInv, [Next]_gvars PROVE HeldInv'
  <1>1. CASE \E u \in Units, role \in Roles : Spawn(u, role)
    <2>1. PICK u \in Units, role \in Roles, p \in Pids :
            /\ Unused(p) /\ procs' = [procs EXCEPT ![p] = Group(u, role)]
            /\ held' = [held EXCEPT ![<<u, role>>] = p] /\ daemon = "up" /\ UNCHANGED <<leaving, daemon, ended>>
      BY <1>1 DEF Spawn
    <2> DEFINE g == Group(u, role)
    <2>2. g # None /\ g.unit = u /\ g.role = role /\ g.leader = "running"
      BY GroupNew DEF TypeInv
    <2> HIDE DEF g
    <2>3. <<u, role>> \in Jobs /\ procs'[p] = g /\ \A q \in Pids \ {p} : procs'[q] = procs[q]
      BY <2>1 DEF TypeInv, Jobs, g
    <2>4. ASSUME NEW job \in Jobs, held'[job] # None PROVE Has(job)'
      <3>1. CASE job = <<u, role>>
        BY <2>1, <2>2, <2>3, <3>1 DEF Has, Taken, TypeInv
      <3>2. CASE job # <<u, role>>
        <4>1. held'[job] = held[job] /\ Has(job) /\ held[job] \in Pids
          BY <2>1, <2>4, <3>2 DEF HeldInv, TypeInv
        <4>2. held[job] # p
          BY <2>1, <4>1 DEF Has, Unused
        <4> QED
          BY <2>3, <4>1, <4>2 DEF Has, Taken
      <3> QED
        BY <3>1, <3>2
    <2>5. \A e \in leaving : e[2] \in Pids /\ e[2] # p
      BY <2>1 DEF Unused, TypeInv, EntryType
    <2>6. \A e \in leaving : Taken(e[2])' => (Entry(e[2]) = e /\ procs[e[2]].leader = "reaped")'
      BY <2>3, <2>5 DEF HeldInv, Taken, Entry
    <2> QED
      BY <2>1, <2>4, <2>6 DEF HeldInv
  <1>2. ASSUME NEW p \in Pids, Taken(p), NEW g, procs' = [procs EXCEPT ![p] = g], UNCHANGED <<held, leaving, daemon, ended>>,
               g # None => Later(procs[p], g), Held(p) => g # None /\ g.leader # "reaped"
        PROVE  HeldInv'
    <2>1. procs'[p] = g /\ \A q \in Pids \ {p} : procs'[q] = procs[q]
      BY <1>2 DEF TypeInv
    <2>2. ASSUME NEW job \in Jobs, held[job] # None PROVE Has(job)'
      <3>1. Has(job) /\ held[job] \in Pids
        BY <2>2 DEF HeldInv, TypeInv
      <3>2. CASE held[job] = p
        BY <1>2, <2>1, <3>1, <3>2 DEF Has, Held, Later, Taken
      <3>3. CASE held[job] # p
        BY <1>2, <2>1, <3>1, <3>3 DEF Has, Taken
      <3> QED
        BY <3>2, <3>3
    <2>3. ASSUME NEW e \in leaving, Taken(e[2])' PROVE (Entry(e[2]) = e /\ procs[e[2]].leader = "reaped")'
      <3>1. e[2] \in Pids
        BY <2>3 DEF TypeInv, EntryType
      <3>2. CASE e[2] = p
        BY <1>2, <2>1, <2>3, <3>2 DEF HeldInv, Later, Taken, Entry
      <3>3. CASE e[2] # p
        BY <2>1, <2>3, <3>1, <3>3 DEF HeldInv, Taken, Entry
      <3> QED
        BY <3>2, <3>3
    <2> QED
      BY <1>2, <2>2, <2>3 DEF HeldInv
  <1>3. CASE \E u \in Units, role \in Roles : Add(u, role)
    <2>1. PICK u \in Units, role \in Roles : Add(u, role)
      BY <1>3
    <2> DEFINE p == held[<<u, role>>]
    <2>2. daemon = "up" /\ p # None /\ AddOf(p) /\ UNCHANGED <<held, leaving, daemon, ended>>
      BY <2>1, AddIs
    <2>3. p \in Pids /\ Taken(p) /\ procs[p] \in GroupType /\ procs[p].leader # "reaped"
      BY <2>2, Reaped
    <2>4. PICK r \in {"added", "known"} : procs' = [procs EXCEPT ![p] = [procs[p] EXCEPT !.record = r]]
      BY <2>2 DEF AddOf
    <2> DEFINE g == [procs[p] EXCEPT !.record = r]
    <2>5. g \in GroupType /\ Later(procs[p], g) /\ g.leader # "reaped"
      BY <2>3 DEF GroupType, Later
    <2> HIDE DEF g
    <2>6. procs' = [procs EXCEPT ![p] = g]
      BY <2>4 DEF g
    <2> QED
      BY <1>2, <2>2, <2>3, <2>5, <2>6 DEF Sane
  <1>4. CASE \E u \in Units, role \in Roles : Reap(u, role) \/ ReapLeader(u, role)
    <2>1. PICK u \in Units, role \in Roles : ReapOf(u, role)
      BY <1>4, ReapIs
    <2> DEFINE p == held[<<u, role>>]
    <2>2. /\ p \in Pids /\ Taken(p) /\ procs[p] \in GroupType
          /\ \A job \in Jobs \ {<<u, role>>} : held[job] # p
      BY <2>1, Reaped DEF ReapOf
    <2>3. PICK g \in GroupType \union {None} :
            procs' = [procs EXCEPT ![p] = g] /\ (g # None => Later(procs[p], g) /\ g.leader = "reaped")
      BY <2>1, <2>2 DEF ReapOf, ReapTo, GroupType, Later
    <2>4. /\ daemon = "up" /\ UNCHANGED <<daemon, ended>> /\ leaving' = leaving \union {Entry(p)}
          /\ held' = [held EXCEPT ![<<u, role>>] = None]
      BY <2>1 DEF ReapOf
    <2>5. procs'[p] = g /\ \A q \in Pids \ {p} : procs'[q] = procs[q]
      BY <2>2, <2>3 DEF TypeInv
    <2>6. ASSUME NEW job \in Jobs, held'[job] # None PROVE Has(job)'
      <3>1. job # <<u, role>>
        BY <2>4, <2>6 DEF TypeInv
      <3>2. held'[job] = held[job] /\ Has(job) /\ held[job] \in Pids \ {p}
        BY <2>2, <2>4, <2>6, <3>1 DEF HeldInv, TypeInv
      <3> QED
        BY <2>5, <3>2 DEF Has, Taken
    <2>7. ASSUME NEW e \in leaving', Taken(e[2])' PROVE (Entry(e[2]) = e /\ procs[e[2]].leader = "reaped")'
      <3>1. CASE e[2] = p
        <4>1. e = Entry(p)
          BY <2>2, <2>4, <2>7, <3>1 DEF HeldInv
        <4> QED
          BY <2>3, <2>5, <2>7, <3>1, <4>1 DEF Later, Taken, Entry
      <3>2. CASE e[2] # p
        <4>1. e \in leaving /\ e[2] \in Pids
          BY <2>2, <2>4, <2>7, <3>2 DEF TypeInv, EntryType, Entry
        <4> QED
          BY <2>5, <2>7, <3>2, <4>1 DEF HeldInv, Taken, Entry
      <3> QED
        BY <3>1, <3>2
    <2> QED
      BY <2>4, <2>6, <2>7 DEF HeldInv
  <1>5. CASE \E p \in Pids : Fork(p) \/ Exit(p) \/ KidsExit(p)
    <2>1. PICK p \in Pids : Fork(p) \/ Exit(p) \/ KidsExit(p)
      BY <1>5
    <2>2. Taken(p) /\ UNCHANGED <<held, leaving, daemon, ended>>
      BY <2>1, MovesIs
    <2>3. PICK g \in GroupType \union {None} :
            /\ procs' = [procs EXCEPT ![p] = g] /\ (g # None => Later(procs[p], g))
            /\ g # None /\ Held(p) => g.leader # "reaped" \/ procs[p].leader = "reaped"
            /\ g = None => procs[p].leader = "reaped" \/ ~Held(p)
      BY <2>1, MovesIs DEF Moves
    <2>4. Held(p) => procs[p].leader # "reaped"
      BY DEF Held, HeldInv, Has, TypeInv, Sane
    <2> QED
      BY <1>2, <2>2, <2>3, <2>4
  <1>6. CASE \E p \in Pids : Stranger(p)
    <2>1. PICK p \in Pids : Unused(p) /\ procs' = [procs EXCEPT ![p] = Group(Other, "main")]
      BY <1>6 DEF Stranger
    <2>2. UNCHANGED <<held, leaving, daemon, ended>> /\ \A q \in Pids \ {p} : procs'[q] = procs[q]
      BY <1>6, <2>1 DEF Stranger, TypeInv
    <2>3. \A job \in Jobs : held[job] # None => held[job] \in Pids \ {p}
      BY <2>1 DEF HeldInv, Has, Unused, TypeInv
    <2>4. \A e \in leaving : e[2] \in Pids \ {p}
      BY <2>1 DEF Unused, TypeInv, EntryType
    <2>5. \A job \in Jobs : held[job] # None => Has(job)'
      BY <2>2, <2>3 DEF HeldInv, Has, Taken
    <2>6. \A e \in leaving : Taken(e[2])' => (Entry(e[2]) = e /\ procs[e[2]].leader = "reaped")'
      BY <2>2, <2>4 DEF HeldInv, Taken, Entry
    <2> QED
      BY <2>2, <2>5, <2>6 DEF HeldInv
  <1>7. CASE Die
    BY <1>7 DEF Die, HeldInv, TypeInv
  <1>8. CASE End \/ AskToEnd \/ Unreadable
    BY <1>8 DEF End, AskToEnd, Unreadable, HeldInv
  <1>9. CASE Remove \/ Written \/ UNCHANGED gvars
    <2>1. UNCHANGED <<procs, held>> /\ leaving' \subseteq leaving
      BY <1>9 DEF Remove, Written, gvars
    <2>2. daemon' # "up" => daemon # "up"
      BY <1>9 DEF Remove, Written, gvars
    <2>3. daemon' \in {"up", "down"} => ended' = {}
      BY <1>9 DEF Remove, Written, gvars, HeldInv
    <2> QED
      BY <2>1, <2>2, <2>3 DEF HeldInv, Has, Taken, Entry
  <1> QED
    BY <1>1, <1>3, <1>4, <1>5, <1>6, <1>7, <1>8, <1>9 DEF Next

\* No step changes what is not a unit's, as long as there is it.
LEMMA StrangerSame ==
  ASSUME Sane, TypeInv, HeldInv, StrangerInv, [Next]_gvars, NEW p \in Pids, Taken(p), ~Ours(p), Taken(p)'
  PROVE  procs'[p] = procs[p]
  <1>1. Runs(p) /\ ~procs[p].kids /\ procs[p] \in GroupType /\ ~Held(p) /\ procs[p].leader = "running"
    BY DEF StrangerInv, Runs, Ours, Held, HeldInv, Has, TypeInv, Taken, Jobs, Sane
  <1>2. CASE \E u \in Units, role \in Roles : Spawn(u, role) \/ Add(u, role)
    BY <1>1, <1>2 DEF Spawn, Add, Unused, TypeInv, Held, Jobs
  <1>3. CASE \E u \in Units, role \in Roles : Reap(u, role) \/ ReapLeader(u, role)
    BY <1>1, <1>3 DEF Reap, ReapLeader, Reaps, TypeInv, Held, Jobs
  <1>4. CASE \E q \in Pids : Fork(q) \/ Stranger(q)
    BY <1>1, <1>4 DEF Fork, Stranger, Unused, TypeInv
  <1>5. CASE \E q \in Pids : Exit(q) \/ KidsExit(q)
    <2>1. PICK q \in Pids : Exit(q) \/ KidsExit(q)
      BY <1>5
    <2>2. CASE q # p
      BY <2>1, <2>2 DEF Exit, KidsExit, TypeInv
    <2>3. CASE q = p
      <3>1. procs'[p] = Left([procs[p] EXCEPT !.leader = "reaped"])
        BY <1>1, <2>1, <2>3 DEF Exit, KidsExit, TypeInv
      <3>2. [procs[p] EXCEPT !.leader = "reaped"].leader = "reaped"
        BY <1>1 DEF GroupType
      <3>3. ~[procs[p] EXCEPT !.leader = "reaped"].kids
        BY <1>1 DEF GroupType
      <3> QED
        BY <3>1, <3>2, <3>3 DEF Left, Taken
    <2> QED
      BY <2>2, <2>3
  <1>6. CASE Die \/ End \/ AskToEnd \/ Remove \/ Written \/ UNCHANGED gvars
    BY <1>1, <1>6 DEF Die, End, AskToEnd, Remove, Written, gvars, Taken
  <1>7. CASE Unreadable
    BY <1>7 DEF Unreadable, StrangerInv
  <1> QED
    BY <1>2, <1>3, <1>4, <1>5, <1>6, <1>7 DEF Next

\* So it stays a leader that runs, alone in its group and on nobody's record.
LEMMA StrangerNext == ASSUME Sane, TypeInv, HeldInv, StrangerInv, [Next]_gvars PROVE StrangerInv'
  <1> SUFFICES ASSUME NEW p \in Pids, Taken(p)', ~Ours(p)' PROVE (Runs(p) /\ ~procs[p].kids /\ procs[p].record = "new")'
    BY DEF StrangerInv
  <1>1. Same(p) \/ Fresh(p)
    BY Fates
  <1>2. CASE Fresh(p)
    BY <1>2 DEF Fresh
  <1>3. CASE Same(p)
    <2>1. Taken(p) /\ ~Ours(p)
      BY <1>3 DEF Same, Later, Ours
    <2>2. procs'[p] = procs[p]
      BY <2>1, StrangerSame
    <2> QED
      BY <2>1, <2>2 DEF StrangerInv, Runs, Taken
  <1> QED
    BY <1>1, <1>2, <1>3

\* A group that is known after a step was before it, or is so by the record it is in now.
LEMMA KnownSince ==
  ASSUME Sane, TypeInv, HeldInv, [Next]_gvars, NEW p \in Pids, Known(p)'
  PROVE  Same(p) /\ Entry(p)' = Entry(p) /\ Ours(p) /\ Runs(p) /\ (Known(p) \/ Recorded(p))
  <1>1. Same(p)
    BY Fates DEF Fresh, Known, Ours
  <1> QED
    BY <1>1 DEF Same, Later, Known, Ours, Runs, Entry

\* A supervisor that writes the record keeps in it all that is known.
LEMMA KnownHeld ==
  ASSUME HeldInv, OrphansEnded, daemon = "up", NEW p \in Pids, Known(p)
  PROVE  Entry(p) \in Groups /\ \A e \in leaving : e[2] # p
  BY DEF Known, OrphansEnded, Groups, HeldInv, Runs

\* The record: what a step takes off it is gone, or was asked for and is ended.
LEMMA FileChange ==
  ASSUME Sane, TypeInv, HeldInv, RecordInv, EndingInv, OrphansEnded, [Next]_gvars, NEW p \in Pids, Known(p), Known(p)'
  PROVE  Entry(p) \in file'
  <1>1. Entry(p) \in file
    BY DEF RecordInv
  <1>2. CASE Remove
    <2>1. PICK e \in leaving : daemon = "up" /\ Save({other \in Groups : other[2] # e[2]})
      BY <1>2 DEF Remove
    <2>2. Entry(p) \in {other \in Groups : other[2] # e[2]}
      BY <2>1, KnownHeld DEF Entry
    <2> QED
      BY <1>1, <2>1, <2>2 DEF Save
  <1>3. CASE \E u \in Units, role \in Roles : Add(u, role)
    <2>1. PICK u \in Units, role \in Roles : daemon = "up" /\ Save(Groups \union {Entry(held[<<u, role>>])})
      BY <1>3 DEF Add
    <2> QED
      BY <1>1, <2>1, KnownHeld DEF Save
  <1>4. CASE Written
    <2>1. Entry(p) \in Kept
      BY <1>1, <1>4 DEF Written, Kept, EndingInv, Entry
    <2> QED
      BY <1>1, <1>4, <2>1 DEF Written, Save
  <1>5. CASE Unreadable
    <2>1. procs'[p].record = "added"
      <3>1. Taken(p) /\ procs[p].record = "known" /\ procs[p] \in GroupType
        BY DEF Known, Ours, Taken, TypeInv
      <3> QED
        BY <1>5, <3>1 DEF Unreadable, GroupType
    <2> QED
      BY <2>1 DEF Known
  <1>6. CASE UNCHANGED file
    BY <1>1, <1>6
  <1> QED
    BY <1>2, <1>3, <1>4, <1>5, <1>6
    DEF Next, Spawn, Reap, ReapLeader, Reaps, Fork, Exit, KidsExit, Stranger, Die, AskToEnd, End, gvars

\* Every step keeps the record true of what runs.
LEMMA RecordNext ==
  ASSUME Sane, TypeInv, HeldInv, RecordInv, EndingInv, OrphansEnded, [Next]_gvars PROVE RecordInv'
  <1>1. ASSUME NEW p \in Pids, Known(p)' PROVE Entry(p)' \in file'
    <2>1. Entry(p)' = Entry(p) /\ (Known(p) \/ Recorded(p))
      BY <1>1, KnownSince
    <2> QED
      BY <1>1, <2>1, FileChange DEF Recorded
  <1>2. ASSUME NEW e \in file', Taken(e[2])', procs'[e[2]].born = e[3] PROVE procs'[e[2]].unit = e[1]
    <2>1. CASE e \in file
      <3>1. e[2] \in Pids /\ e[3] <= born /\ e[3] \in Nat /\ born \in Nat
        BY <2>1 DEF TypeInv, EntryType
      <3>2. Same(e[2])
        BY <1>2, <3>1, Fates DEF Fresh
      <3> QED
        BY <1>2, <2>1, <3>2 DEF Same, Later, RecordInv
    <2>2. CASE e \notin file
      <3>1. e \in Groups \/ \E u \in Units, role \in Roles : daemon = "up" /\ held[<<u, role>>] # None /\ e = Entry(held[<<u, role>>])
        <4>1. CASE \E u \in Units, role \in Roles : Add(u, role)
          BY <1>2, <2>2, <4>1 DEF Add, Save
        <4>2. CASE Remove \/ Written
          BY <1>2, <2>2, <4>2 DEF Remove, Written, Save, Kept
        <4>3. CASE UNCHANGED file \/ file' = {}
          BY <1>2, <2>2, <4>3
        <4> QED
          BY <4>1, <4>2, <4>3
          DEF Next, Spawn, Reap, ReapLeader, Reaps, Fork, Exit, KidsExit, Stranger, Die, AskToEnd, End, Unreadable, gvars
      <3>2. e[2] \in Pids /\ e[3] <= born /\ e[3] \in Nat /\ (Taken(e[2]) => Entry(e[2]) = e)
        <4>1. CASE e \in Groups
          BY <4>1, GroupsTyped DEF EntryType
        <4>2. CASE e \notin Groups
          <5>1. PICK u \in Units, role \in Roles : daemon = "up" /\ held[<<u, role>>] # None /\ e = Entry(held[<<u, role>>])
            BY <3>1, <4>2
          <5>2. e \in EntryType /\ e[3] <= born /\ held[<<u, role>>] \in Pids
            BY <5>1, Reaped
          <5> QED
            BY <5>1, <5>2 DEF EntryType, Entry
        <4> QED
          BY <4>1, <4>2
      <3>3. Same(e[2])
        BY <1>2, <3>2, Fates DEF Fresh, TypeInv
      <3>4. Entry(e[2]) = e
        BY <3>2, <3>3 DEF Same
      <3> QED
        BY <3>3, <3>4 DEF Same, Later, Entry
    <2> QED
      BY <2>1, <2>2
  <1> QED
    BY <1>1, <1>2 DEF RecordInv

\* Every step of end_orphans is about those it was asked for, and no other's.
LEMMA EndingNext ==
  ASSUME Sane, TypeInv, HeldInv, StrangerInv, RecordInv, EndingInv, [Next]_gvars PROVE EndingInv'
  <1>1. CASE AskToEnd
    <2>1. only' \subseteq Units /\ daemon' = "asked" /\ UNCHANGED <<procs, file>>
      BY <1>1 DEF AskToEnd
    <2>2. ended' = {e[2] : e \in {e \in file : e[1] \in only' /\ Runs(e[2]) /\ procs[e[2]].born = e[3]}}
      BY <1>1 DEF AskToEnd, Orphans
    <2>3. ASSUME NEW p \in ended' PROVE Ours(p)
      <3>1. PICK e \in file : e[2] = p /\ e[1] \in only' /\ Runs(p) /\ procs[p].born = e[3]
        BY <2>2, <2>3
      <3>2. Taken(p) /\ procs[p].unit = e[1]
        BY <3>1 DEF Runs, RecordInv
      <3> QED
        BY <2>1, <3>1, <3>2 DEF Ours
    <2>4. ASSUME NEW p \in Pids, Known(p), procs[p].unit \in only' PROVE p \in ended'
      <3>1. <<procs[p].unit, p, procs[p].born>> \in file /\ Runs(p)
        BY <2>4 DEF RecordInv, Known, Entry
      <3> QED
        BY <2>2, <2>4, <3>1
    <2> QED
      BY <2>1, <2>3, <2>4 DEF EndingInv, Ours, Taken, Runs, Known
  <1>2. CASE End
    <2>1. /\ UNCHANGED <<only, ended, held>> /\ daemon = "asked" /\ daemon' = "ended"
          /\ \A p \in Pids : procs'[p] = IF p \in ended THEN None ELSE procs[p]
      BY <1>2 DEF End
    <2> QED
      BY <2>1 DEF EndingInv, Ours, Taken, Runs, Known, TypeInv
  <1>3. CASE Written \/ Die
    BY <1>3 DEF Written, Die, EndingInv
  <1>4. CASE Unreadable
    BY <1>4 DEF Unreadable, EndingInv, HeldInv
  <1>5. ASSUME UNCHANGED <<daemon, only, ended>> PROVE EndingInv'
    <2>1. ASSUME NEW p \in ended, Taken(p)' PROVE Ours(p)'
      <3>1. Same(p)
        BY <2>1, Fates DEF Fresh, Unused, TypeInv
      <3> QED
        BY <2>1, <3>1 DEF Same, Later, EndingInv, Ours
    <2>2. ASSUME NEW p \in Pids, daemon \in {"asked", "ended"}, Known(p)'
          PROVE  Known(p) /\ procs'[p].unit = procs[p].unit
      BY <2>2, KnownSince DEF Recorded, Same, Later
    <2>3. /\ daemon = "asked" => \A p \in Pids : Known(p)' /\ procs'[p].unit \in only => p \in ended
          /\ daemon = "ended" => \A p \in Pids : Known(p)' => procs'[p].unit \notin only
      BY <2>2 DEF EndingInv
    <2> QED
      BY <1>5, <2>1, <2>3 DEF EndingInv
  <1> QED
    BY <1>1, <1>2, <1>3, <1>4, <1>5
    DEF Next, Spawn, Add, Reap, ReapLeader, Reaps, Remove, Fork, Exit, KidsExit, Stranger, gvars

\* What becomes of a supervisor's hold on a group: nothing, unless its leader is reaped.
LEMMA HoldKept ==
  ASSUME Sane, TypeInv, HeldInv, daemon = "up", daemon' = "up", Next, NEW p \in Pids, Held(p), ~Held(p)'
  PROVE  \E u \in Units, role \in Roles : p = held[<<u, role>>] /\ ReapOf(u, role)
  <1>1. PICK job \in Jobs : held[job] = p
    BY DEF Held
  <1>2. held'[job] # p
    BY <1>1 DEF Held
  <1>3. CASE \E u \in Units, role \in Roles : Spawn(u, role)
    BY <1>1, <1>2, <1>3 DEF Spawn, TypeInv, Sane
  <1>4. CASE \E u \in Units, role \in Roles : Reap(u, role) \/ ReapLeader(u, role)
    <2>1. PICK u \in Units, role \in Roles : ReapOf(u, role)
      BY <1>4, ReapIs
    <2>2. held' = [held EXCEPT ![<<u, role>>] = None]
      BY <2>1 DEF ReapOf
    <2>3. job = <<u, role>>
      BY <1>1, <1>2, <2>2 DEF TypeInv
    <2> QED
      BY <1>1, <2>1, <2>3
  <1> QED
    BY <1>1, <1>2, <1>3, <1>4
    DEF Next, Add, Remove, Fork, Exit, KidsExit, Stranger, Die, AskToEnd, Unreadable, End, Written

\* A supervisor that runs has those recorded before it neither when it starts nor later.
LEMMA OrphansNext ==
  ASSUME Sane, TypeInv, HeldInv, EndingInv, OrphansEnded, [Next]_gvars PROVE OrphansEnded'
  <1> SUFFICES ASSUME daemon' = "up", NEW p \in Pids, Known(p)' PROVE Held(p)'
    BY DEF OrphansEnded, Known
  <1>1. Ours(p) /\ Runs(p) /\ (Known(p) \/ Recorded(p))
    BY KnownSince
  <1>2. CASE Written
    <2>1. only = Units /\ daemon = "ended" /\ UNCHANGED procs
      BY <1>2 DEF Written
    <2> QED
      BY <1>1, <2>1 DEF EndingInv, Ours, Recorded
  <1>3. CASE Unreadable
    <2>1. procs'[p].record # "known"
      BY <1>1, <1>3 DEF Unreadable, TypeInv, Ours, Taken, GroupType
    <2> QED
      BY <2>1 DEF Known
  <1>4. CASE ~Written /\ ~Unreadable
    <2>1. daemon = "up"
      BY <1>4 DEF Next, Spawn, Add, Reap, ReapLeader, Reaps, Remove, Fork, Exit, KidsExit, Stranger, Die, AskToEnd, End, gvars
    <2>2. Held(p)
      BY <1>1, <2>1 DEF OrphansEnded, Recorded, Known
    <2>3. CASE UNCHANGED gvars
      BY <2>2, <2>3 DEF gvars, Held
    <2>4. CASE Next /\ ~Held(p)'
      <3>1. PICK u \in Units, role \in Roles : p = held[<<u, role>>] /\ ReapOf(u, role)
        BY <2>1, <2>2, <2>4, HoldKept
      <3> QED
        BY <1>1, <3>1 DEF ReapOf, Runs
    <2> QED
      BY <2>3, <2>4
  <1> QED
    BY <1>2, <1>3, <1>4

\* The whole invariant, from the first state on.
LEMMA GroupsKept == ASSUME Sane PROVE Spec => []GroupsInv
  <1>1. Init => GroupsInv
    BY DEF Init, GroupsInv, TypeInv, HeldInv, StrangerInv, RecordInv, EndingInv, OrphansEnded, Taken, Ours, Known
  <1>2. GroupsInv /\ [Next]_gvars => GroupsInv'
    BY TypeNext, HeldNext, StrangerNext, RecordNext, EndingNext, OrphansNext DEF GroupsInv
  <1> QED
    BY <1>1, <1>2, PTL DEF Spec

\* A supervisor that runs has no unit's recorded process from before it, whenever supervisors
\* were killed and whatever a `stop` without one had ended in between: the record that
\* end_orphans goes by has them all until they are gone, or a read of it fails.
LEMMA OrphansKept == ASSUME Sane PROVE Spec => []OrphansEnded
  <1>1. GroupsInv => OrphansEnded
    BY DEF GroupsInv
  <1> QED
    BY <1>1, GroupsKept, PTL

\* No step kills a process of somebody else's: pids are reused, but a recorded start time is
\* never that of another's process.
THEOREM StrangersKept == ASSUME Sane PROVE Spec => [][StrangersLive]_gvars
  <1>1. GroupsInv /\ [Next]_gvars => [StrangersLive]_gvars
    <2> SUFFICES ASSUME GroupsInv, Next, NEW p \in Pids, Taken(p), procs[p].unit = Other, ~Taken(p)'
                 PROVE  daemon' = daemon
      <3>1. ASSUME GroupsInv, Next, NEW p \in Pids, Taken(p), procs[p].unit = Other, Taken(p)' PROVE procs'[p] = procs[p]
        BY <3>1, StrangerSame DEF GroupsInv, Sane, Ours
      <3> QED
        BY <3>1 DEF StrangersLive, gvars, Taken
    <2>1. Sane /\ TypeInv /\ HeldInv /\ StrangerInv /\ EndingInv
      BY DEF GroupsInv
    <2>2. ~Ours(p) /\ procs[p].leader = "running" /\ procs[p].record = "new" /\ p \notin ended
      BY <2>1 DEF Sane, Ours, StrangerInv, Runs, EndingInv
    <2>3. CASE Die \/ End
      BY <2>2, <2>3 DEF Die, End, Taken
    <2>4. CASE AskToEnd \/ Written
      BY <2>4 DEF AskToEnd, Written, Taken
    <2>5. CASE Unreadable
      BY <2>2, <2>5 DEF Unreadable, Taken
    <2> QED
      BY <2>3, <2>4, <2>5 DEF Next, Spawn, Add, Reap, ReapLeader, Reaps, Remove, Fork, Exit, KidsExit, Stranger
  <1> QED
    BY <1>1, GroupsKept, PTL DEF Spec

\* Until a supervisor is killed, it has the leader of each group it started until it reaps it,
\* and what is in a group after that was left there by a command or by a main process whose
\* unit stays active without it: the exit of any other is met by the end of all its group.
THEOREM BehindKept == ASSUME Sane PROVE Spec => [](OrphansEnded /\ NothingBehind)
  <1>1. Init => BehindInv
    BY DEF Init, BehindInv, NothingBehind, Ours, Taken
  <1>2. GroupsInv /\ BehindInv /\ [Next]_gvars => BehindInv'
    <2> SUFFICES ASSUME GroupsInv, BehindInv, [Next]_gvars, deaths' = 0 PROVE daemon' = "up" /\ NothingBehind'
      BY DEF BehindInv
    <2>1. Sane /\ TypeInv /\ HeldInv
      BY DEF GroupsInv
    <2>2. ~Die
      BY <2>1 DEF Die, TypeInv
    <2>3. deaths = 0
      BY <2>2
      DEF Next, Spawn, Add, Reap, ReapLeader, Reaps, Remove, Fork, Exit, KidsExit, Stranger, AskToEnd, Unreadable, End, Written, gvars
    <2>4. daemon = "up" /\ NothingBehind
      BY <2>3 DEF BehindInv
    <2>5. daemon' = "up"
      BY <2>2, <2>4
      DEF Next, Spawn, Add, Reap, ReapLeader, Reaps, Remove, Fork, Exit, KidsExit, Stranger, AskToEnd, Unreadable, End, Written, gvars
    <2>6. ASSUME NEW p \in Pids, Ours(p)', ~Held(p)'
          PROVE  procs'[p].leader = "reaped" /\ (procs'[p].role = "command" \/ procs'[p].unit \in Remain)
      <3>1. CASE Fresh(p)
        BY <2>6, <3>1 DEF Fresh, Ours
      <3>2. CASE Same(p)
        <4>1. Ours(p) /\ Later(procs[p], procs'[p])
          BY <2>6, <3>2 DEF Same, Later, Ours
        <4>2. CASE ~Held(p)
          BY <2>3, <2>4, <4>1, <4>2 DEF NothingBehind, Later
        <4>3. CASE Held(p)
          <5>1. Next
            BY <2>6, <4>3 DEF gvars, Held
          <5>2. PICK u \in Units, role \in Roles : p = held[<<u, role>>] /\ ReapOf(u, role)
            BY <2>1, <2>4, <2>5, <2>6, <4>3, <5>1, HoldKept
          <5>3. procs[p].unit = u /\ procs[p].role = role
            BY <2>1, <5>2, Reaped DEF ReapOf
          <5>4. PICK g \in GroupType \union {None} : ReapTo(u, role, g)
            BY <5>2 DEF ReapOf
          <5>5. procs'[p] = g /\ g # None
            BY <2>1, <2>6, <5>2, <5>4 DEF ReapTo, TypeInv, Ours, Taken
          <5> QED
            BY <4>1, <5>3, <5>4, <5>5 DEF ReapTo, Later
        <4> QED
          BY <4>2, <4>3
      <3> QED
        BY <2>1, <2>6, <3>1, <3>2, Fates DEF Ours
    <2> QED
      BY <2>5, <2>6 DEF NothingBehind
  <1>3. BehindInv => NothingBehind
    BY DEF BehindInv, NothingBehind
  <1> QED
    BY <1>1, <1>2, <1>3, GroupsKept, OrphansKept, PTL DEF Spec
=============================================================================
