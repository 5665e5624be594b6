-------------------------- MODULE CtlEntriesProofs --------------------------
(***************************************************************************)
(* Proofs about CtlEntries: for any tags, sources, slots, commands and     *)
(* kills, the spool has no entry without what its `add` gave it.           *)
(***************************************************************************)
EXTENDS CtlEntries, TLAPS
LOCAL INSTANCE SequencesExt
LOCAL INSTANCE FiniteSetsExt
O == INSTANCE WellFoundedInduction

Files  == {"entry", "hop", "tweaks", "disabled", "port", "iface"}
Values == {None, TRUE} \union Slots \union {s.kind : s \in Sources} \union {s.hop : s \in Sources} \union {s.tweaks : s \in Sources}
Places == Tags \union Declared
Writes == [file : Files, value : Values]
Cmd    == [verb : {"none", "add", "rm", "disable", "enable"}, tag : Places \union {None}, source : Sources \union {None},
           step : {"idle", "lock", "write"}, writes : Seq(Writes)]

\* What the constants have to be told apart by.
Sane ==
  /\ None \notin Procs \union Slots
  /\ Slots \subseteq Nat
  /\ Names \in Seq(Tags)
  /\ \A s \in Sources : s.kind # None

TypeInv ==
  /\ dir \in [Places -> [Files -> Values]]
  /\ inv.up \subseteq Places
  /\ lock \in Procs \union {None}
  /\ proc \in [Procs -> Cmd]
  /\ adds \in [Tags -> Sources \union {None}]

\* A command at work has its tag, an addition its source.
WorkInv ==
  \A p \in Procs : /\ proc[p].step # "idle" => proc[p].tag \in Places /\ proc[p].verb # "none"
                   /\ proc[p].step = "lock" => proc[p].verb \in {"add", "rm"}
                   /\ proc[p].step # "idle" /\ proc[p].verb \in {"add", "rm"} => proc[p].tag \in Tags
                   /\ proc[p].step # "idle" /\ proc[p].verb = "add" => proc[p].source \in Sources

\* Who adds or removes has the lock while it writes; who has it not writes `disabled` alone.
LockInv ==
  \A p \in Procs : /\ proc[p].step = "write" /\ proc[p].verb \in {"add", "rm"} <=> lock = p
                   /\ proc[p].verb \in {"disable", "enable"} => \A i \in DOMAIN proc[p].writes : proc[p].writes[i].file = "disabled"

\* AddWrites, for the port or slot that it found free.
AddFiles(s, x) ==
  IF s.kind = "port" THEN <<W("hop", None), W("disabled", None), W("iface", None), W("port", x), W("entry", s.kind)>>
  ELSE IF s.kind = "iface" THEN <<W("hop", None), W("disabled", None), W("port", None), W("iface", x), W("entry", s.kind)>>
  ELSE <<W("hop", s.hop), W("tweaks", s.tweaks), W("entry", s.kind)>>

\* All writes before the n-th are done, but that others may have switched the outbound off or on.
Written(t, writes, n) ==
  \A m \in 1..n-1 : writes[m].file # "disabled" => dir[t][writes[m].file] = writes[m].value

\* No other has this port, or this slot.
Own(t, s, x) ==
  /\ s.kind = "port"  => x \in Slots /\ \A u \in Tags \ {t} : dir[u].port # x
  /\ s.kind = "iface" => x \in Slots /\ \A u \in Tags \ {t} : dir[u].iface # x

\* An addition under way: no entry, and the files before it as they should be.
Adding(t, s, writes) ==
  /\ dir[t].entry = None
  /\ \E x \in Slots \union {None}, n \in 1..5 :
       /\ n <= Len(AddFiles(s, x)) /\ writes = SubSeq(AddFiles(s, x), n, Len(AddFiles(s, x)))
       /\ Written(t, AddFiles(s, x), n)
       /\ Own(t, s, x)

\* A removal under way: the entry goes first.
Removing(t, writes) ==
  \/ writes = RmWrites(t)
  \/ dir[t].entry = None /\ \A i \in DOMAIN writes : writes[i].file # "entry"

Hold(p) ==
  /\ proc[p].verb = "add" => proc[p].writes = <<>> \/ Adding(proc[p].tag, proc[p].source, proc[p].writes)
  /\ proc[p].verb = "rm"  => Removing(proc[p].tag, proc[p].writes)

HoldInv == \A p \in Procs : lock = p => Hold(p)

EntriesInv == TypeInv /\ WorkInv /\ LockInv /\ HoldInv /\ EntriesWhole

-----------------------------------------------------------------------------
(* The least of a set                                                       *)

\* < is well-founded, as a set of pairs.
LEMMA LessIsWellFounded == O!IsWellFoundedOn({p \in Nat \X Nat : p[1] < p[2]}, Nat)
  BY ZenonT(60), O!NatLessThanWellFounded DEF O!OpToRel

\* The least of some natural numbers is one of them.
LEMMA MinIn == ASSUME NEW S, S \subseteq Nat, S # {} PROVE Min(S) \in S
  <1> DEFINE R == {p \in Nat \X Nat : p[1] < p[2]}
  <1>1. O!IsWellFoundedOn(R, Nat)
    BY LessIsWellFounded
  <1>2. \A x, y \in Nat : <<x, y>> \in R <=> x < y
    OBVIOUS
  <1> HIDE DEF R
  <1>3. \E x \in S : \A y \in S : ~ (<<y, x>> \in R)
    BY <1>1, O!WFMin
  <1>4. \A x, y \in S : ~ (<<y, x>> \in R) => x <= y
    BY <1>2
  <1> QED
    BY <1>3, <1>4 DEF Min

-----------------------------------------------------------------------------
(* What the writes are                                                      *)

\* The name that is found for an addition without one is a tag.
LEMMA FreshIsTag == ASSUME Sane, FreshTag # None PROVE FreshTag \in Tags
  <1> DEFINE free == {i \in DOMAIN Names : Unused(Names[i])}
  <1>1. free # {} /\ FreshTag = Names[Min(free)]
    BY DEF FreshTag
  <1>2. free \subseteq Nat
    BY DEF Sane
  <1>3. Min(free) \in DOMAIN Names
    BY <1>1, <1>2, MinIn
  <1> QED
    BY <1>1, <1>3 DEF Sane

\* What a source is written as.
LEMMA FilesOfAdd ==
  ASSUME Sane, NEW s \in Sources, NEW x \in Slots \union {None}
  PROVE  /\ AddFiles(s, x) \in Seq(Writes)
         /\ Len(AddFiles(s, x)) \in 1..5
         /\ AddFiles(s, x)[Len(AddFiles(s, x))] = W("entry", s.kind)
         /\ \A m, n \in 1..Len(AddFiles(s, x)) : m # n => AddFiles(s, x)[m].file # AddFiles(s, x)[n].file
  <1>1. \A f \in Files, v \in Values : W(f, v) \in Writes /\ W(f, v).file = f
    BY DEF W, Writes
  <1>2. {"entry", "hop", "tweaks", "disabled", "port", "iface"} = Files
    BY DEF Files
  <1>3. {None, TRUE, x, s.kind, s.hop, s.tweaks} \subseteq Values
    BY DEF Values
  <1>4. AddFiles(s, x) \in Seq(Writes) /\ Len(AddFiles(s, x)) \in 1..5
    <2>1. {W("hop", None), W("hop", s.hop), W("disabled", None), W("tweaks", s.tweaks), W("entry", s.kind)} \subseteq Writes
      BY <1>1, <1>2, <1>3
    <2>2. {W("iface", None), W("iface", x), W("port", None), W("port", x)} \subseteq Writes
      BY <1>1, <1>2, <1>3
    <2>3. AddFiles(s, x) \in Seq(Writes)
      BY <2>1, <2>2 DEF AddFiles
    <2>4. Len(AddFiles(s, x)) \in 1..5
      BY DEF AddFiles
    <2> QED
      BY <2>3, <2>4
  <1>5. AddFiles(s, x)[Len(AddFiles(s, x))] = W("entry", s.kind)
    BY DEF AddFiles
  <1>6. \A m, n \in 1..Len(AddFiles(s, x)) : m # n => AddFiles(s, x)[m].file # AddFiles(s, x)[n].file
    <2>1. W("hop", None).file = "hop" /\ W("hop", s.hop).file = "hop" /\ W("disabled", None).file = "disabled" /\ W("entry", s.kind).file = "entry"
      BY DEF W
    <2>2. W("iface", None).file = "iface" /\ W("iface", x).file = "iface" /\ W("port", None).file = "port" /\ W("port", x).file = "port"
      BY DEF W
    <2>3. W("tweaks", s.tweaks).file = "tweaks"
      BY DEF W
    <2>4. CASE s.kind = "port"
      BY <2>1, <2>2, <2>4 DEF AddFiles
    <2>5. CASE s.kind # "port" /\ s.kind = "iface"
      BY <2>1, <2>2, <2>5 DEF AddFiles
    <2>6. CASE s.kind # "port" /\ s.kind # "iface"
      BY <2>1, <2>3, <2>6 DEF AddFiles
    <2> QED
      BY <2>4, <2>5, <2>6
  <1> QED
    BY <1>4, <1>5, <1>6

\* Under the lock, an addition that is not refused is these, with a port or slot nobody has.
LEMMA AddWritesAre ==
  ASSUME Sane, NEW t \in Tags, NEW s \in Sources
  PROVE  \/ AddWrites(t, s) = <<>>
         \/ \E x \in Slots \union {None} : AddWrites(t, s) = AddFiles(s, x) /\ Own(t, s, x)
  <1>1. CASE s.kind \notin {"port", "iface"}
    BY <1>1 DEF AddWrites, AddFiles, Own
  <1>2. ASSUME NEW file \in {"port", "iface"}, Slots \ Taken(file) # {}
        PROVE  /\ Min(Slots \ Taken(file)) \in Slots
               /\ \A u \in Tags : dir[u][file] # Min(Slots \ Taken(file))
    <2>1. Min(Slots \ Taken(file)) \in Slots \ Taken(file)
      BY <1>2, MinIn DEF Sane
    <2>2. Min(Slots \ Taken(file)) # None
      BY <2>1 DEF Sane
    <2> QED
      BY <2>1, <2>2 DEF Taken
  <1>3. CASE s.kind = "port"
    <2>1. CASE Slots \ Taken("port") = {}
      BY <1>3, <2>1 DEF AddWrites
    <2>2. CASE Slots \ Taken("port") # {}
      <3>1. AddWrites(t, s) = AddFiles(s, Min(Slots \ Taken("port")))
        BY <1>3, <2>2 DEF AddWrites, AddFiles
      <3>2. Own(t, s, Min(Slots \ Taken("port")))
        BY <1>2, <1>3, <2>2 DEF Own
      <3> QED
        BY <1>2, <2>2, <3>1, <3>2
    <2> QED
      BY <2>1, <2>2
  <1>4. CASE s.kind = "iface"
    <2>1. CASE Slots \ Taken("iface") = {}
      BY <1>4, <2>1 DEF AddWrites
    <2>2. CASE Slots \ Taken("iface") # {}
      <3>1. AddWrites(t, s) = AddFiles(s, Min(Slots \ Taken("iface")))
        BY <1>4, <2>2 DEF AddWrites, AddFiles
      <3>2. Own(t, s, Min(Slots \ Taken("iface")))
        BY <1>2, <1>4, <2>2 DEF Own
      <3> QED
        BY <1>2, <2>2, <3>1, <3>2
    <2> QED
      BY <2>1, <2>2
  <1> QED
    BY <1>1, <1>3, <1>4

\* A removal's.
LEMMA FilesOfRm ==
  ASSUME NEW t
  PROVE  /\ RmWrites(t) \in Seq(Writes) /\ RmWrites(t) # <<>>
         /\ Head(RmWrites(t)) = W("entry", None)
         /\ \A i \in DOMAIN Tail(RmWrites(t)) : Tail(RmWrites(t))[i].file # "entry"
  <1>1. \A f \in Files : W(f, None) \in Writes /\ W(f, None).file = f
    BY DEF W, Writes, Values
  <1>2. {"entry", "hop", "tweaks", "disabled", "port", "iface"} = Files
    BY DEF Files
  <1>3. \A i \in DOMAIN Tail(RmWrites(t)) :
          Tail(RmWrites(t))[i] \in {W("hop", None), W("disabled", None), W("port", None), W("iface", None), W("tweaks", None)}
    BY DEF RmWrites
  <1>4. \A i \in DOMAIN Tail(RmWrites(t)) : Tail(RmWrites(t))[i].file # "entry"
    BY <1>1, <1>2, <1>3
  <1>5. RmWrites(t) \in Seq(Writes) /\ RmWrites(t) # <<>>
    BY <1>1, <1>2 DEF RmWrites
  <1>6. Head(RmWrites(t)) = W("entry", None)
    BY DEF RmWrites
  <1> QED
    BY <1>4, <1>5, <1>6

-----------------------------------------------------------------------------
(* The types                                                                *)

\* Nothing but the command's own record changes when it is asked for.
LEMMA Asks ==
  ASSUME Sane, TypeInv, NEW p \in Procs, Add(p) \/ Rm(p) \/ Disable(p) \/ Enable(p)
  PROVE  /\ proc[p].step = "idle"
         /\ UNCHANGED <<dir, inv, lock, adds>>
         /\ \E r \in Cmd : /\ proc' = [proc EXCEPT ![p] = r]
                           /\ r.tag \in Places /\ r.verb # "none"
                           /\ r.verb \in {"add", "rm"} => r.tag \in Tags /\ r.step = "lock"
                           /\ r.verb \in {"disable", "enable"} => r.step = "write"
                           /\ r.verb = "add" => r.source \in Sources
                           /\ r.verb \in {"disable", "enable"} => \A i \in DOMAIN r.writes : r.writes[i].file = "disabled"
  <1> DEFINE First(verb) == IF verb \in {"add", "rm"} THEN "lock" ELSE "write"
             Gives(verb) == CASE verb = "disable" -> <<W("disabled", TRUE)>>
                              [] verb = "enable"  -> <<W("disabled", None)>>
                              [] OTHER            -> <<>>
             R(verb, tag, source) ==
               [Idle EXCEPT !.verb = verb, !.tag = tag, !.source = source, !.step = First(verb), !.writes = Gives(verb)]
  <1>1. PICK verb \in {"add", "rm", "disable", "enable"}, tag \in Places, source \in Sources \union {None} :
          /\ Ask(p, verb, tag, source)
          /\ verb \in {"add", "rm"} => tag \in Tags
          /\ verb = "add" => source \in Sources
    <2>1. CASE Add(p)
      <3>1. PICK source \in Sources, tag \in Tags \union {None} :
              Ask(p, "add", IF tag = None THEN FreshTag ELSE tag, source) /\ (IF tag = None THEN FreshTag ELSE tag) # None
        BY <2>1 DEF Add
      <3>2. (IF tag = None THEN FreshTag ELSE tag) \in Tags
        BY <3>1, FreshIsTag
      <3> QED
        BY <3>1, <3>2 DEF Places
    <2>2. CASE Rm(p)
      BY <2>2 DEF Rm, RuntimeTags, Places
    <2>3. CASE Disable(p)
      BY <2>3 DEF Disable, TypeInv
    <2>4. CASE Enable(p)
      BY <2>4 DEF Enable, Places
    <2> QED
      BY <2>1, <2>2, <2>3, <2>4
  <1>2. /\ proc[p].step = "idle" /\ UNCHANGED <<dir, inv, lock, adds>>
        /\ proc' = [proc EXCEPT ![p] = R(verb, tag, source)]
    BY <1>1 DEF Ask
  <1>3. /\ W("disabled", TRUE) \in Writes /\ W("disabled", TRUE).file = "disabled"
        /\ W("disabled", None) \in Writes /\ W("disabled", None).file = "disabled"
    BY DEF W, Writes, Files, Values
  <1>4. /\ First(verb) \in {"lock", "write"} /\ (verb \in {"add", "rm"} => First(verb) = "lock") /\ (verb \in {"disable", "enable"} => First(verb) = "write")
        /\ Gives(verb) \in {<<>>, <<W("disabled", TRUE)>>, <<W("disabled", None)>>}
    OBVIOUS
  <1>5. Gives(verb) \in Seq(Writes) /\ \A i \in DOMAIN Gives(verb) : Gives(verb)[i].file = "disabled"
    <2>1. ASSUME NEW one \in {W("disabled", TRUE), W("disabled", None)}
          PROVE  <<one>> \in Seq(Writes) /\ \A i \in DOMAIN <<one>> : <<one>>[i].file = "disabled"
      <3>1. one \in Writes /\ one.file = "disabled"
        BY <1>3, <2>1
      <3> QED
        BY <3>1
    <2>2. <<>> \in Seq(Writes) /\ \A i \in DOMAIN <<>> : <<>>[i].file = "disabled"
      OBVIOUS
    <2> HIDE DEF Gives
    <2> QED
      BY <1>4, <2>1, <2>2
  <1> HIDE DEF First, Gives
  <1>6. /\ R(verb, tag, source).verb = verb /\ R(verb, tag, source).tag = tag /\ R(verb, tag, source).source = source
        /\ R(verb, tag, source).step = First(verb) /\ R(verb, tag, source).writes = Gives(verb)
    BY DEF Idle
  <1>7. R(verb, tag, source) \in Cmd
    BY <1>1, <1>4, <1>5 DEF Idle, Cmd
  <1> HIDE DEF R
  <1> QED
    BY <1>1, <1>2, <1>4, <1>5, <1>6, <1>7

\* Of what is laid out, the next and the rest.
LEMMA Rest ==
  ASSUME NEW S, NEW F \in Seq(S)
  PROVE  /\ SubSeq(F, 1, Len(F)) = F
         /\ \A n \in 1..Len(F) : /\ Head(SubSeq(F, n, Len(F))) = F[n] /\ SubSeq(F, n, Len(F)) # <<>>
                                /\ Tail(SubSeq(F, n, Len(F))) = SubSeq(F, n + 1, Len(F))
         /\ SubSeq(F, Len(F) + 1, Len(F)) = <<>>
  OBVIOUS

\* What is written: one file of the command's tag.
LEMMA WriteDoes ==
  ASSUME TypeInv, WorkInv, NEW p \in Procs, Write(p)
  PROVE  /\ proc[p].writes \in Seq(Writes) /\ proc[p].writes # <<>> /\ proc[p].step = "write"
         /\ Head(proc[p].writes) \in Writes /\ proc[p].tag \in Places
         /\ dir' \in [Places -> [Files -> Values]]
         /\ \A u \in Places, f \in Files :
              dir'[u][f] = IF u = proc[p].tag /\ f = Head(proc[p].writes).file THEN Head(proc[p].writes).value ELSE dir[u][f]
         /\ lock' = lock /\ inv' = inv
         /\ proc' = [proc EXCEPT ![p] = [proc[p] EXCEPT !.writes = Tail(proc[p].writes)]]
         /\ [proc[p] EXCEPT !.writes = Tail(proc[p].writes)] \in Cmd
  <1>1. /\ proc[p] \in Cmd /\ proc[p].step = "write" /\ proc[p].writes # <<>>
        /\ lock' = lock /\ inv' = inv
        /\ proc' = [proc EXCEPT ![p] = [proc[p] EXCEPT !.writes = Tail(proc[p].writes)]]
    BY DEF Write, TypeInv
  <1>2. proc[p].writes \in Seq(Writes) /\ proc[p].tag \in Places
    BY <1>1 DEF Cmd, WorkInv
  <1>3. Head(proc[p].writes) \in Writes /\ Tail(proc[p].writes) \in Seq(Writes)
    BY <1>1, <1>2
  <1>4. [proc[p] EXCEPT !.writes = Tail(proc[p].writes)] \in Cmd
    BY <1>1, <1>3 DEF Cmd
  <1>5. Head(proc[p].writes).file \in Files /\ Head(proc[p].writes).value \in Values
    BY <1>3 DEF Writes
  <1>6. dir' = [dir EXCEPT ![proc[p].tag][Head(proc[p].writes).file] = Head(proc[p].writes).value]
    BY DEF Write
  <1>7. dir \in [Places -> [Files -> Values]]
    BY DEF TypeInv
  <1>8. dir' \in [Places -> [Files -> Values]]
    BY <1>2, <1>5, <1>6, <1>7
  <1>9. \A u \in Places, f \in Files :
          dir'[u][f] = IF u = proc[p].tag /\ f = Head(proc[p].writes).file THEN Head(proc[p].writes).value ELSE dir[u][f]
    BY <1>2, <1>5, <1>6, <1>7
  <1> QED
    BY <1>1, <1>2, <1>3, <1>4, <1>8, <1>9

\* What a command becomes that has the lock, or is gone.
LEMMA Turns ==
  ASSUME TypeInv, NEW p \in Procs
  PROVE  /\ Idle \in Cmd /\ Idle.step = "idle" /\ Idle.verb = "none" /\ Idle.writes = <<>>
         /\ \A writes \in Seq(Writes) :
              /\ [proc[p] EXCEPT !.step = "write", !.writes = writes] \in Cmd
              /\ [proc[p] EXCEPT !.step = "write", !.writes = writes].step = "write"
              /\ [proc[p] EXCEPT !.step = "write", !.writes = writes].writes = writes
              /\ [proc[p] EXCEPT !.step = "write", !.writes = writes].verb = proc[p].verb
              /\ [proc[p] EXCEPT !.step = "write", !.writes = writes].tag = proc[p].tag
              /\ [proc[p] EXCEPT !.step = "write", !.writes = writes].source = proc[p].source
              /\ [proc[p] EXCEPT !.writes = writes] \in Cmd
              /\ [proc[p] EXCEPT !.writes = writes].step = proc[p].step
              /\ [proc[p] EXCEPT !.writes = writes].writes = writes
              /\ [proc[p] EXCEPT !.writes = writes].verb = proc[p].verb
              /\ [proc[p] EXCEPT !.writes = writes].tag = proc[p].tag
              /\ [proc[p] EXCEPT !.writes = writes].source = proc[p].source
  <1>1. proc[p] \in Cmd
    BY DEF TypeInv
  <1>2. Idle \in Cmd /\ Idle.step = "idle" /\ Idle.verb = "none" /\ Idle.writes = <<>>
    BY DEF Idle, Cmd
  <1> QED
    BY <1>1, <1>2 DEF Cmd


\* Who comes by the lock has its writes laid out, and nothing is written yet.
LEMMA LockDoes ==
  ASSUME Sane, TypeInv, WorkInv, NEW p \in Procs, Lock(p), proc[p].verb \in {"add", "rm"}
  PROVE  /\ lock = None /\ lock' = p /\ proc[p].step = "lock" /\ UNCHANGED <<dir, inv, adds>>
         /\ \E writes \in Seq(Writes) :
              /\ proc' = [proc EXCEPT ![p] = [proc[p] EXCEPT !.step = "write", !.writes = writes]]
              /\ proc[p].verb = "rm" => Removing(proc[p].tag, writes)
              /\ proc[p].verb = "add" => writes = <<>> \/ Adding(proc[p].tag, proc[p].source, writes)
  <1>1. /\ lock = None /\ lock' = p /\ proc[p].step = "lock" /\ UNCHANGED <<dir, inv, adds>>
    BY DEF Lock
  <1> DEFINE t == proc[p].tag
             writes == IF proc[p].verb = "rm" THEN (IF t \in RuntimeTags THEN RmWrites(t) ELSE <<>>)
                       ELSE IF t \in RuntimeTags THEN <<>> ELSE AddWrites(t, proc[p].source)
  <1>2. proc' = [proc EXCEPT ![p] = [proc[p] EXCEPT !.step = "write", !.writes = writes]]
    BY DEF Lock, TypeInv
  <1>3. t \in Tags /\ (proc[p].verb = "add" => proc[p].source \in Sources)
    BY <1>1 DEF WorkInv
  <1> HIDE DEF t
  <1>4. CASE proc[p].verb = "rm"
    <2>1. writes \in Seq(Writes)
      BY <1>4, FilesOfRm
    <2>2. Removing(t, writes)
      BY <1>3, <1>4 DEF Removing, RuntimeTags
    <2> QED
      BY <1>1, <1>2, <1>4, <2>1, <2>2 DEF t
  <1>5. CASE proc[p].verb = "add"
    <2> DEFINE s == proc[p].source
    <2>1. CASE t \in RuntimeTags \/ AddWrites(t, s) = <<>>
      <3>1. writes = <<>>
        BY <1>5, <2>1
      <3>2. <<>> \in Seq(Writes)
        OBVIOUS
      <3> HIDE DEF writes
      <3> QED
        BY <1>1, <1>2, <1>5, <3>1, <3>2
    <2>2. CASE t \notin RuntimeTags /\ AddWrites(t, s) # <<>>
      <3>1. s \in Sources /\ writes = AddWrites(t, s) /\ dir[t].entry = None
        BY <1>3, <1>5, <2>2 DEF RuntimeTags
      <3> HIDE DEF s
      <3>2. PICK x \in Slots \union {None} : AddWrites(t, s) = AddFiles(s, x) /\ Own(t, s, x)
        BY <1>3, <2>2, <3>1, AddWritesAre
      <3>3. AddFiles(s, x) \in Seq(Writes) /\ Len(AddFiles(s, x)) \in 1..5
        BY <3>1, FilesOfAdd
      <3>4. AddFiles(s, x) = SubSeq(AddFiles(s, x), 1, Len(AddFiles(s, x)))
        BY <3>3, Rest
      <3>5. 1 \in 1..5 /\ 1 <= Len(AddFiles(s, x))
        <4>1. Len(AddFiles(s, x)) \in 1..5
          BY <3>3
        <4> QED
          BY <4>1
      <3>6. Written(t, AddFiles(s, x), 1)
        BY DEF Written
      <3>7. Adding(t, s, writes)
        BY <3>1, <3>2, <3>4, <3>5, <3>6 DEF Adding
      <3> QED
        BY <1>1, <1>2, <1>5, <3>1, <3>2, <3>3, <3>7 DEF t, s
    <2> QED
      BY <2>1, <2>2
  <1> QED
    BY <1>4, <1>5

\* Every step keeps the types, and what commands work on.
LEMMA TypeNext ==
  ASSUME Sane, TypeInv, WorkInv, LockInv, [Next]_evars
  PROVE  TypeInv' /\ WorkInv' /\ LockInv'
  <1> DEFINE Goal == TypeInv' /\ WorkInv' /\ LockInv'
  <1>1. CASE UNCHANGED evars
    BY <1>1 DEF evars, TypeInv, WorkInv, LockInv
  <1>2. CASE Reload
    <2>1. UNCHANGED <<dir, lock, proc, adds>> /\ inv'.up \subseteq Places
      BY <1>2 DEF Reload, RuntimeTags, Places
    <2> QED
      BY <2>1 DEF TypeInv, WorkInv, LockInv
  <1>3. ASSUME NEW p \in Procs, Add(p) \/ Rm(p) \/ Disable(p) \/ Enable(p)
        PROVE  Goal
    <2>1. proc[p].step = "idle" /\ UNCHANGED <<dir, inv, lock, adds>>
      BY <1>3, Asks
    <2>2. PICK r \in Cmd : /\ proc' = [proc EXCEPT ![p] = r]
                           /\ r.tag \in Places /\ r.verb # "none"
                           /\ r.verb \in {"add", "rm"} => r.tag \in Tags /\ r.step = "lock"
                           /\ r.verb \in {"disable", "enable"} => r.step = "write"
                           /\ r.verb = "add" => r.source \in Sources
                           /\ r.verb \in {"disable", "enable"} => \A i \in DOMAIN r.writes : r.writes[i].file = "disabled"
      BY <1>3, Asks
    <2>3. proc \in [Procs -> Cmd] /\ proc' \in [Procs -> Cmd] /\ proc'[p] = r /\ \A q \in Procs \ {p} : proc'[q] = proc[q]
      BY <2>2 DEF TypeInv
    <2>4. lock # p
      BY <2>1 DEF LockInv
    <2>5. TypeInv'
      BY <2>1, <2>3 DEF TypeInv
    <2>6. WorkInv'
      <3>1. r.verb \in {"add", "rm", "disable", "enable"}
        BY <2>2 DEF Cmd
      <3> QED
        BY <2>2, <2>3, <3>1 DEF WorkInv
    <2>7. LockInv'
      BY <2>1, <2>2, <2>3, <2>4 DEF LockInv
    <2> QED
      BY <2>5, <2>6, <2>7
  <1>4. ASSUME NEW p \in Procs, Lock(p)
        PROVE  Goal
    <2>1. proc[p].step = "lock" /\ proc[p].verb \in {"add", "rm"}
      BY <1>4 DEF Lock, WorkInv
    <2>2. PICK writes \in Seq(Writes) : proc' = [proc EXCEPT ![p] = [proc[p] EXCEPT !.step = "write", !.writes = writes]]
      BY <1>4, <2>1, LockDoes
    <2>3. lock = None /\ lock' = p /\ UNCHANGED <<dir, inv, adds>>
      BY <1>4, <2>1, LockDoes
    <2> DEFINE r == [proc[p] EXCEPT !.step = "write", !.writes = writes]
    <2>4. r \in Cmd /\ r.step = "write" /\ r.verb = proc[p].verb /\ r.tag = proc[p].tag /\ r.source = proc[p].source
      BY <2>2, Turns
    <2>5. proc' = [proc EXCEPT ![p] = r]
      BY <2>2
    <2> HIDE DEF r
    <2>6. proc \in [Procs -> Cmd] /\ proc' \in [Procs -> Cmd] /\ proc'[p] = r /\ \A q \in Procs \ {p} : proc'[q] = proc[q]
      BY <2>4, <2>5 DEF TypeInv
    <2>7. TypeInv'
      BY <2>3, <2>6 DEF TypeInv
    <2>8. WorkInv'
      BY <2>1, <2>4, <2>6 DEF WorkInv
    <2>9. LockInv'
      BY <2>1, <2>3, <2>4, <2>6 DEF LockInv, Sane
    <2> QED
      BY <2>7, <2>8, <2>9
  <1>5. ASSUME NEW p \in Procs, Write(p)
        PROVE  Goal
    <2> DEFINE r == [proc[p] EXCEPT !.writes = Tail(proc[p].writes)]
    <2>1. /\ proc[p].writes \in Seq(Writes) /\ proc[p].writes # <<>> /\ proc[p].step = "write"
          /\ dir' \in [Places -> [Files -> Values]] /\ lock' = lock /\ inv' = inv
          /\ proc' = [proc EXCEPT ![p] = r] /\ r \in Cmd
      BY <1>5, WriteDoes
    <2>2. Tail(proc[p].writes) \in Seq(Writes)
      BY <2>1
    <2>3. r.step = proc[p].step /\ r.verb = proc[p].verb /\ r.tag = proc[p].tag /\ r.source = proc[p].source /\ r.writes = Tail(proc[p].writes)
      BY <2>2, Turns
    <2> HIDE DEF r
    <2>4. proc \in [Procs -> Cmd] /\ proc' \in [Procs -> Cmd] /\ proc'[p] = r /\ \A q \in Procs \ {p} : proc'[q] = proc[q]
      BY <2>1 DEF TypeInv
    <2>5. adds' \in [Tags -> Sources \union {None}]
      <3>1. CASE adds' = adds
        BY <3>1 DEF TypeInv
      <3>2. CASE adds' # adds
        <4>1. adds' = [adds EXCEPT ![proc[p].tag] = proc[p].source]
          BY <1>5, <3>2 DEF Write
        <4>2. proc[p].source \in Sources \union {None}
          BY <2>4 DEF Cmd
        <4> QED
          BY <4>1, <4>2 DEF TypeInv
      <3> QED
        BY <3>1, <3>2
    <2>6. TypeInv'
      BY <2>1, <2>4, <2>5 DEF TypeInv
    <2>7. WorkInv'
      BY <2>3, <2>4 DEF WorkInv
    <2>8. \A i \in DOMAIN Tail(proc[p].writes) : i + 1 \in DOMAIN proc[p].writes /\ Tail(proc[p].writes)[i] = proc[p].writes[i + 1]
      BY <2>1
    <2>9. LockInv'
      <3>1. \A q \in Procs : proc'[q].step = "write" /\ proc'[q].verb \in {"add", "rm"} <=> lock' = q
        BY <2>1, <2>3, <2>4 DEF LockInv
      <3>2. r.verb \in {"disable", "enable"} => \A i \in DOMAIN r.writes : r.writes[i].file = "disabled"
        BY <2>3, <2>8 DEF LockInv
      <3> QED
        BY <2>4, <3>1, <3>2 DEF LockInv
    <2> QED
      BY <2>6, <2>7, <2>9
  <1>6. ASSUME NEW p \in Procs, End(p) \/ Kill(p)
        PROVE  Goal
    <2>1. /\ proc' = [proc EXCEPT ![p] = Idle] /\ lock' = (IF lock = p THEN None ELSE lock) /\ UNCHANGED <<dir, inv, adds>>
      BY <1>6 DEF End, Kill, Leave
    <2>2. Idle \in Cmd /\ Idle.step = "idle" /\ Idle.verb = "none"
      BY Turns
    <2>3. proc \in [Procs -> Cmd] /\ proc' \in [Procs -> Cmd] /\ proc'[p] = Idle /\ \A q \in Procs \ {p} : proc'[q] = proc[q]
      BY <2>1, <2>2 DEF TypeInv
    <2>4. TypeInv'
      BY <2>1, <2>3 DEF TypeInv
    <2>5. WorkInv'
      BY <2>2, <2>3 DEF WorkInv
    <2>6. LockInv'
      BY <2>1, <2>2, <2>3 DEF LockInv, Sane
    <2> QED
      BY <2>4, <2>5, <2>6
  <1> QED
    BY <1>1, <1>2, <1>3, <1>4, <1>5, <1>6 DEF Next

-----------------------------------------------------------------------------
(* Who holds the lock                                                       *)

\* An addition goes on: one file more is there, or at last the entry, all else being there.
LEMMA AddingWrites ==
  ASSUME Sane, TypeInv, WorkInv, NEW p \in Procs, Write(p), proc[p].verb = "add",
         NEW t, NEW s, NEW w, t = proc[p].tag, s = proc[p].source, w = proc[p].writes,
         Adding(t, s, w)
  PROVE  \/ Head(w).file # "entry" /\ Adding(t, s, Tail(w))'
         \/ /\ Tail(w) = <<>> /\ Head(w) = W("entry", s.kind)
            /\ \E x \in Slots \union {None} : Written(t, AddFiles(s, x), Len(AddFiles(s, x))) /\ Own(t, s, x)
  <1>1. t \in Tags /\ t \in Places /\ s \in Sources
    BY DEF WorkInv, Write, Places
  <1>2. /\ Head(w) \in Writes
        /\ \A u \in Places, f \in Files : dir'[u][f] = IF u = t /\ f = Head(w).file THEN Head(w).value ELSE dir[u][f]
    <2>1. /\ Head(proc[p].writes) \in Writes
          /\ \A u \in Places, f \in Files :
               dir'[u][f] = IF u = proc[p].tag /\ f = Head(proc[p].writes).file THEN Head(proc[p].writes).value ELSE dir[u][f]
      BY WriteDoes
    <2> QED
      BY <2>1, Zenon
  <1>3. PICK x \in Slots \union {None}, n \in 1..5 :
          /\ n <= Len(AddFiles(s, x)) /\ w = SubSeq(AddFiles(s, x), n, Len(AddFiles(s, x)))
          /\ Written(t, AddFiles(s, x), n)
          /\ Own(t, s, x)
    BY DEF Adding
  <1> DEFINE F == AddFiles(s, x)
             L == Len(AddFiles(s, x))
  <1>4. F \in Seq(Writes) /\ L \in 1..5 /\ F[L] = W("entry", s.kind) /\ \A m, k \in 1..L : m # k => F[m].file # F[k].file
    BY <1>1, FilesOfAdd
  <1>5. L = Len(F) /\ n \in 1..Len(F)
    BY <1>3, <1>4
  <1> HIDE DEF F, L
  <1>6. Head(w) = F[n] /\ Tail(w) = SubSeq(F, n + 1, L)
    BY <1>3, <1>4, <1>5, Rest DEF F, L
  <1>7. CASE n = L
    <2>1. Tail(w) = <<>>
      BY <1>4, <1>5, <1>6, <1>7, Rest
    <2> QED
      BY <1>3, <1>4, <1>6, <1>7, <2>1 DEF F, L
  <1>8. CASE n # L
    <2>1. n \in 1..L-1 /\ n + 1 \in 1..5 /\ n + 1 <= L
      BY <1>4, <1>5, <1>8
    <2>2. Head(w).file # "entry"
      <3>1. n \in 1..L /\ L \in 1..L /\ n # L
        BY <1>4, <1>8, <2>1
      <3>2. F[n].file # F[L].file
        BY <1>4, <3>1
      <3> QED
        BY <1>4, <1>6, <3>2 DEF W
    <2>3. dir'[t].entry = None
      BY <1>1, <1>2, <2>2 DEF Adding, Files
    <2>4. Written(t, F, n + 1)'
      <3>1. ASSUME NEW m \in 1..n, F[m].file # "disabled"
            PROVE  dir'[t][F[m].file] = F[m].value
        <4>1. m \in 1..5 /\ n \in 1..5 /\ m \in DOMAIN F /\ m <= n /\ m \in 1..L /\ n \in 1..L
          BY <1>4, <1>5, <2>1
        <4>2. F[m] \in Writes
          BY <1>4, <4>1
        <4>3. F[m].file \in Files
          BY <4>2 DEF Writes
        <4>4. CASE m = n
          BY <1>1, <1>2, <1>6, <4>3, <4>4
        <4>5. CASE m # n
          <5>1. F[m].file # F[n].file
            BY <1>4, <4>1, <4>5
          <5>2. m \in 1..n-1
            BY <4>1, <4>5
          <5>3. dir[t][F[m].file] = F[m].value
            BY <1>3, <3>1, <5>2 DEF Written, F
          <5> QED
            BY <1>1, <1>2, <1>6, <4>3, <5>1, <5>3
        <4> QED
          BY <4>4, <4>5
      <3>2. (n + 1) - 1 = n
        BY <2>1
      <3> QED
        BY <3>1, <3>2 DEF Written
    <2>5. Own(t, s, x)'
      BY <1>1, <1>2, <1>3 DEF Own, Places, Files
    <2> QED
      BY <1>6, <2>1, <2>2, <2>3, <2>4, <2>5 DEF Adding, F, L
  <1> QED
    BY <1>7, <1>8

\* What a removal has still to do leaves no entry, once that is gone.
LEMMA RemovingWrites ==
  ASSUME TypeInv, WorkInv, NEW p \in Procs, Write(p), proc[p].verb = "rm", Removing(proc[p].tag, proc[p].writes)
  PROVE  /\ dir'[proc[p].tag].entry = None
         /\ \A i \in DOMAIN Tail(proc[p].writes) : Tail(proc[p].writes)[i].file # "entry"
  <1> DEFINE t == proc[p].tag
             w == proc[p].writes
  <1>1. /\ w \in Seq(Writes) /\ w # <<>> /\ t \in Places
        /\ \A f \in Files : dir'[t][f] = IF f = Head(w).file THEN Head(w).value ELSE dir[t][f]
    BY WriteDoes
  <1>2. CASE w = RmWrites(t)
    <2>1. Head(w).file = "entry" /\ Head(w).value = None
      BY <1>2, FilesOfRm DEF W
    <2> QED
      BY <1>1, <1>2, <2>1, FilesOfRm DEF Files
  <1>3. CASE dir[t].entry = None /\ \A i \in DOMAIN w : w[i].file # "entry"
    <2>1. Head(w) = w[1] /\ 1 \in DOMAIN w
      BY <1>1
    <2>2. Head(w).file # "entry"
      BY <1>3, <2>1
    <2>3. \A i \in DOMAIN Tail(w) : i + 1 \in DOMAIN w /\ Tail(w)[i] = w[i + 1]
      BY <1>1
    <2>4. \A i \in DOMAIN Tail(w) : Tail(w)[i].file # "entry"
      BY <1>3, <2>3
    <2>5. dir'[t].entry = dir[t].entry
      BY <1>1, <2>2 DEF Files
    <2> QED
      BY <1>3, <2>4, <2>5
  <1> QED
    BY <1>2, <1>3 DEF Removing

\* Whoever switches outbounds off and on does not disturb an addition,
LEMMA AddingStays ==
  ASSUME Sane, NEW t \in Tags, NEW s \in Sources, NEW w, Adding(t, s, w),
         \A u \in Places, f \in Files \ {"disabled"} : dir'[u][f] = dir[u][f]
  PROVE  Adding(t, s, w)'
  <1>1. PICK x \in Slots \union {None}, n \in 1..5 :
          /\ n <= Len(AddFiles(s, x)) /\ w = SubSeq(AddFiles(s, x), n, Len(AddFiles(s, x)))
          /\ Written(t, AddFiles(s, x), n)
          /\ Own(t, s, x)
    BY DEF Adding
  <1>2. t \in Places /\ Tags \subseteq Places
    BY DEF Places
  <1>3. dir'[t].entry = None
    BY <1>2 DEF Adding, Files
  <1>4. Own(t, s, x)'
    BY <1>1, <1>2 DEF Own, Files
  <1>5. ASSUME NEW m \in 1..n-1, AddFiles(s, x)[m].file # "disabled"
        PROVE  dir'[t][AddFiles(s, x)[m].file] = AddFiles(s, x)[m].value
    <2>1. AddFiles(s, x) \in Seq(Writes) /\ Len(AddFiles(s, x)) \in 1..5
      BY FilesOfAdd
    <2>2. m \in 1..Len(AddFiles(s, x))
      BY <1>1, <2>1
    <2>3. AddFiles(s, x)[m] \in Writes
      BY <2>1, <2>2
    <2>4. AddFiles(s, x)[m].file \in Files
      BY <2>3 DEF Writes
    <2>5. dir[t][AddFiles(s, x)[m].file] = AddFiles(s, x)[m].value
      BY <1>1, <1>5 DEF Written
    <2> QED
      BY <1>2, <1>5, <2>4, <2>5
  <1>6. Written(t, AddFiles(s, x), n)'
    BY <1>5 DEF Written
  <1> QED
    BY <1>1, <1>3, <1>4, <1>6 DEF Adding

\* nor a removal.
LEMMA HoldStays ==
  ASSUME Sane, WorkInv, NEW p \in Procs, Hold(p), proc'[p] = proc[p], proc[p].step # "idle",
         \A u \in Places, f \in Files \ {"disabled"} : dir'[u][f] = dir[u][f]
  PROVE  Hold(p)'
  <1>1. PICK t, s, w : t = proc[p].tag /\ s = proc[p].source /\ w = proc[p].writes
    OBVIOUS
  <1>2. CASE proc[p].verb = "add"
    <2>1. t \in Tags /\ s \in Sources
      BY <1>1, <1>2 DEF WorkInv
    <2>2. w = <<>> \/ Adding(t, s, w)
      BY <1>1, <1>2 DEF Hold
    <2>3. w = <<>> \/ Adding(t, s, w)'
      BY <2>1, <2>2, AddingStays
    <2> QED
      BY <1>1, <1>2, <2>3 DEF Hold
  <1>3. CASE proc[p].verb = "rm"
    <2>1. t \in Places /\ Removing(t, w)
      BY <1>1, <1>3 DEF Hold, WorkInv
    <2>2. Removing(t, w)'
      BY <2>1 DEF Removing, RmWrites, Files
    <2> QED
      BY <1>1, <1>3, <2>2 DEF Hold
  <1> QED
    BY <1>2, <1>3 DEF Hold

\* Who has the lock goes on with what it laid out, whoever else switches the outbound off or on.
LEMMA HoldNext == ASSUME Sane, TypeInv, WorkInv, LockInv, HoldInv, [Next]_evars PROVE HoldInv'
  <1> USE DEF HoldInv
  <1>1. \A q \in Procs : lock = q => proc[q].step # "idle"
    BY DEF LockInv
  <1>2. CASE UNCHANGED evars \/ Reload
    <2>1. UNCHANGED <<dir, lock, proc>>
      BY <1>2 DEF evars, Reload
    <2> QED
      BY <1>1, <2>1, HoldStays
  <1>3. ASSUME NEW p \in Procs, Add(p) \/ Rm(p) \/ Disable(p) \/ Enable(p)
        PROVE  HoldInv'
    <2>1. proc[p].step = "idle" /\ UNCHANGED <<dir, inv, lock, adds>>
      BY <1>3, Asks
    <2>2. \A q \in Procs \ {p} : proc'[q] = proc[q]
      BY <1>3, Asks DEF TypeInv
    <2>3. lock # p
      BY <2>1 DEF LockInv
    <2> QED
      BY <1>1, <2>1, <2>2, <2>3, HoldStays
  <1>4. ASSUME NEW p \in Procs, Lock(p)
        PROVE  HoldInv'
    <2>1. proc[p].step = "lock" /\ proc[p].verb \in {"add", "rm"}
      BY <1>4 DEF Lock, WorkInv
    <2>2. PICK writes \in Seq(Writes) :
              /\ proc' = [proc EXCEPT ![p] = [proc[p] EXCEPT !.step = "write", !.writes = writes]]
              /\ proc[p].verb = "rm" => Removing(proc[p].tag, writes)
              /\ proc[p].verb = "add" => writes = <<>> \/ Adding(proc[p].tag, proc[p].source, writes)
      BY <1>4, <2>1, LockDoes
    <2>3. lock' = p /\ UNCHANGED dir
      BY <1>4, <2>1, LockDoes
    <2>4. /\ proc'[p].writes = writes /\ proc'[p].verb = proc[p].verb /\ proc'[p].tag = proc[p].tag /\ proc'[p].source = proc[p].source
      <3> DEFINE r == [proc[p] EXCEPT !.step = "write", !.writes = writes]
      <3>1. r.writes = writes /\ r.verb = proc[p].verb /\ r.tag = proc[p].tag /\ r.source = proc[p].source
        BY <2>2, Turns
      <3>2. proc' = [proc EXCEPT ![p] = r]
        BY <2>2
      <3> HIDE DEF r
      <3> QED
        BY <3>1, <3>2 DEF TypeInv
    <2>5. PICK t, s : t = proc[p].tag /\ s = proc[p].source
      OBVIOUS
    <2>6. (Removing(t, writes) => Removing(t, writes)') /\ (Adding(t, s, writes) => Adding(t, s, writes)')
      BY <2>3 DEF Adding, Removing, Written, Own
    <2>7. Hold(p)'
      BY <2>1, <2>2, <2>4, <2>5, <2>6 DEF Hold
    <2> QED
      BY <2>3, <2>7
  <1>5. ASSUME NEW p \in Procs, Write(p)
        PROVE  HoldInv'
    <2>1. PICK t, s, w : t = proc[p].tag /\ s = proc[p].source /\ w = proc[p].writes
      OBVIOUS
    <2>2. /\ w \in Seq(Writes) /\ w # <<>> /\ proc[p].step = "write" /\ t \in Places /\ Head(w) \in Writes /\ lock' = lock
          /\ proc' = [proc EXCEPT ![p] = [proc[p] EXCEPT !.writes = Tail(w)]]
      BY <1>5, <2>1, WriteDoes
    <2>3. \A u \in Places, f \in Files : dir'[u][f] = IF u = t /\ f = Head(w).file THEN Head(w).value ELSE dir[u][f]
      <3>1. \A u \in Places, f \in Files :
              dir'[u][f] = IF u = proc[p].tag /\ f = Head(proc[p].writes).file THEN Head(proc[p].writes).value ELSE dir[u][f]
        BY <1>5, WriteDoes
      <3> QED
        BY <2>1, <3>1, Zenon
    <2>4. /\ proc'[p].writes = Tail(w) /\ proc'[p].verb = proc[p].verb /\ proc'[p].tag = t /\ proc'[p].source = s
          /\ \A q \in Procs \ {p} : proc'[q] = proc[q]
      <3> DEFINE r == [proc[p] EXCEPT !.writes = Tail(w)]
      <3>1. Tail(w) \in Seq(Writes)
        BY <2>2
      <3>2. r.writes = Tail(w) /\ r.verb = proc[p].verb /\ r.tag = t /\ r.source = s
        BY <2>1, <3>1, Turns
      <3>3. proc' = [proc EXCEPT ![p] = r]
        BY <2>2
      <3> HIDE DEF r
      <3> QED
        BY <3>2, <3>3 DEF TypeInv
    <2>5. CASE lock = p
      <3>1. CASE proc[p].verb = "rm"
        <4>1. Removing(proc[p].tag, proc[p].writes)
          BY <2>5, <3>1 DEF Hold
        <4>2. /\ dir'[proc[p].tag].entry = None
              /\ \A i \in DOMAIN Tail(proc[p].writes) : Tail(proc[p].writes)[i].file # "entry"
          BY <1>5, <3>1, <4>1, RemovingWrites
        <4>3. dir'[t].entry = None /\ \A i \in DOMAIN Tail(w) : Tail(w)[i].file # "entry"
          BY <2>1, <4>2, Zenon
        <4>4. Removing(t, Tail(w))'
          BY <4>3 DEF Removing
        <4>5. Hold(p)'
          BY <2>4, <3>1, <4>4 DEF Hold
        <4> QED
          BY <2>2, <2>5, <4>5
      <3>2. CASE proc[p].verb = "add" /\ w # <<>>
        <4>1. Adding(t, s, w)
          BY <2>1, <2>5, <3>2 DEF Hold
        <4>2. Tail(w) = <<>> \/ Adding(t, s, Tail(w))'
          BY <1>5, <2>1, <3>2, <4>1, AddingWrites
        <4>3. Hold(p)'
          BY <2>4, <3>2, <4>2 DEF Hold
        <4> QED
          BY <2>2, <2>5, <4>3
      <3> QED
        BY <2>2, <2>5, <3>1, <3>2 DEF LockInv
    <2>6. CASE lock # p
      <3>1. proc[p].verb \in {"disable", "enable"}
        <4>1. proc[p].verb \in {"none", "add", "rm", "disable", "enable"}
          BY DEF TypeInv, Cmd
        <4> QED
          BY <2>2, <2>6, <4>1 DEF LockInv, WorkInv
      <3>2. Head(w) = w[1] /\ 1 \in DOMAIN w
        BY <2>2
      <3>3. Head(w).file = "disabled"
        BY <2>1, <3>1, <3>2 DEF LockInv
      <3>4. \A u \in Places, f \in Files \ {"disabled"} : dir'[u][f] = dir[u][f]
        BY <2>3, <3>3
      <3>5. ASSUME NEW q \in Procs, lock' = q
            PROVE  Hold(q)'
        <4>1. lock = q /\ q # p /\ Hold(q) /\ proc'[q] = proc[q] /\ proc[q].step # "idle"
          BY <1>1, <2>2, <2>4, <2>6, <3>5
        <4> QED
          BY <3>4, <4>1, HoldStays
      <3> QED
        BY <3>5
    <2> QED
      BY <2>5, <2>6
  <1>6. ASSUME NEW p \in Procs, End(p) \/ Kill(p)
        PROVE  HoldInv'
    <2>1. /\ proc' = [proc EXCEPT ![p] = Idle] /\ lock' = (IF lock = p THEN None ELSE lock) /\ UNCHANGED dir
      BY <1>6 DEF End, Kill, Leave
    <2>2. \A q \in Procs : lock' = q => lock = q /\ proc'[q] = proc[q]
      BY <2>1 DEF TypeInv, Sane
    <2> QED
      BY <1>1, <2>1, <2>2, HoldStays
  <1> QED
    BY <1>2, <1>3, <1>4, <1>5, <1>6 DEF Next

-----------------------------------------------------------------------------
(* The entries                                                              *)

\* What an entry comes to is there before it.
LEMMA ComesWhole ==
  ASSUME Sane, NEW t \in Tags, NEW s \in Sources, NEW x \in Slots \union {None},
         Written(t, AddFiles(s, x), Len(AddFiles(s, x))), Own(t, s, x)
  PROVE  /\ s.kind = "port" => dir[t].port = x /\ x # None /\ dir[t].iface = None /\ dir[t].hop = None
         /\ s.kind = "iface" => dir[t].iface = x /\ x # None /\ dir[t].port = None /\ dir[t].hop = None
         /\ s.kind \notin {"port", "iface"} => dir[t].hop = s.hop /\ dir[t].tweaks = s.tweaks
  <1>1. \A f \in Files : \A v : W(f, v).file = f /\ W(f, v).value = v
    BY DEF W
  <1>2. CASE s.kind = "port"
    <2>1. /\ AddFiles(s, x)[1] = W("hop", None) /\ AddFiles(s, x)[3] = W("iface", None) /\ AddFiles(s, x)[4] = W("port", x)
          /\ 1 \in 1..Len(AddFiles(s, x))-1 /\ 3 \in 1..Len(AddFiles(s, x))-1 /\ 4 \in 1..Len(AddFiles(s, x))-1
      BY <1>2 DEF AddFiles
    <2>2. dir[t]["hop"] = None /\ dir[t]["iface"] = None /\ dir[t]["port"] = x
      BY <1>1, <2>1 DEF Written, Files
    <2> QED
      BY <1>2, <2>2 DEF Own, Sane
  <1>3. CASE s.kind = "iface"
    <2>1. /\ AddFiles(s, x)[1] = W("hop", None) /\ AddFiles(s, x)[3] = W("port", None) /\ AddFiles(s, x)[4] = W("iface", x)
          /\ 1 \in 1..Len(AddFiles(s, x))-1 /\ 3 \in 1..Len(AddFiles(s, x))-1 /\ 4 \in 1..Len(AddFiles(s, x))-1
      BY <1>3 DEF AddFiles
    <2>2. dir[t]["hop"] = None /\ dir[t]["port"] = None /\ dir[t]["iface"] = x
      BY <1>1, <2>1 DEF Written, Files
    <2> QED
      BY <1>3, <2>2 DEF Own, Sane
  <1>4. CASE s.kind \notin {"port", "iface"}
    <2>1. /\ AddFiles(s, x)[1] = W("hop", s.hop) /\ AddFiles(s, x)[2] = W("tweaks", s.tweaks)
          /\ 1 \in 1..Len(AddFiles(s, x))-1 /\ 2 \in 1..Len(AddFiles(s, x))-1
      BY <1>4 DEF AddFiles
    <2>2. dir[t]["hop"] = s.hop /\ dir[t]["tweaks"] = s.tweaks
      BY <1>1, <2>1 DEF Written, Files
    <2> QED
      BY <1>4, <2>2
  <1> QED
    BY <1>2, <1>3, <1>4

\* A write is to one tag alone: the others stay whole, and apart from one another.
LEMMA OthersWhole ==
  ASSUME EntriesWhole, NEW t \in Tags,
         \A u \in Tags \ {t} : adds'[u] = adds[u] /\ \A f \in Files \ {"disabled"} : dir'[u][f] = dir[u][f],
         dir'[t].entry # None => Whole(t)' /\ \A u \in RuntimeTags \ {t} : Apart(t, u)' /\ Apart(u, t)'
  PROVE  EntriesWhole'
  <1>1. \A u \in Tags \ {t} : /\ adds'[u] = adds[u] /\ dir'[u].entry = dir[u].entry /\ dir'[u].hop = dir[u].hop
                              /\ dir'[u].tweaks = dir[u].tweaks /\ dir'[u].port = dir[u].port /\ dir'[u].iface = dir[u].iface
    BY DEF Files
  <1>2. \A u \in RuntimeTags' \ {t} : u \in RuntimeTags \ {t}
    BY <1>1 DEF RuntimeTags
  <1>3. ASSUME NEW u \in RuntimeTags' PROVE Whole(u)'
    <2>1. CASE u = t
      BY <2>1 DEF RuntimeTags
    <2>2. CASE u # t
      <3>1. Whole(u) /\ u \in Tags \ {t}
        BY <1>2, <2>2 DEF EntriesWhole, RuntimeTags
      <3> QED
        BY <1>1, <3>1 DEF Whole
    <2> QED
      BY <2>1, <2>2
  <1>4. ASSUME NEW u \in RuntimeTags', NEW v \in RuntimeTags', u # v PROVE Apart(u, v)'
    <2>1. CASE u # t /\ v # t
      <3>1. Apart(u, v) /\ u \in Tags \ {t} /\ v \in Tags \ {t}
        BY <1>2, <1>4, <2>1 DEF EntriesWhole, RuntimeTags
      <3> QED
        BY <1>1, <3>1 DEF Apart
    <2>2. CASE u = t \/ v = t
      <3>1. dir'[t].entry # None
        BY <2>2 DEF RuntimeTags
      <3> QED
        BY <1>2, <1>4, <2>2, <3>1
    <2> QED
      BY <2>1, <2>2
  <1> QED
    BY <1>3, <1>4 DEF EntriesWhole

\* Every entry the backend could find is whole, after each file that is written or removed.
LEMMA WholeNext == ASSUME Sane, TypeInv, WorkInv, LockInv, HoldInv, EntriesWhole, [Next]_evars PROVE EntriesWhole'
  <1>1. CASE UNCHANGED <<dir, adds>>
    BY <1>1 DEF EntriesWhole, RuntimeTags, Whole, Apart
  <1>2. ASSUME NEW p \in Procs, Write(p)
        PROVE  EntriesWhole'
    <2>1. PICK t, s, w : t = proc[p].tag /\ s = proc[p].source /\ w = proc[p].writes
      OBVIOUS
    <2>2. w \in Seq(Writes) /\ w # <<>> /\ proc[p].step = "write" /\ t \in Places /\ Head(w) \in Writes
      BY <1>2, <2>1, WriteDoes
    <2>3. \A u \in Places, f \in Files : dir'[u][f] = IF u = t /\ f = Head(w).file THEN Head(w).value ELSE dir[u][f]
      <3>1. \A u \in Places, f \in Files :
              dir'[u][f] = IF u = proc[p].tag /\ f = Head(proc[p].writes).file THEN Head(proc[p].writes).value ELSE dir[u][f]
        BY <1>2, WriteDoes
      <3> QED
        BY <2>1, <3>1, Zenon
    <2>4. adds' = IF Head(w).file = "entry" /\ Head(w).value # None THEN [adds EXCEPT ![t] = s] ELSE adds
      BY <1>2, <2>1 DEF Write
    <2>5. Tags \subseteq Places
      BY DEF Places
    <2>6. CASE lock # p
      <3>1. proc[p].verb \in {"disable", "enable"}
        <4>1. proc[p].verb \in {"none", "add", "rm", "disable", "enable"}
          BY DEF TypeInv, Cmd
        <4> QED
          BY <2>2, <2>6, <4>1 DEF LockInv, WorkInv
      <3>2. Head(w) = w[1] /\ 1 \in DOMAIN w
        BY <2>2
      <3>3. Head(w).file = "disabled"
        BY <2>1, <3>1, <3>2 DEF LockInv
      <3>4. adds' = adds
        BY <2>4, <3>3
      <3>5. \A u \in Tags : /\ dir'[u].entry = dir[u].entry /\ dir'[u].hop = dir[u].hop
                            /\ dir'[u].tweaks = dir[u].tweaks /\ dir'[u].port = dir[u].port /\ dir'[u].iface = dir[u].iface
        BY <2>3, <2>5, <3>3 DEF Files
      <3> QED
        BY <3>4, <3>5 DEF EntriesWhole, RuntimeTags, Whole, Apart
    <2>7. CASE lock = p
      <3>1. proc[p].verb \in {"add", "rm"} /\ Hold(p) /\ t \in Tags
        BY <2>1, <2>2, <2>7 DEF LockInv, HoldInv, WorkInv
      <3>2. \A u \in Tags \ {t} : adds'[u] = adds[u] /\ \A f \in Files \ {"disabled"} : dir'[u][f] = dir[u][f]
        BY <2>3, <2>4, <2>5 DEF TypeInv
      <3>3. CASE proc[p].verb = "rm"
        <4>1. dir'[proc[p].tag].entry = None
          BY <1>2, <3>1, <3>3, RemovingWrites DEF Hold
        <4>2. dir'[t].entry = None
          BY <2>1, <4>1, Zenon
        <4> QED
          BY <3>1, <3>2, <4>2, OthersWhole
      <3>4. CASE proc[p].verb = "add"
        <4>1. s \in Sources
          BY <2>1, <2>2, <3>4 DEF WorkInv
        <4>2. Adding(t, s, w)
          BY <2>1, <2>2, <3>1, <3>4 DEF Hold
        <4>3. \/ Head(w).file # "entry" /\ Adding(t, s, Tail(w))'
              \/ /\ Tail(w) = <<>> /\ Head(w) = W("entry", s.kind)
                 /\ \E x \in Slots \union {None} : Written(t, AddFiles(s, x), Len(AddFiles(s, x))) /\ Own(t, s, x)
          BY <1>2, <2>1, <3>4, <4>2, AddingWrites
        <4>4. CASE Adding(t, s, Tail(w))'
          <5>1. dir'[t].entry = None
            BY <4>4 DEF Adding
          <5> QED
            BY <3>1, <3>2, <5>1, OthersWhole
        <4>5. CASE /\ Head(w) = W("entry", s.kind)
                   /\ \E x \in Slots \union {None} : Written(t, AddFiles(s, x), Len(AddFiles(s, x))) /\ Own(t, s, x)
          <5>1. PICK x \in Slots \union {None} : Written(t, AddFiles(s, x), Len(AddFiles(s, x))) /\ Own(t, s, x)
            BY <4>5
          <5>2. Head(w).file = "entry" /\ Head(w).value = s.kind /\ s.kind # None
            BY <4>1, <4>5 DEF W, Sane
          <5>3. adds'[t] = s
            BY <2>4, <3>1, <5>2 DEF TypeInv
          <5>4. /\ dir'[t].entry = s.kind /\ dir'[t].hop = dir[t].hop /\ dir'[t].tweaks = dir[t].tweaks
                /\ dir'[t].port = dir[t].port /\ dir'[t].iface = dir[t].iface
            BY <2>3, <2>5, <3>1, <5>2 DEF Files
          <5>5. /\ s.kind = "port" => dir[t].port = x /\ x # None /\ dir[t].iface = None /\ dir[t].hop = None
                /\ s.kind = "iface" => dir[t].iface = x /\ x # None /\ dir[t].port = None /\ dir[t].hop = None
                /\ s.kind \notin {"port", "iface"} => dir[t].hop = s.hop /\ dir[t].tweaks = s.tweaks
            BY <3>1, <4>1, <5>1, ComesWhole
          <5>6. Whole(t)'
            BY <5>3, <5>4, <5>5 DEF Whole
          <5>7. ASSUME NEW u \in RuntimeTags \ {t} PROVE Apart(t, u)' /\ Apart(u, t)'
            <6>1. u \in Tags \ {t} /\ dir'[u].port = dir[u].port /\ dir'[u].iface = dir[u].iface
              BY <3>2 DEF RuntimeTags, Files
            <6> QED
              BY <5>1, <5>4, <5>5, <6>1 DEF Apart, Own
          <5> QED
            BY <3>1, <3>2, <5>6, <5>7, OthersWhole
        <4> QED
          BY <4>3, <4>4, <4>5
      <3> QED
        BY <3>1, <3>3, <3>4
    <2> QED
      BY <2>6, <2>7
  <1>3. CASE Reload
    BY <1>1, <1>3 DEF Reload
  <1>4. ASSUME NEW p \in Procs, Add(p) \/ Rm(p) \/ Disable(p) \/ Enable(p)
        PROVE  EntriesWhole'
    BY <1>1, <1>4, Asks
  <1>5. ASSUME NEW p \in Procs, Lock(p) \/ End(p) \/ Kill(p)
        PROVE  EntriesWhole'
    BY <1>1, <1>5 DEF Lock, End, Kill
  <1> QED
    BY <1>1, <1>2, <1>3, <1>4, <1>5 DEF Next, evars

\* However commands cross, are refused or killed between two files: an outbound in the spool is as its
\* `add` said, and no two have one port or one slot (_runtime_entry_add, _awg_free_port).
THEOREM WholeKept == ASSUME Sane PROVE Spec => []EntriesWhole
  <1>1. Init => EntriesInv
    <2>1. Init => TypeInv
      <3>1. Nowhere \in [Files -> Values]
        <4>1. None \in Values
          BY DEF Values
        <4> QED
          BY <4>1 DEF Nowhere, Files
      <3>2. Idle \in Cmd
        BY DEF Idle, Cmd
      <3> QED
        BY <3>1, <3>2 DEF Init, TypeInv, Places
    <2>2. Init => \A p \in Procs : proc[p].step = "idle" /\ proc[p].verb = "none"
      BY DEF Init, Idle
    <2>3. Init => \A t \in Tags : dir[t].entry = None
      BY DEF Init, Nowhere
    <2>4. Init => WorkInv /\ LockInv /\ HoldInv
      BY <2>2 DEF Init, WorkInv, LockInv, HoldInv, Sane
    <2>5. Init => EntriesWhole
      BY <2>3 DEF EntriesWhole, RuntimeTags
    <2> QED
      BY <2>1, <2>4, <2>5 DEF EntriesInv
  <1>2. EntriesInv /\ [Next]_evars => EntriesInv'
    BY TypeNext, HoldNext, WholeNext DEF EntriesInv
  <1>3. EntriesInv => EntriesWhole
    BY DEF EntriesInv
  <1> QED
    BY <1>1, <1>2, <1>3, PTL DEF Spec
=============================================================================
