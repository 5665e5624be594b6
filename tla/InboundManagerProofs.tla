------------------------ MODULE InboundManagerProofs ------------------------
(***************************************************************************)
(* Proofs about InboundManager, for any users, scenario and number of      *)
(* slots, requests and faults.                                             *)
(***************************************************************************)
EXTENDS InboundManager, TLAPS
LOCAL INSTANCE FiniteSetsExt
LOCAL INSTANCE SequencesExt
LOCAL INSTANCE Folds
LOCAL INSTANCE Functions
W == INSTANCE WellFoundedInduction
F == INSTANCE FiniteSetTheorems

-----------------------------------------------------------------------------
(* Natural numbers, and folds over the names                                *)

\* Part of a finite set is finite, and no larger.
LEMMA PartIsFinite ==
  ASSUME NEW S, IsFiniteSet(S), NEW T \in SUBSET S
  PROVE  IsFiniteSet(T) /\ Cardinality(S) \in Nat /\ Cardinality(T) \in Nat /\ Cardinality(T) <= Cardinality(S)
  <1>1. F!IsFiniteSet(S) /\ \A X : F!IsFiniteSet(X) => IsFiniteSet(X)
    BY DEF IsFiniteSet, F!IsFiniteSet
  <1>2. \A X : F!Cardinality(X) = Cardinality(X)
    BY DEF Cardinality, F!Cardinality
  <1> QED
    BY <1>1, <1>2, F!FS_Subset, F!FS_CardinalityType

\* A finite set with one more element is finite.
LEMMA OneMoreIsFinite == ASSUME NEW S, IsFiniteSet(S), NEW x PROVE IsFiniteSet(S \union {x})
  <1>1. F!IsFiniteSet(S) /\ \A X : F!IsFiniteSet(X) => IsFiniteSet(X)
    BY DEF IsFiniteSet, F!IsFiniteSet
  <1> QED
    BY <1>1, F!FS_AddElement

\* A function has no more values than arguments.
LEMMA ImageIsFinite ==
  ASSUME NEW f, IsFiniteSet(DOMAIN f), NEW T \in SUBSET DOMAIN f
  PROVE  Cardinality({f[x] : x \in T}) \in Nat /\ Cardinality({f[x] : x \in T}) <= Cardinality(DOMAIN f)
  <1> DEFINE I == {f[x] : x \in T}
             g == [x \in T |-> f[x]]
  <1>1. IsFiniteSet(T) /\ Cardinality(T) <= Cardinality(DOMAIN f) /\ Cardinality(DOMAIN f) \in Nat /\ Cardinality(T) \in Nat
    BY PartIsFinite
  <1>2. F!IsFiniteSet(T)
    BY <1>1 DEF IsFiniteSet, F!IsFiniteSet
  <1>3. g \in F!Surjection(T, I)
    BY DEF F!Surjection
  <1> HIDE DEF g, I
  <1>4. F!IsFiniteSet(I) /\ F!Cardinality(I) <= F!Cardinality(T)
    BY <1>2, <1>3, F!FS_Surjection
  <1>5. F!Cardinality(I) \in Nat
    BY <1>4, F!FS_CardinalityType
  <1>6. F!Cardinality(I) = Cardinality(I) /\ F!Cardinality(T) = Cardinality(T)
    BY DEF Cardinality, F!Cardinality
  <1>7. Cardinality(I) \in Nat /\ Cardinality(I) <= Cardinality(DOMAIN f)
    BY <1>1, <1>4, <1>5, <1>6
  <1> QED
    BY <1>7 DEF I

\* < is well-founded, as a set of pairs.
LEMMA LessIsWellFounded == W!IsWellFoundedOn({p \in Nat \X Nat : p[1] < p[2]}, Nat)
  BY ZenonT(60), W!NatLessThanWellFounded DEF W!OpToRel

\* A set of natural numbers that is not empty has a least one.
LEMMA Least == ASSUME NEW S, S \subseteq Nat, S # {} PROVE \E x \in S : \A y \in S : x <= y
  <1> DEFINE R == {p \in Nat \X Nat : p[1] < p[2]}
  <1>1. W!IsWellFoundedOn(R, Nat)
    BY LessIsWellFounded
  <1>2. \A x, y \in Nat : <<x, y>> \in R <=> x < y
    OBVIOUS
  <1> HIDE DEF R
  <1>3. \E x \in S : \A y \in S : ~ (<<y, x>> \in R)
    BY <1>1, W!WFMin
  <1>4. \A x, y \in S : ~ (<<y, x>> \in R) => x <= y
    BY <1>2
  <1> QED
    BY <1>3, <1>4

\* Min is that one.
LEMMA MinIn == ASSUME NEW S, S \subseteq Nat, S # {} PROVE Min(S) \in S /\ \A y \in S : Min(S) <= y
  BY Least DEF Min

\* Induction, on the set of the numbers that have what is to be shown.
LEMMA FromZero ==
  ASSUME NEW T, T \subseteq Nat, 0 \in T, \A k \in T : k + 1 \in T
  PROVE  T = Nat
  <1> SUFFICES ASSUME Nat \ T # {} PROVE FALSE
    OBVIOUS
  <1>1. PICK x \in Nat \ T : \A y \in Nat \ T : x <= y
    BY Least, Nat \ T \subseteq Nat
  <1>2. x # 0 /\ x - 1 \in Nat
    BY <1>1
  <1>3. x - 1 \in T
    BY <1>1, <1>2
  <1> QED
    BY <1>1, <1>3

\* Max of some numbers up to k is the greatest of them.
LEMMA MaxUpTo ==
  ASSUME NEW k \in Nat, NEW s \in SUBSET (0..k), s # {}
  PROVE  Max(s) \in s /\ \A y \in s : Max(s) >= y
  <1> DEFINE Bounds == {m \in Nat : \A y \in s : y <= m}
  <1>1. k \in Bounds
    OBVIOUS
  <1>2. PICK m \in Bounds : \A b \in Bounds : m <= b
    BY <1>1, Least, Bounds \subseteq Nat
  <1>3. m \in s
    <2> SUFFICES ASSUME m \notin s PROVE FALSE
      OBVIOUS
    <2>1. \A y \in s : y \in Nat /\ y <= m /\ y # m
      OBVIOUS
    <2>2. m # 0 /\ m - 1 \in Nat
      <3>1. PICK y \in s : TRUE
        OBVIOUS
      <3> QED
        BY <2>1, <3>1
    <2>3. m - 1 \in Bounds
      BY <2>1, <2>2
    <2> QED
      BY <1>2, <2>3
  <1> QED
    BY <1>2, <1>3 DEF Max

\* So is it of some from 1 on.
LEMMA MaxIn ==
  ASSUME NEW k \in Nat, NEW s \in SUBSET (1..k), s # {}
  PROVE  Max(s) \in s /\ \A y \in s : Max(s) >= y
  <1>1. s \in SUBSET (0..k)
    OBVIOUS
  <1> QED
    BY <1>1, MaxUpTo

\* What Assign folds: f has, for each set of positions, the slots after those names' turns.
Folds(f, n, slots, needy, others) ==
  f = [s \in SUBSET (1..n) |-> IF s = {} THEN slots
                               ELSE Turn(f[s \ {Max(s)}], NameOrder[Max(s)], needy, others)]

\* The function by which FoldLeft is defined exists, for any number of names.
LEMMA FoldExists ==
  ASSUME NEW slots, NEW needy, NEW others, NEW n \in Nat
  PROVE  \E f : Folds(f, n, slots, needy, others)
  <1> DEFINE T == {k \in Nat : \E f : Folds(f, k, slots, needy, others)}
  <1>1. 0 \in T
    <2> DEFINE f == [s \in SUBSET (1..0) |-> slots]
    <2>1. \A s \in SUBSET (1..0) : s = {}
      OBVIOUS
    <2>2. f = [s \in SUBSET (1..0) |-> IF s = {} THEN slots
                               ELSE Turn(f[s \ {Max(s)}], NameOrder[Max(s)], needy, others)]
      BY <2>1
    <2> QED
      BY <2>2 DEF Folds
  <1>2. ASSUME NEW k \in T PROVE k + 1 \in T
    <2>1. PICK f : Folds(f, k, slots, needy, others)
      OBVIOUS
    <2> DEFINE g == [s \in SUBSET (1..k + 1) |->
                       IF k + 1 \in s THEN Turn(f[s \ {k + 1}], NameOrder[k + 1], needy, others) ELSE f[s]]
               h == [s \in SUBSET (1..k + 1) |-> IF s = {} THEN slots
                               ELSE Turn(g[s \ {Max(s)}], NameOrder[Max(s)], needy, others)]
    <2>2. ASSUME NEW s \in SUBSET (1..k + 1) PROVE g[s] = h[s]
      <3>1. CASE k + 1 \in s
        <4>1. Max(s) = k + 1
          <5>1. Max(s) \in s /\ \A y \in s : Max(s) >= y
            BY <3>1, MaxIn, k + 1 \in Nat
          <5>2. Max(s) \in 1..k + 1 /\ Max(s) >= k + 1
            BY <3>1, <5>1
          <5> QED
            BY <5>2
        <4>2. s \ {k + 1} \in SUBSET (1..k) /\ s \ {k + 1} \in SUBSET (1..k + 1) /\ k + 1 \notin s \ {k + 1}
          OBVIOUS
        <4>3. g[s \ {k + 1}] = f[s \ {k + 1}]
          BY <4>2
        <4> QED
          BY <3>1, <4>1, <4>3
      <3>2. CASE k + 1 \notin s /\ s # {}
        <4>1. s \in SUBSET (1..k)
          BY <3>2
        <4>2. s \ {Max(s)} \in SUBSET (1..k + 1) /\ k + 1 \notin s \ {Max(s)}
          BY <3>2
        <4>3. g[s \ {Max(s)}] = f[s \ {Max(s)}]
          BY <4>2
        <4>4. f[s] = Turn(f[s \ {Max(s)}], NameOrder[Max(s)], needy, others)
          BY <2>1, <3>2, <4>1 DEF Folds
        <4> QED
          BY <3>2, <4>3, <4>4
      <3>3. CASE s = {}
        <4>1. s \in SUBSET (1..k) /\ k + 1 \notin s
          BY <3>3
        <4>2. f[s] = slots
          BY <2>1, <3>3, <4>1 DEF Folds
        <4> QED
          BY <3>3, <4>1, <4>2
      <3> QED
        BY <3>1, <3>2, <3>3
    <2>3. g = h
      <3> HIDE DEF g, h
      <3> SUFFICES /\ g = [s \in SUBSET (1..k + 1) |-> g[s]]
                   /\ h = [s \in SUBSET (1..k + 1) |-> h[s]]
        BY <2>2
      <3> QED
        BY DEF g, h
    <2>4. g = [s \in SUBSET (1..k + 1) |-> IF s = {} THEN slots
                               ELSE Turn(g[s \ {Max(s)}], NameOrder[Max(s)], needy, others)]
      BY <2>3
    <2> HIDE DEF g
    <2>5. Folds(g, k + 1, slots, needy, others)
      BY <2>4 DEF Folds
    <2> QED
      BY <2>5
  <1> QED
    BY <1>1, <1>2, FromZero, T \subseteq Nat

-----------------------------------------------------------------------------
(* Slots                                                                    *)

Apart(slots) == \A m, n \in Names : m # n /\ slots[m] # 0 => slots[m] # slots[n]

\* Slots of which no two users have the same.
Good == {slots \in [Names -> Nat] : Apart(slots)}

\* Allocating gives a slot that no other user has, or none.
LEMMA AllocateKeeps ==
  ASSUME NEW slots \in Good, NEW n \in Names, conf.slots \in Nat
  PROVE  AllocateSlot(slots, n) \in Good
  <1>1. CASE HasSlot(slots, n)
    BY <1>1 DEF AllocateSlot
  <1>2. CASE ~HasSlot(slots, n) /\ FreeSlots(slots, n) = {}
    <2>1. AllocateSlot(slots, n) = [slots EXCEPT ![n] = 0]
      BY <1>2 DEF AllocateSlot
    <2> QED
      BY <2>1 DEF Good, Apart
  <1>3. CASE ~HasSlot(slots, n) /\ FreeSlots(slots, n) # {}
    <2> DEFINE free == Min(FreeSlots(slots, n))
    <2>1. AllocateSlot(slots, n) = [slots EXCEPT ![n] = free]
      BY <1>3 DEF AllocateSlot
    <2>2. FreeSlots(slots, n) \subseteq Nat
      BY DEF FreeSlots
    <2>3. free \in FreeSlots(slots, n)
      BY <1>3, <2>2, MinIn
    <2>4. free \in Nat /\ \A m \in Names \ {n} : slots[m] # free
      BY <2>2, <2>3 DEF FreeSlots
    <2> HIDE DEF free
    <2> QED
      BY <2>1, <2>4 DEF Good, Apart
  <1> QED
    BY <1>1, <1>2, <1>3

\* Taking a slot away leaves the others apart.
LEMMA WithoutKeeps ==
  ASSUME NEW slots \in Good, NEW n \in Names
  PROVE  [slots EXCEPT ![n] = 0] \in Good
  BY DEF Good, Apart

\* One user's turn keeps the slots apart.
LEMMA TurnKeeps ==
  ASSUME NEW slots \in Good, NEW n \in Names, NEW needy, NEW others, conf.slots \in Nat
  PROVE  Turn(slots, n, needy, others) \in Good
  BY AllocateKeeps, WithoutKeeps DEF Turn

\* Turns of all the users, one after the other, keep the slots apart.
LEMMA AssignKeeps ==
  ASSUME NEW slots \in Good, NEW needy, NEW others, conf.slots \in Nat
  PROVE  Assign(slots, needy, others) \in Good
  <1> DEFINE N == Len(NameOrder)
             f == CHOOSE f : Folds(f, N, slots, needy, others)
             T == {k \in Nat : k <= N => f[1..k] \in Good}
  <1>1. N \in Nat /\ DOMAIN NameOrder = 1..N /\ \A i \in 1..N : NameOrder[i] \in Names
    BY ManagerAssumption
  <1>2. Folds(f, N, slots, needy, others)
    BY <1>1, FoldExists
  <1>3. Assign(slots, needy, others) = f[1..N]
    BY <1>1 DEF Assign, FoldLeft, MapThenFoldSet, Folds
  <1> HIDE DEF f
  <1>4. 0 \in T
    <2>1. 1..0 = {} /\ {} \in SUBSET (1..N)
      OBVIOUS
    <2>2. f[{}] = slots
      BY <1>2, <2>1 DEF Folds
    <2> QED
      BY <2>1, <2>2
  <1>5. ASSUME NEW k \in T PROVE k + 1 \in T
    <2> SUFFICES ASSUME k + 1 <= N PROVE f[1..k + 1] \in Good
      OBVIOUS
    <2>1. 1..k + 1 \in SUBSET (1..k + 1) /\ 1..k + 1 # {} /\ k + 1 \in 1..k + 1 /\ k + 1 \in Nat
      OBVIOUS
    <2>2. Max(1..k + 1) \in 1..k + 1 /\ \A y \in 1..k + 1 : Max(1..k + 1) >= y
      BY <2>1, MaxIn
    <2>3. Max(1..k + 1) = k + 1
      BY <2>1, <2>2
    <2>4. (1..k + 1) \ {k + 1} = 1..k
      OBVIOUS
    <2>5. 1..k + 1 \in SUBSET (1..N)
      BY <1>1
    <2>6. f[1..k + 1] = Turn(f[1..k], NameOrder[k + 1], needy, others)
      BY <1>2, <2>1, <2>3, <2>4, <2>5 DEF Folds
    <2>7. f[1..k] \in Good /\ NameOrder[k + 1] \in Names
      BY <1>1
    <2> QED
      BY <2>6, <2>7, TurnKeeps
  <1>6. T = Nat
    BY <1>4, <1>5, FromZero, T \subseteq Nat
  <1> QED
    BY <1>1, <1>3, <1>6

-----------------------------------------------------------------------------
(* The scenario and the shape of the state                                  *)

\* What a scenario has.
ConfFields == {"ops", "requests", "patches", "unsets", "spans", "resets", "slots", "slotsLater", "nft", "percents",
               "expiryDays", "purgeAfter", "bannable", "faults", "faultKinds", "bundles", "end", "spend", "comes",
               "spool", "policies", "anytime"}

StateFields == {"users", "notified", "slots", "seen"}

\* What a state file has of a user.
UserEntry == [start : {0} \union Moments, base : Nat, anchor : Nat]

\* The scenario is one that could be configured.
ConfInv ==
  /\ ConfFields \subseteq DOMAIN conf
  /\ {conf.slots, conf.slotsLater, conf.faults} \subseteq Nat
  /\ conf.end \in Moments
  /\ \A b \in conf.bundles :
        /\ b.users \subseteq Names
        /\ b.state \in [Names -> UserEntry]
        /\ b.days \in [Names -> [1..Day(conf.end) -> Nat]]

\* The shapes of the files, and of what no file has.
GhostFields == {"told", "noticed", "again", "spent", "made", "owner", "lately"}

ShapeInv ==
  /\ spool \subseteq Runtime
  /\ DOMAIN policies = Names
  /\ DOMAIN state = StateFields
  /\ at = "tickSave" => DOMAIN job.state = StateFields
  /\ DOMAIN ghost = GhostFields
  /\ DOMAIN ghost.told = Names /\ ghost.made \in [Names -> Nat] /\ DOMAIN ghost.owner = Names
  /\ "name" \in DOMAIN job
  /\ faults \in Nat

\* The state's slots, and those that a tick is about to save, are apart.
SlotsInv ==
  /\ state.slots \in Good
  /\ at = "tickSave" => job.state.slots \in Good
  /\ applied # Null => \A m, n \in DOMAIN applied :
       m # n /\ applied[m].level # 0 => applied[m].level # applied[n].level

-----------------------------------------------------------------------------
(* Policies of one's own                                                    *)

\* A scenario in which no policy outlives its user: the file and the bundles
\* have policies of users only, and a crash comes at most once, and not beside imports.
Orderly ==
  /\ DOMAIN conf.policies \subseteq conf.spool \union Declared
  /\ \A b \in conf.bundles : \A n \in Runtime \ b.users : DOMAIN b.policies[n] = {}
  /\ "crash" \notin conf.faultKinds \/ (conf.faults <= 1 /\ "import" \notin conf.ops)

\* The crash has been.
CrashSpent == "crash" \in conf.faultKinds /\ faults >= conf.faults

\* Runtime users without a file have no policy, and with one their own, but for
\* what a delete or a create under way, or the one crash, leaves.
FreshInv ==
  /\ \A n \in Runtime \ spool :
       \/ DOMAIN policies[n] = {}
       \/ at = "deletePolicies" /\ job.name = n
       \/ CrashSpent
  /\ \A n \in spool :
       \/ DOMAIN policies[n] = {}
       \/ ghost.owner[n] = ghost.made[n]
       \/ at = "createPolicies" /\ job.name = n /\ CrashSpent
  /\ at = "setPolicy" => job.name \in Known
  /\ at = "createPolicies" => job.name \in spool
  /\ at \in {"tickSave", "tickActivate"} =>
       \A n \in job.came : n \in Known /\ (n \in Runtime => DOMAIN policies[n] # {})
  /\ at = "importPolicies" => job.bundle \in conf.bundles /\ job.bundle.users \subseteq spool

-----------------------------------------------------------------------------
(* What was told                                                            *)

\* Users may go.
Leaving == "delete" \in conf.ops \/ conf.purgeAfter # Null

\* A scenario in which what was applied and what was told do not part ways: where
\* users go, no apply fails, and a crash does not come beside imports.
Telling ==
  Leaving => /\ "apply" \notin conf.faultKinds
             /\ "crash" \notin conf.faultKinds \/ "import" \notin conf.ops

\* What the inbounds last had of a user: one they did not have counts as on.
Was(n) == IF n \in DOMAIN applied THEN applied[n].active ELSE TRUE

\* Who is known was told of as applied, but for a user being created; who is not
\* known was not applied, but for one being deleted.
ToldInv ==
  /\ applied # Null =>
       /\ \A n \in Known : ghost.told[n] = Was(n) \/ (at \in {"createPolicies", "createState"} /\ job.name = n)
       /\ DOMAIN applied \subseteq Known \union
            (IF Leaving /\ at \in {"deletePolicies", "deleteState", "apply"} THEN {job.name} ELSE {})
       /\ at \in {"createPolicies", "createState"} => job.name \notin DOMAIN applied
  /\ at \in {"deletePolicies", "deleteState"} => Leaving /\ job.name \notin Known
  /\ "import" \in conf.ops => \A n \in Names \ Known :
       ghost.told[n] = TRUE \/ (at \in {"deletePolicies", "deleteState"} /\ job.name = n)

-----------------------------------------------------------------------------
(* Slots stay apart                                                         *)

\* The initial scenario has what a scenario has.
LEMMA ConfInit == Init => ConfInv
  BY ManagerAssumption DEF Init, ConfInv, ConfFields, UserEntry

\* What a step leaves of the scenario: all but the number of slots.
SameConf ==
  /\ \A f \in ConfFields \ {"slots"} : conf'[f] = conf[f]
  /\ DOMAIN conf' = DOMAIN conf
  /\ conf'.slots \in {conf.slots, conf.slotsLater}

\* Every step keeps what a scenario has.
LEMMA ConfStep == ConfInv /\ [Next]_vars => ConfInv' /\ SameConf
  <1> SUFFICES ASSUME ConfInv, [Next]_vars PROVE ConfInv' /\ SameConf
    OBVIOUS
  <1>1. CASE conf' = conf
    BY <1>1 DEF ConfInv, SameConf
  <1>2. CASE Crash
    <2>1. PICK slots \in {conf.slots, conf.slotsLater} : conf' = [conf EXCEPT !.slots = slots]
      BY <1>2 DEF Crash
    <2>2. SameConf
      BY <2>1 DEF SameConf, ConfInv, ConfFields
    <2> QED
      BY <2>1, <2>2 DEF SameConf, ConfInv, ConfFields
  <1>3. conf' = conf \/ Crash
    BY DEF Next, vars, outside, Request, Patch, Create, Delete, Reset, Import, Extending, ExtendReset, ExtendWrite,
           ExtendRefused, ExtendRead, Work, SetPolicySave, CreatePolicies, CreateState, DeletePolicies, DeleteState,
           ImportPolicies, ImportState, ImportStats, Apply, TickSave, TickActivate, TickPurge, TickEnd, ApplyFails,
           TickBegin, ToClock, Spend, Connect, Disconnect, Unban
  <1> QED
    BY <1>1, <1>2, <1>3

\* What is there at first has its shape.
LEMMA ShapeInit == Init => ShapeInv
  BY ManagerAssumption DEF Init, ShapeInv, StateFields, GhostFields, NoJob

\* A fault that is counted is one more.
LEMMA FaultCounts == ASSUME NEW kind, Fault(kind), faults \in Nat PROVE faults' \in Nat
  BY DEF Fault

\* A policy that is saved leaves the shape of the policies and of what no file has.
LEMMA SaveShape ==
  ASSUME ShapeInv, NEW n, NEW entry, SavePolicy(n, entry)
  PROVE  /\ DOMAIN policies' = Names
         /\ DOMAIN ghost' = GhostFields
         /\ DOMAIN ghost'.told = Names /\ ghost'.made \in [Names -> Nat] /\ DOMAIN ghost'.owner = Names
  BY DEF ShapeInv, SavePolicy, GhostFields

\* So does setting one, with the state.
LEMMA SetShape ==
  ASSUME ShapeInv, NEW n, NEW fields, NEW unset, SetPolicy(n, fields, unset)
  PROVE  /\ DOMAIN policies' = Names
         /\ DOMAIN state' = StateFields
         /\ at' # "tickSave" /\ "name" \in DOMAIN job'
         /\ DOMAIN ghost' = GhostFields
         /\ DOMAIN ghost'.told = Names /\ ghost'.made \in [Names -> Nat] /\ DOMAIN ghost'.owner = Names
  BY SaveShape DEF SetPolicy, ShapeInv, NoJob

\* Every step keeps the shapes.
LEMMA ShapeStep == ConfInv /\ ShapeInv /\ [Next]_vars => ShapeInv'
  <1> SUFFICES ASSUME ConfInv, ShapeInv, [Next]_vars PROVE ShapeInv'
    OBVIOUS
  <1> USE DEF vars, outside, NoJob
  <1>1. CASE UNCHANGED vars
    BY <1>1 DEF ShapeInv
  <1>2. ASSUME NEW n \in Names, Request(n) PROVE ShapeInv'
    <2>1. CASE Patch(n)
      BY <2>1, SetShape DEF Patch, Asked, ShapeInv
    <2>2. CASE Create(n)
      BY <2>2 DEF Create, Asked, ShapeInv, GhostFields
    <2>3. CASE Delete(n)
      BY <2>3 DEF Delete, DeleteFile, Asked, ShapeInv
    <2>4. CASE Reset(n)
      BY <2>4 DEF Reset, FreshPeriod, Asked, ShapeInv, GhostFields, StateFields
    <2> QED
      BY <1>2, <2>1, <2>2, <2>3, <2>4 DEF Request
  <1>3. CASE Import
    <2>1. spool' \subseteq Runtime
      BY <1>3 DEF Import, ShapeInv, ConfInv, Names
    <2>2. DOMAIN ghost' = GhostFields
          /\ DOMAIN ghost'.told = Names /\ ghost'.made \in [Names -> Nat] /\ DOMAIN ghost'.owner = Names
      BY <1>3 DEF Import, ShapeInv, GhostFields
    <2> QED
      BY <1>3, <2>1, <2>2 DEF Import, Asked, ShapeInv
  <1>4. ASSUME NEW c \in Clients, Extending(c) \/ \E n \in Names : ExtendRead(c, n) PROVE ShapeInv'
    <2>1. CASE ExtendReset(c)
      BY <2>1 DEF ExtendReset, FreshPeriod, ShapeInv, GhostFields, StateFields
    <2>2. CASE ExtendWrite(c)
      BY <2>2, SetShape DEF ExtendWrite, ShapeInv
    <2>3. CASE ExtendRefused(c) \/ \E n \in Names : ExtendRead(c, n)
      BY <2>3 DEF ExtendRefused, ExtendRead, ShapeInv
    <2> QED
      BY <1>4, <2>1, <2>2, <2>3 DEF Extending
  <1>5. CASE Work
    <2>1. CASE SetPolicySave \/ CreatePolicies
      BY <2>1, SaveShape DEF SetPolicySave, CreatePolicies, ShapeInv
    <2>2. CASE CreateState
      BY <2>2 DEF CreateState, ShapeInv, GhostFields, StateFields
    <2>3. CASE DeletePolicies
      BY <2>3 DEF DeletePolicies, ShapeInv
    <2>4. CASE DeleteState
      BY <2>4 DEF DeleteState, Forgotten, ShapeInv, GhostFields, StateFields
    <2>5. CASE ImportPolicies
      BY <2>5 DEF ImportPolicies, ShapeInv, GhostFields
    <2>6. CASE ImportState
      BY <2>6 DEF ImportState, ShapeInv, GhostFields, StateFields
    <2>7. CASE ImportStats
      BY <2>7 DEF ImportStats, ShapeInv
    <2>8. CASE Apply
      BY <2>8 DEF Apply, ShapeInv, GhostFields
    <2>9. CASE TickSave
      BY <2>9 DEF TickSave, ShapeInv
    <2>10. CASE TickActivate \/ TickPurge \/ TickEnd
      BY <2>10 DEF TickActivate, TickPurge, DeleteFile, TickEnd, ShapeInv
    <2> QED
      BY <1>5, <2>1, <2>2, <2>3, <2>4, <2>5, <2>6, <2>7, <2>8, <2>9, <2>10 DEF Work
  <1>6. CASE ApplyFails
    BY <1>6, FaultCounts DEF ApplyFails, ShapeInv
  <1>7. CASE TickBegin
    <2>1. DOMAIN job'.state = StateFields
      <3>1. DOMAIN Measured(now) = StateFields
        BY DEF Measured, Forgotten, StateFields
      <3> QED
        BY <1>7, <3>1 DEF TickBegin, Ticked, NoJob
    <2>2. DOMAIN ghost' = GhostFields
          /\ DOMAIN ghost'.told = Names /\ ghost'.made \in [Names -> Nat] /\ DOMAIN ghost'.owner = Names
      BY <1>7 DEF TickBegin, ShapeInv, GhostFields
    <2>3. faults' \in Nat
      BY <1>7, FaultCounts DEF TickBegin, ShapeInv
    <2> QED
      BY <1>7, <2>1, <2>2, <2>3 DEF TickBegin, ShapeInv
  <1>8. CASE ToClock \/ Unban
    BY <1>8 DEF ToClock, Unban, ShapeInv
  <1>9. ASSUME NEW n \in Names, Spend(n) \/ \E ip \in Ips : Connect(n, ip) \/ Disconnect(n, ip) PROVE ShapeInv'
    BY <1>9 DEF Spend, Connect, Disconnect, ShapeInv, GhostFields
  <1>10. CASE Crash
    BY <1>10, FaultCounts DEF Crash, ShapeInv
  <1> QED
    BY <1>1, <1>2, <1>3, <1>4, <1>5, <1>6, <1>7, <1>8, <1>9, <1>10 DEF Next

\* The slots of a view are those of the state.
LEMMA ViewApart ==
  ASSUME NEW t, state.slots \in Good, spool \subseteq Runtime
  PROVE  \A m, n \in DOMAIN View(t) :
           m # n /\ View(t)[m].level # 0 => View(t)[m].level # View(t)[n].level
  <1>1. \A n \in DOMAIN View(t) : n \in Names /\ View(t)[n].level \in {0, state.slots[n]}
    BY DEF View, StatusOf, Known, Names
  <1> HIDE DEF View
  <1> QED
    BY <1>1 DEF Good, Apart

\* A policy that is set gives its user a slot of their own, if any.
LEMMA SetSlots ==
  ASSUME ConfInv, ShapeInv, SlotsInv, NEW n, NEW fields, NEW unset, SetPolicy(n, fields, unset)
  PROVE  state'.slots \in Good /\ at' # "tickSave"
  <1>1. n \in Names
    BY DEF SetPolicy, Accepts, Known, Names, ShapeInv
  <1>2. AllocateSlot(state.slots, n) \in Good
    BY <1>1, AllocateKeeps DEF ConfInv, SlotsInv
  <1> QED
    BY <1>2 DEF SetPolicy, ShapeInv, SlotsInv, StateFields

\* What a tick keeps until it saves: the state, and those on hold who have come.
LEMMA TickJob ==
  ASSUME TickBegin
  PROVE  /\ \E notices, banned : job'.state = Ticked(Measured(now), notices, banned)
         /\ \A n \in job'.came : n \in Known /\ OnHold(Eff(n))
  <1> DEFINE notices == [n \in Names |-> IF n \in Known THEN Notices(Measured(now), n, now) ELSE {}]
             past == {x \in Ips \X Names : x[1] \in PastLimit(Measured(now), x[2])}
             came == {n \in Known : /\ OnHold(Eff(n))
                                    /\ online[n] # {} \/ PeriodTraffic(days[n], Measured(now).users[n]) > 0}
  <1>1. \E failed \in SUBSET past :
          job' = [NoJob EXCEPT !.ticking = TRUE, !.time = now,
                               !.state = Ticked(Measured(now), notices, past \ failed), !.came = came]
    BY Zenon DEF TickBegin
  <1>2. \A n \in came : n \in Known /\ OnHold(Eff(n))
    OBVIOUS
  <1> HIDE DEF notices, past, came
  <1> QED
    BY <1>1, <1>2 DEF NoJob

\* Every step keeps the slots apart.
LEMMA SlotsStep == ConfInv /\ ShapeInv /\ SlotsInv /\ [Next]_vars => SlotsInv'
  <1> SUFFICES ASSUME ConfInv, ShapeInv, SlotsInv, [Next]_vars PROVE SlotsInv'
    OBVIOUS
  <1> USE DEF vars, outside
  <1>0. conf.slots \in Nat
    BY DEF ConfInv
  <1>1. CASE UNCHANGED vars
    BY <1>1 DEF SlotsInv, Good, Apart
  <1>2. ASSUME NEW n \in Names, Request(n) PROVE SlotsInv'
    <2>1. CASE Patch(n)
      BY <2>1, SetSlots DEF Patch, Asked, SlotsInv, Good, Apart
    <2>2. CASE Create(n) \/ Delete(n)
      BY <2>2 DEF Create, Delete, DeleteFile, Asked, SlotsInv, Good, Apart
    <2>3. CASE Reset(n)
      BY <2>3 DEF Reset, FreshPeriod, Asked, SlotsInv, ShapeInv, StateFields, Good, Apart
    <2> QED
      BY <1>2, <2>1, <2>2, <2>3 DEF Request
  <1>3. CASE Import
    BY <1>3 DEF Import, Asked, SlotsInv, Good, Apart
  <1>4. ASSUME NEW c \in Clients, Extending(c) \/ \E n \in Names : ExtendRead(c, n) PROVE SlotsInv'
    <2>1. CASE ExtendReset(c)
      BY <2>1 DEF ExtendReset, FreshPeriod, SlotsInv, ShapeInv, StateFields, Good, Apart
    <2>2. CASE ExtendWrite(c)
      BY <2>2, SetSlots DEF ExtendWrite, SlotsInv, Good, Apart
    <2>3. CASE ExtendRefused(c) \/ \E n \in Names : ExtendRead(c, n)
      BY <2>3 DEF ExtendRefused, ExtendRead, SlotsInv, Good, Apart
    <2> QED
      BY <1>4, <2>1, <2>2, <2>3 DEF Extending
  <1>5. CASE Work
    <2>1. CASE SetPolicySave \/ CreatePolicies \/ DeletePolicies \/ ImportPolicies \/ ImportStats
               \/ TickActivate \/ TickPurge \/ TickEnd
      BY <2>1 DEF SetPolicySave, CreatePolicies, DeletePolicies, ImportPolicies, ImportStats, TickActivate,
                  TickPurge, DeleteFile, TickEnd, SlotsInv, Good, Apart
    <2>2. CASE CreateState
      <3> DEFINE without == [state.slots EXCEPT ![job.name] = 0]
      <3>1. without \in Good /\ AllocateSlot(without, job.name) \in Good
        <4>1. CASE job.name \in Names
          BY <1>0, <4>1, WithoutKeeps, AllocateKeeps DEF SlotsInv
        <4>2. CASE job.name \notin Names
          <5>1. without = state.slots
            BY <4>2 DEF SlotsInv, Good
          <5>2. \A x : [without EXCEPT ![job.name] = x] = without
            BY <4>2, <5>1 DEF SlotsInv, Good
          <5> HIDE DEF without
          <5> QED
            BY <5>1, <5>2 DEF AllocateSlot, SlotsInv
        <4> QED
          BY <4>1, <4>2
      <3> DEFINE slots == IF Limited(Effective(<<>>, job.fields)) THEN AllocateSlot(without, job.name) ELSE without
      <3>2. state' = [state EXCEPT !.users[job.name] = StartPeriod(days[job.name], now),
                                   !.notified[job.name] = NoKeys, !.slots = slots]
        BY <2>2 DEF CreateState
      <3>3. slots \in Good
        BY <3>1
      <3> HIDE DEF slots, without
      <3>4. state'.slots \in Good
        BY <3>2, <3>3 DEF ShapeInv, StateFields
      <3> QED
        BY <2>2, <3>4 DEF CreateState, SlotsInv
    <2>4. CASE DeleteState
      <3>1. state'.slots = [n \in Names |-> IF n \in {job.name} THEN 0 ELSE state.slots[n]]
        BY <2>4 DEF DeleteState, Forgotten
      <3>2. state'.slots \in Good
        BY <3>1 DEF SlotsInv, Good, Apart
      <3> QED
        BY <2>4, <3>2 DEF DeleteState, SlotsInv
    <2>6. CASE ImportState
      <3>1. \A needy : Assign(state.slots, needy, {}) \in Good
        BY <1>0, AssignKeeps DEF SlotsInv
      <3>2. state'.slots \in Good
        <4> DEFINE bundle == job.bundle
                   users  == [n \in Names |-> IF bundle.state[n] # Unmeasured /\ (job.replace \/ state.users[n] = Unmeasured)
                                              THEN bundle.state[n] ELSE state.users[n]]
                   needy  == {n \in bundle.slots : Limited(Eff(n)) /\ ~HasSlot(state.slots, n)}
                   slots  == Assign(state.slots, needy, {})
                   told   == [n \in Names |-> IF users[n] = state.users[n] THEN state.notified[n] ELSE NoKeys]
        <4>1. state' \in {state, [state EXCEPT !.users = users, !.slots = slots, !.notified = told]}
          BY <2>6 DEF ImportState
        <4>2. slots \in Good
          BY <3>1
        <4> HIDE DEF users, slots, told
        <4> QED
          BY <4>1, <4>2 DEF SlotsInv, ShapeInv, StateFields
      <3> QED
        BY <2>6, <3>2 DEF ImportState, SlotsInv
    <2>8. CASE Apply
      <3>1. \A m, n \in DOMAIN applied' :
              m # n /\ applied'[m].level # 0 => applied'[m].level # applied'[n].level
        BY <2>8, ViewApart DEF Apply, SlotsInv, ShapeInv
      <3> QED
        BY <2>8, <3>1 DEF Apply, SlotsInv, Good, Apart
    <2>9. CASE TickSave
      BY <2>9 DEF TickSave, SlotsInv, Good, Apart
    <2> QED
      BY <1>5, <2>1, <2>2, <2>4, <2>6, <2>8, <2>9 DEF Work
  <1>6. CASE ApplyFails
    BY <1>6 DEF ApplyFails, SlotsInv, Good, Apart
  <1>7. CASE TickBegin
    <2>1. Measured(now).slots \in Good /\ DOMAIN Measured(now) = StateFields
      <3> DEFINE limited == {n \in Known : Limited(Eff(n))}
                 slots == Assign(state.slots, limited, Known \ limited)
      <3>1. slots \in Good
        BY <1>0, AssignKeeps DEF SlotsInv
      <3>2. Measured(now).slots = [n \in Names |-> IF n \in Names \ Known THEN 0 ELSE slots[n]]
        BY DEF Measured, Forgotten, ShapeInv, StateFields
      <3>3. DOMAIN Measured(now) = StateFields
        BY DEF Measured, Forgotten, StateFields
      <3> HIDE DEF slots
      <3> QED
        BY <3>1, <3>2, <3>3 DEF Good, Apart
    <2>2. job'.state.slots = Measured(now).slots
      <3>1. \E notices, banned : job'.state = Ticked(Measured(now), notices, banned)
        BY <1>7, TickJob
      <3> QED
        BY <2>1, <3>1 DEF Ticked, StateFields
    <2>3. UNCHANGED <<state, applied>>
      BY <1>7 DEF TickBegin
    <2> QED
      BY <2>1, <2>2, <2>3 DEF SlotsInv, Good, Apart
  <1>8. CASE ToClock \/ Unban
    BY <1>8 DEF ToClock, Unban, SlotsInv, Good, Apart
  <1>9. ASSUME NEW n \in Names, Spend(n) \/ \E ip \in Ips : Connect(n, ip) \/ Disconnect(n, ip) PROVE SlotsInv'
    BY <1>9 DEF Spend, Connect, Disconnect, SlotsInv, Good, Apart
  <1>10. CASE Crash
    BY <1>10 DEF Crash, SlotsInv, Good, Apart
  <1> QED
    BY <1>1, <1>2, <1>3, <1>4, <1>5, <1>6, <1>7, <1>8, <1>9, <1>10 DEF Next

\* Whatever the requests, the faults and the number of slots, no two users have
\* the same slot, nor the same level in what the inbounds run.
THEOREM SlotsKept == Spec => []SlotsApart
  <1>1. Init => ConfInv /\ ShapeInv /\ SlotsInv
    <2>1. Init => SlotsInv
      BY DEF Init, SlotsInv, Good, Apart
    <2> QED
      BY <2>1, ConfInit, ShapeInit
  <1>2. ConfInv /\ ShapeInv /\ SlotsInv /\ [Next]_vars => (ConfInv /\ ShapeInv /\ SlotsInv)'
    BY ConfStep, ShapeStep, SlotsStep
  <1>3. SlotsInv => SlotsApart
    BY DEF SlotsInv, SlotsApart, Good, Apart
  <1> QED
    BY <1>1, <1>2, <1>3, PTL DEF Spec

-----------------------------------------------------------------------------
(* A user made anew has no policy but their own                             *)

\* Faults are counted one by one, and only a crash changes the scenario.
LEMMA FaultsGrow == [Next]_vars => faults' \in {faults, faults + 1} /\ (conf' = conf \/ Crash)
  BY DEF Next, vars, outside, Request, Patch, Create, Delete, Reset, Import, Extending, ExtendReset, ExtendWrite,
         ExtendRefused, ExtendRead, Work, SetPolicySave, CreatePolicies, CreateState, DeletePolicies, DeleteState,
         ImportPolicies, ImportState, ImportStats, Apply, TickSave, TickActivate, TickPurge, TickEnd, ApplyFails,
         TickBegin, ToClock, Spend, Connect, Disconnect, Unban, Crash, Fault

\* Which scenario it is stays.
LEMMA OrderlyStep == ConfInv /\ [Next]_vars => (Orderly' <=> Orderly)
  <1> SUFFICES ASSUME ConfInv, [Next]_vars PROVE Orderly' <=> Orderly
    OBVIOUS
  <1>1. \A f \in ConfFields \ {"slots"} : conf'[f] = conf[f]
    BY ConfStep DEF SameConf
  <1>2. conf'.policies = conf.policies /\ conf'.spool = conf.spool /\ conf'.bundles = conf.bundles
        /\ conf'.faultKinds = conf.faultKinds /\ conf'.faults = conf.faults /\ conf'.ops = conf.ops
    BY <1>1 DEF ConfFields
  <1> QED
    BY <1>2 DEF Orderly

\* A user on hold whom the configuration does not have has a policy.
LEMMA HoldHasPolicy ==
  ASSUME NEW n \in Runtime, OnHold(Eff(n))
  PROVE  DOMAIN policies[n] # {}
  <1> SUFFICES ASSUME DOMAIN policies[n] = {} PROVE FALSE
    OBVIOUS
  <1>1. DeclaredOf(n) = <<>>
    BY ManagerAssumption DEF DeclaredOf
  <1>2. Eff(n)["expiresAfter"] = DefaultPolicy["expiresAfter"]
    <2>1. DOMAIN <<>> = {} /\ "expiresAfter" \in Fields
      BY DEF Fields
    <2> QED
      BY <1>1, <2>1 DEF Eff, Effective
  <1> QED
    BY <1>2 DEF OnHold, DefaultPolicy, Fields

\* The steps at which FreshInv asks for more.
Marked == {"deletePolicies", "setPolicy", "createPolicies", "tickSave", "tickActivate", "importPolicies"}

\* A policy that is saved for a known user is that user's.
LEMMA SaveFresh ==
  ASSUME ShapeInv, FreshInv, NEW n \in Known, NEW entry, SavePolicy(n, entry),
         UNCHANGED <<spool, conf, faults>>, at # "deletePolicies", at = "createPolicies" => job.name = n,
         at' \notin Marked
  PROVE  FreshInv'
  <1>1. \A m \in Names \ {n} : policies'[m] = policies[m] /\ ghost'.owner[m] = ghost.owner[m]
                               /\ ghost'.made[m] = ghost.made[m]
    BY DEF SavePolicy, ShapeInv, GhostFields
  <1>2. n \in Names /\ ghost'.owner[n] = ghost'.made[n]
    BY DEF SavePolicy, ShapeInv, GhostFields, Known, Names
  <1>3. \A m \in Runtime \ spool : m # n /\ m \in Names
    BY ManagerAssumption DEF Known, Names
  <1>4. CrashSpent' <=> CrashSpent
    BY DEF CrashSpent
  <1> QED
    BY <1>1, <1>2, <1>3, <1>4 DEF FreshInv, Marked, ShapeInv, Names

\* Setting a policy keeps policies with their users.
LEMMA SetFresh ==
  ASSUME ShapeInv, FreshInv, NEW n, NEW fields, NEW unset, SetPolicy(n, fields, unset),
         UNCHANGED <<spool, conf, faults>>, at \in {"idle", "extend"}
  PROVE  FreshInv'
  <1>1. n \in Known
    BY DEF SetPolicy, Accepts
  <1>2. CASE \E entry : SavePolicy(n, entry) /\ at' = "apply"
    BY <1>1, <1>2, SaveFresh DEF Marked
  <1>3. CASE at' = "setPolicy" /\ job'.name = n /\ UNCHANGED <<policies, ghost>>
    BY <1>1, <1>3 DEF FreshInv, CrashSpent, Known
  <1> QED
    BY <1>2, <1>3 DEF SetPolicy, NoJob

\* Steps that leave the spool, the policies and their owners alone.
LEMMA AloneFresh ==
  ASSUME ShapeInv, FreshInv, UNCHANGED <<spool, conf, policies>>, faults' \in {faults, faults + 1}, ConfInv,
         \A n \in spool : ghost'.owner[n] = ghost.owner[n] /\ ghost'.made[n] = ghost.made[n],
         \/ at' \notin Marked /\ at \notin {"deletePolicies", "createPolicies"}
         \/ UNCHANGED <<at, job>>
  PROVE  FreshInv'
  <1>1. CrashSpent => CrashSpent'
    BY DEF CrashSpent, ShapeInv, ConfInv
  <1> QED
    BY <1>1 DEF FreshInv, Marked, Known

\* The user an import brings anew has no policy yet.
LEMMA ImportFresh ==
  ASSUME ConfInv, ShapeInv, Orderly, FreshInv, Import
  PROVE  FreshInv'
  <1>1. PICK bundle \in conf.bundles :
          /\ bundle.users \intersect Declared = {}
          /\ spool' = spool \union bundle.users
          /\ job'.bundle = bundle
          /\ \A n \in Names \ (bundle.users \ spool) : ghost'.made[n] = ghost.made[n]
    BY DEF Import, NoJob, ShapeInv, GhostFields
  <1>2. at = "idle" /\ at' = "importPolicies" /\ UNCHANGED <<conf, policies, faults>>
        /\ "import" \in conf.ops /\ ghost'.owner = ghost.owner
    BY DEF Import, Asked, outside, ShapeInv, GhostFields
  <1>3. ~CrashSpent /\ CrashSpent' = CrashSpent
    <2>1. "crash" \in conf.faultKinds => conf.faults <= 1 /\ "import" \notin conf.ops
      BY DEF Orderly
    <2> QED
      BY <1>2, <2>1 DEF CrashSpent
  <1>4. \A n \in bundle.users \ spool : DOMAIN policies[n] = {}
    BY <1>1, <1>2, <1>3 DEF FreshInv, ConfInv, Names
  <1> QED
    BY <1>1, <1>2, <1>3, <1>4 DEF FreshInv, ShapeInv, Names


\* Every step keeps policies with their users.
LEMMA FreshStep == ConfInv /\ ShapeInv /\ Orderly /\ FreshInv /\ [Next]_vars => FreshInv'
  <1> SUFFICES ASSUME ConfInv, ShapeInv, Orderly, FreshInv, [Next]_vars PROVE FreshInv'
    OBVIOUS
  <1> USE DEF vars, outside
  <1>0. faults' \in {faults, faults + 1} /\ (conf' = conf \/ Crash) /\ spool \subseteq Names
    BY FaultsGrow DEF ShapeInv, Names
  <1>1. CASE UNCHANGED vars
    BY <1>0, <1>1, AloneFresh
  <1>2. ASSUME NEW n \in Names, Request(n) PROVE FreshInv'
    <2>1. CASE Patch(n)
      BY <2>1, SetFresh DEF Patch, Asked
    <2>2. CASE Create(n)
      <3>1. at = "idle" /\ at' = "createPolicies" /\ n \in Runtime \ spool /\ job'.name = n
            /\ spool' = spool \union {n} /\ UNCHANGED <<conf, policies, faults>>
        BY <2>2 DEF Create, Asked, NoJob
      <3>2. ghost'.owner = ghost.owner /\ \A m \in Names \ {n} : ghost'.made[m] = ghost.made[m]
        BY <2>2 DEF Create, ShapeInv, GhostFields
      <3>3. CrashSpent' = CrashSpent
        BY <3>1 DEF CrashSpent
      <3> QED
        BY <1>0, <3>1, <3>2, <3>3 DEF FreshInv, Known
    <2>3. CASE Delete(n)
      <3>1. at = "idle" /\ at' = "deletePolicies" /\ job'.name = n /\ spool' = spool \ {n}
            /\ UNCHANGED <<conf, policies, faults, ghost>>
        BY <2>3 DEF Delete, DeleteFile, Asked, NoJob
      <3> QED
        BY <3>1 DEF FreshInv, CrashSpent, Known
    <2>4. CASE Reset(n)
      <3>1. ghost'.owner = ghost.owner /\ ghost'.made = ghost.made
        BY <2>4 DEF Reset, FreshPeriod, ShapeInv, GhostFields
      <3> QED
        BY <1>0, <2>4, <3>1, AloneFresh DEF Reset, Asked, Marked
    <2> QED
      BY <1>2, <2>1, <2>2, <2>3, <2>4 DEF Request
  <1>3. CASE Import
    BY <1>3, ImportFresh
  <1>4. ASSUME NEW c \in Clients, Extending(c) \/ \E n \in Names : ExtendRead(c, n) PROVE FreshInv'
    <2>1. CASE ExtendReset(c)
      <3>1. ghost'.owner = ghost.owner /\ ghost'.made = ghost.made
        BY <2>1 DEF ExtendReset, FreshPeriod, ShapeInv, GhostFields
      <3> QED
        BY <1>0, <2>1, <3>1, AloneFresh DEF ExtendReset, Marked
    <2>2. CASE ExtendWrite(c)
      BY <2>2, SetFresh DEF ExtendWrite, Extends
    <2>3. CASE ExtendRefused(c)
      BY <1>0, <2>3, AloneFresh DEF ExtendRefused, Extends, Marked
    <2>4. CASE \E n \in Names : ExtendRead(c, n)
      BY <1>0, <2>4, AloneFresh DEF ExtendRead
    <2> QED
      BY <1>4, <2>1, <2>2, <2>3, <2>4 DEF Extending
  <1>5. CASE Work
    <2>1. CASE SetPolicySave
      BY <2>1, SaveFresh DEF SetPolicySave, FreshInv, Marked
    <2>2. CASE CreatePolicies
      BY <2>2, SaveFresh DEF CreatePolicies, FreshInv, Marked, Known
    <2>3. CASE CreateState
      <3>1. ghost'.owner = ghost.owner /\ ghost'.made = ghost.made
        BY <2>3 DEF CreateState, ShapeInv, GhostFields
      <3> QED
        BY <1>0, <2>3, <3>1, AloneFresh DEF CreateState, Marked
    <2>4. CASE DeletePolicies
      <3>1. policies' = [policies EXCEPT ![job.name] = <<>>] /\ at = "deletePolicies" /\ at' = "deleteState"
            /\ UNCHANGED <<conf, spool, faults, ghost, job>>
        BY <2>4 DEF DeletePolicies
      <3>2. \A m \in Names : IF m = job.name THEN DOMAIN policies'[m] = {} ELSE policies'[m] = policies[m]
        BY <3>1 DEF ShapeInv
      <3> QED
        BY <1>0, <3>1, <3>2 DEF FreshInv, CrashSpent, Names
    <2>5. CASE DeleteState
      <3>1. ghost'.owner = ghost.owner /\ ghost'.made = ghost.made
        BY <2>5 DEF DeleteState, ShapeInv, GhostFields
      <3>2. at = "deleteState" /\ at' = "apply" /\ UNCHANGED <<conf, spool, policies, faults>>
        BY <2>5 DEF DeleteState
      <3> QED
        BY <1>0, <3>1, <3>2, AloneFresh DEF Marked
    <2>6. CASE ImportPolicies
      <3> DEFINE taken == {n \in Names : /\ DOMAIN job.bundle.policies[n] # {}
                                         /\ CheckStored(job.bundle.policies[n], now) # Bad
                                         /\ DOMAIN policies[n] = {} \/ job.replace}
      <3>1. \A n \in Names :
              IF n \in taken THEN ghost'.owner[n] = ghost.made[n]
              ELSE policies'[n] = policies[n] /\ ghost'.owner[n] = ghost.owner[n]
        BY <2>6 DEF ImportPolicies, ShapeInv, GhostFields
      <3>2. at = "importPolicies" /\ at' = "importState" /\ ghost'.made = ghost.made
            /\ UNCHANGED <<conf, spool, faults>>
        BY <2>6 DEF ImportPolicies, ShapeInv, GhostFields
      <3>3. \A n \in Runtime \ spool : n \notin taken
        BY <3>2 DEF FreshInv, Orderly
      <3> HIDE DEF taken
      <3> QED
        BY <1>0, <3>1, <3>2, <3>3 DEF FreshInv, CrashSpent, Names
    <2>7. CASE ImportState
      <3>1. ghost'.owner = ghost.owner /\ ghost'.made = ghost.made
        BY <2>7 DEF ImportState, ShapeInv, GhostFields
      <3> QED
        BY <1>0, <2>7, <3>1, AloneFresh DEF ImportState, Marked
    <2>8. CASE ImportStats \/ TickEnd
      BY <1>0, <2>8, AloneFresh DEF ImportStats, TickEnd, Marked
    <2>9. CASE Apply
      <3>1. ghost'.owner = ghost.owner /\ ghost'.made = ghost.made
        BY <2>9 DEF Apply, ShapeInv, GhostFields
      <3>2. at = "apply" /\ at' \in {"tickPurge", "idle"} /\ UNCHANGED <<conf, spool, policies>>
        BY <2>9 DEF Apply
      <3> QED
        BY <1>0, <3>1, <3>2, AloneFresh DEF Marked
    <2>10. CASE TickSave
      <3>1. at = "tickSave" /\ at' = "tickActivate" /\ UNCHANGED <<conf, spool, policies, faults, ghost>>
        BY <2>10 DEF TickSave
      <3>2. job' = [job EXCEPT !.state = Null]
        BY <2>10 DEF TickSave
      <3>3. job'.came = job.came
        BY <3>2
      <3> QED
        BY <3>1, <3>3 DEF FreshInv, CrashSpent, Known
    <2>11. CASE TickActivate
      <3>1. \A n \in Names \ job.came : policies'[n] = policies[n]
        BY <2>11 DEF TickActivate
      <3>2. at = "tickActivate" /\ at' = "tickPurge" /\ UNCHANGED <<conf, spool, faults, ghost>>
        BY <2>11 DEF TickActivate
      <3>3. \A n \in Runtime \ spool : n \notin job.came /\ n \in Names
        BY <3>2, ManagerAssumption DEF FreshInv, Known, Names
      <3>4. \A n \in spool : n \in job.came => ghost.owner[n] = ghost.made[n]
        BY <3>2 DEF FreshInv, ShapeInv
      <3> QED
        BY <1>0, <3>1, <3>2, <3>3, <3>4 DEF FreshInv, CrashSpent
    <2>12. CASE TickPurge
      <3>1. PICK n : at = "tickPurge" /\ at' = "deletePolicies" /\ job' = [job EXCEPT !.name = n]
                     /\ spool' = spool \ {n} /\ UNCHANGED <<conf, policies, faults, ghost>>
        BY <2>12 DEF TickPurge, DeleteFile
      <3> QED
        BY <3>1 DEF FreshInv, CrashSpent
    <2> QED
      BY <1>5, <2>1, <2>2, <2>3, <2>4, <2>5, <2>6, <2>7, <2>8, <2>9, <2>10, <2>11, <2>12 DEF Work
  <1>6. CASE ApplyFails
    BY <1>0, <1>6, AloneFresh DEF ApplyFails, Marked
  <1>7. CASE TickBegin
    <2>1. \A n \in job'.came : n \in Known /\ (n \in Runtime => DOMAIN policies[n] # {})
      BY <1>7, TickJob, HoldHasPolicy
    <2>2. at = "idle" /\ at' = "tickSave" /\ UNCHANGED <<conf, spool, policies>>
      BY <1>7 DEF TickBegin
    <2>3. ghost'.owner = ghost.owner /\ ghost'.made = ghost.made
      BY <1>7 DEF TickBegin, ShapeInv, GhostFields
    <2>4. CrashSpent => CrashSpent'
      BY <1>0, <2>2 DEF CrashSpent, ConfInv, ShapeInv
    <2> QED
      BY <2>1, <2>2, <2>3, <2>4 DEF FreshInv, Known
  <1>8. CASE ToClock \/ Unban
    BY <1>0, <1>8, AloneFresh DEF ToClock, Unban
  <1>9. ASSUME NEW n \in Names, Spend(n) \/ \E ip \in Ips : Connect(n, ip) \/ Disconnect(n, ip) PROVE FreshInv'
    <2>1. ghost'.owner = ghost.owner /\ ghost'.made = ghost.made
      BY <1>9 DEF Spend, Connect, Disconnect, ShapeInv, GhostFields
    <2>2. UNCHANGED <<spool, conf, policies, at, job>>
      BY <1>9 DEF Spend, Connect, Disconnect
    <2> QED
      BY <1>0, <2>1, <2>2, AloneFresh
  <1>10. CASE Crash
    <2>1. "crash" \in conf.faultKinds /\ faults < conf.faults /\ faults' = faults + 1 /\ at' = "idle"
          /\ UNCHANGED <<spool, policies, ghost>>
      BY <1>10 DEF Crash, Fault
    <2>2. conf'.faults = conf.faults /\ conf'.faultKinds = conf.faultKinds
      BY ConfStep DEF SameConf, ConfFields
    <2>3. conf.faults <= 1
      BY <2>1 DEF Orderly
    <2>4. CrashSpent' /\ ~CrashSpent
      BY <2>1, <2>2, <2>3 DEF CrashSpent, ConfInv, ShapeInv
    <2> QED
      BY <2>1, <2>4 DEF FreshInv
  <1> QED
    BY <1>1, <1>2, <1>3, <1>4, <1>5, <1>6, <1>7, <1>8, <1>9, <1>10 DEF Next

\* In a scenario where no policy outlives its user, whoever is made has no
\* policy but their own, through a crash between any two files.
THEOREM FreshKept == Spec => [](Orderly => StartsFresh)
  <1>1. Init => ConfInv /\ ShapeInv /\ (Orderly => FreshInv)
    <2>1. Init /\ Orderly => FreshInv
      <3> SUFFICES ASSUME Init, Orderly PROVE FreshInv
        OBVIOUS
      <3>1. \A n \in spool : n \in Names /\ ghost.owner[n] = 0 /\ ghost.made[n] = 0
        BY ShapeInit DEF Init, ShapeInv, Names
      <3>2. \A n \in Runtime \ spool : n \in Names /\ n \notin DOMAIN conf.policies
        BY ManagerAssumption DEF Init, Orderly, Names
      <3>3. \A n \in Runtime \ spool : policies[n] = <<>> /\ DOMAIN <<>> = {}
        BY <3>2 DEF Init
      <3>4. at = "idle"
        BY DEF Init
      <3> QED
        BY <3>1, <3>3, <3>4 DEF FreshInv
    <2> QED
      BY <2>1, ConfInit, ShapeInit
  <1>2. /\ ConfInv /\ ShapeInv /\ (Orderly => FreshInv)
        /\ [Next]_vars
        => (ConfInv /\ ShapeInv /\ (Orderly => FreshInv))'
    BY ConfStep, ShapeStep, OrderlyStep, FreshStep
  <1>3. FreshInv => StartsFresh
    BY DEF FreshInv, StartsFresh
  <1> QED
    BY <1>1, <1>2, <1>3, PTL DEF Spec

-----------------------------------------------------------------------------
(* Whoever follows the events knows who is on                               *)

\* Which scenario it is stays.
LEMMA TellingStep == ConfInv /\ [Next]_vars => (Telling' <=> Telling)
  <1> SUFFICES ASSUME ConfInv, [Next]_vars PROVE Telling' <=> Telling
    OBVIOUS
  <1>1. \A f \in ConfFields \ {"slots"} : conf'[f] = conf[f]
    BY ConfStep DEF SameConf
  <1>2. conf'.purgeAfter = conf.purgeAfter /\ conf'.faultKinds = conf.faultKinds /\ conf'.ops = conf.ops
    BY <1>1 DEF ConfFields
  <1> QED
    BY <1>2 DEF Telling, Leaving

\* The steps at which ToldInv asks for more, or for less.
Between == {"createPolicies", "createState", "deletePolicies", "deleteState"}

\* Steps that leave alone who is there, what was applied and what was told.
LEMMA AloneTold ==
  ASSUME ToldInv, UNCHANGED <<spool, conf, applied>>, ghost'.told = ghost.told,
         \/ at \notin Between /\ at' \notin Between /\ (at = "apply" => ~Leaving)
         \/ UNCHANGED <<at, job>>
  PROVE  ToldInv'
  BY DEF ToldInv, Between, Known, Was, Leaving

\* A policy that is saved tells nothing.
LEMMA SetTold ==
  ASSUME ShapeInv, NEW n, NEW fields, NEW unset, SetPolicy(n, fields, unset)
  PROVE  ghost'.told = ghost.told /\ at' \in {"setPolicy", "apply"}
  BY DEF SetPolicy, SavePolicy, ShapeInv, GhostFields

\* A user who leaves is in what was applied, and in nothing else.
LEMMA LeaveTold ==
  ASSUME ShapeInv, ToldInv, NEW n \in spool, Leaving, at \in {"idle", "tickPurge"}, at' = "deletePolicies",
         spool' = spool \ {n}, job'.name = n, UNCHANGED <<conf, applied, ghost>>
  PROVE  ToldInv'
  <1>1. n \notin Declared /\ Known' = Known \ {n} /\ n \in Known
    BY ManagerAssumption DEF Known, ShapeInv
  <1>2. Leaving' /\ \A m : Was(m)' = Was(m)
    BY DEF Leaving, Was
  <1> QED
    BY <1>1, <1>2 DEF ToldInv

\* An apply tells of each change, so afterwards what was told is what was applied.
LEMMA ApplyTold ==
  ASSUME ShapeInv, ToldInv, Apply
  PROVE  ToldInv'
  <1> DEFINE view == View(now)
  <1>1. at = "apply" /\ at' \in {"idle", "tickPurge"} /\ Known' = Known /\ conf' = conf /\ applied' = view
    BY DEF Apply, Known, outside
  <1>2. DOMAIN view = Known
    BY DEF View
  <1>3. ghost'.told = [n \in Names |->
                 IF n \notin Known THEN ghost.told[n]
                 ELSE IF applied = Null THEN view[n].active
                 ELSE LET was == IF n \in DOMAIN applied THEN applied[n].active ELSE TRUE
                      IN  IF was = view[n].active THEN ghost.told[n] ELSE view[n].active]
    BY DEF Apply, ShapeInv, GhostFields
  <1> HIDE DEF view
  <1>4. ASSUME NEW n \in Known PROVE ghost'.told[n] = view[n].active
    <2>1. n \in Names
      BY DEF ShapeInv, Known, Names
    <2>2. applied # Null => ghost.told[n] = Was(n)
      BY <1>1 DEF ToldInv
    <2> QED
      BY <1>3, <2>1, <2>2 DEF Was
  <1>5. \A n \in Names \ Known : ghost'.told[n] = ghost.told[n]
    BY <1>3
  <1> QED
    BY <1>1, <1>2, <1>4, <1>5 DEF ToldInv, Was

\* Every step keeps what was told and what was applied together.
LEMMA ToldStep == ConfInv /\ ShapeInv /\ Telling /\ ToldInv /\ [Next]_vars => ToldInv'
  <1> SUFFICES ASSUME ConfInv, ShapeInv, Telling, ToldInv, [Next]_vars PROVE ToldInv'
    OBVIOUS
  <1> USE DEF vars, outside
  <1>1. CASE UNCHANGED vars
    BY <1>1, AloneTold
  <1>2. ASSUME NEW n \in Names, Request(n) PROVE ToldInv'
    <2>1. CASE Patch(n)
      BY <2>1, SetTold, AloneTold DEF Patch, Asked, Between
    <2>2. CASE Create(n)
      <3>1. at = "idle" /\ at' = "createPolicies" /\ job'.name = n /\ spool' = spool \union {n}
            /\ UNCHANGED <<conf, applied>>
        BY <2>2 DEF Create, Asked, NoJob
      <3>2. n \notin Known /\ Known' = Known \union {n}
        BY <2>2, <3>1, ManagerAssumption DEF Create, Known
      <3>3. ghost'.told = ghost.told
        BY <2>2 DEF Create, ShapeInv, GhostFields
      <3>4. Leaving' = Leaving /\ \A m : Was(m)' = Was(m)
        BY <3>1 DEF Leaving, Was
      <3> QED
        BY <3>1, <3>2, <3>3, <3>4 DEF ToldInv
    <2>3. CASE Delete(n)
      BY <2>3, LeaveTold DEF Delete, DeleteFile, Asked, NoJob, Leaving
    <2>4. CASE Reset(n)
      <3>1. ghost'.told = ghost.told
        BY <2>4 DEF Reset, FreshPeriod, ShapeInv, GhostFields
      <3> QED
        BY <2>4, <3>1, AloneTold DEF Reset, Asked, Between
    <2> QED
      BY <1>2, <2>1, <2>2, <2>3, <2>4 DEF Request
  <1>3. CASE Import
    <2>1. PICK bundle \in conf.bundles : spool' = spool \union bundle.users
      BY <1>3 DEF Import
    <2>2. at = "idle" /\ at' = "importPolicies" /\ "import" \in conf.ops /\ UNCHANGED <<conf, applied>>
      BY <1>3 DEF Import, Asked
    <2>3. ghost'.told = ghost.told
      BY <1>3 DEF Import, ShapeInv, GhostFields
    <2>4. Known' = Known \union bundle.users /\ bundle.users \subseteq Names
      BY <2>1 DEF Known, ConfInv
    <2>5. \A n : Was(n)' = Was(n)
      BY <2>2 DEF Was
    <2>6. ASSUME NEW n \in bundle.users \ Known, applied # Null PROVE ghost.told[n] = Was(n)
      <3>1. ghost.told[n] = TRUE /\ n \notin DOMAIN applied
        BY <2>2, <2>4, <2>6 DEF ToldInv
      <3> QED
        BY <3>1 DEF Was
    <2> QED
      BY <2>2, <2>3, <2>4, <2>5, <2>6 DEF ToldInv
  <1>4. ASSUME NEW c \in Clients, Extending(c) \/ \E n \in Names : ExtendRead(c, n) PROVE ToldInv'
    <2>1. CASE ExtendReset(c)
      <3>1. ghost'.told = ghost.told
        BY <2>1 DEF ExtendReset, FreshPeriod, ShapeInv, GhostFields
      <3> QED
        BY <2>1, <3>1, AloneTold DEF ExtendReset, Between
    <2>2. CASE ExtendWrite(c)
      BY <2>2, SetTold, AloneTold DEF ExtendWrite, Extends, Between
    <2>3. CASE ExtendRefused(c)
      BY <2>3, AloneTold DEF ExtendRefused, Extends, Between
    <2>4. CASE \E n \in Names : ExtendRead(c, n)
      BY <2>4, AloneTold DEF ExtendRead
    <2> QED
      BY <1>4, <2>1, <2>2, <2>3, <2>4 DEF Extending
  <1>5. CASE Work
    <2>1. CASE SetPolicySave
      <3>1. ghost'.told = ghost.told
        BY <2>1 DEF SetPolicySave, SavePolicy, ShapeInv, GhostFields
      <3> QED
        BY <2>1, <3>1, AloneTold DEF SetPolicySave, Between
    <2>2. CASE CreatePolicies
      <3>1. ghost'.told = ghost.told
        BY <2>2 DEF CreatePolicies, SavePolicy, ShapeInv, GhostFields
      <3>2. at = "createPolicies" /\ at' = "createState" /\ UNCHANGED <<conf, spool, applied, job>>
        BY <2>2 DEF CreatePolicies
      <3> QED
        BY <3>1, <3>2 DEF ToldInv, Known, Was, Leaving
    <2>3. CASE CreateState
      <3>1. at = "createState" /\ at' = "apply" /\ UNCHANGED <<conf, spool, applied>>
        BY <2>3 DEF CreateState
      <3>2. \A n \in Names : ghost'.told[n] = IF n = job.name THEN TRUE ELSE ghost.told[n]
        BY <2>3 DEF CreateState, ShapeInv, GhostFields
      <3>3. applied # Null => Was(job.name) = TRUE
        BY <3>1 DEF ToldInv, Was
      <3>4. Known' = Known /\ Known \subseteq Names /\ Leaving' = Leaving /\ \A n : Was(n)' = Was(n)
        BY <3>1 DEF Known, Names, ShapeInv, Leaving, Was
      <3> QED
        BY <3>1, <3>2, <3>3, <3>4 DEF ToldInv
    <2>4. CASE DeletePolicies
      <3>1. at = "deletePolicies" /\ at' = "deleteState" /\ UNCHANGED <<conf, spool, applied, job, ghost>>
        BY <2>4 DEF DeletePolicies
      <3> QED
        BY <3>1 DEF ToldInv, Known, Was, Leaving
    <2>5. CASE DeleteState
      <3>1. at = "deleteState" /\ at' = "apply" /\ UNCHANGED <<conf, spool, applied, job>>
        BY <2>5 DEF DeleteState
      <3>2. \A n \in Names : ghost'.told[n] = IF n = job.name THEN TRUE ELSE ghost.told[n]
        BY <2>5 DEF DeleteState, ShapeInv, GhostFields
      <3>3. Known' = Known /\ Known \subseteq Names /\ Leaving' = Leaving /\ \A n : Was(n)' = Was(n)
        BY <3>1 DEF Known, Names, ShapeInv, Leaving, Was
      <3> QED
        BY <3>1, <3>2, <3>3 DEF ToldInv
    <2>6. CASE ImportPolicies
      <3>1. ghost'.told = ghost.told
        BY <2>6 DEF ImportPolicies, ShapeInv, GhostFields
      <3> QED
        BY <2>6, <3>1, AloneTold DEF ImportPolicies, Between
    <2>7. CASE ImportState
      <3>1. ghost'.told = ghost.told
        BY <2>7 DEF ImportState, ShapeInv, GhostFields
      <3>2. at = "importState" /\ at' \in {"importStats", "idle"} /\ UNCHANGED <<conf, spool, applied>>
        BY <2>7 DEF ImportState
      <3> QED
        BY <3>1, <3>2, AloneTold DEF Between
    <2>8. CASE ImportStats \/ TickEnd \/ TickSave \/ TickActivate
      BY <2>8, AloneTold DEF ImportStats, TickEnd, TickSave, TickActivate, Between
    <2>9. CASE Apply
      BY <2>9, ApplyTold
    <2>10. CASE TickPurge
      <3>1. PICK n : at = "tickPurge" /\ at' = "deletePolicies" /\ job' = [job EXCEPT !.name = n]
                     /\ n \in spool /\ spool' = spool \ {n} /\ UNCHANGED <<conf, applied, ghost>> /\ Leaving
        BY <2>10 DEF TickPurge, DeleteFile, Leaving
      <3>2. job'.name = n
        BY <3>1 DEF ShapeInv
      <3> QED
        BY <3>1, <3>2, LeaveTold
    <2> QED
      BY <1>5, <2>1, <2>2, <2>3, <2>4, <2>5, <2>6, <2>7, <2>8, <2>9, <2>10 DEF Work
  <1>6. CASE ApplyFails
    BY <1>6, AloneTold DEF ApplyFails, Fault, Telling, Between
  <1>7. CASE TickBegin
    <2>1. at = "idle" /\ at' = "tickSave" /\ UNCHANGED <<conf, spool, applied>>
      BY <1>7 DEF TickBegin
    <2>2. ghost'.told = ghost.told
      BY <1>7 DEF TickBegin, ShapeInv, GhostFields
    <2> QED
      BY <2>1, <2>2, AloneTold DEF Between
  <1>8. CASE ToClock \/ Unban
    BY <1>8, AloneTold DEF ToClock, Unban
  <1>9. ASSUME NEW n \in Names, Spend(n) \/ \E ip \in Ips : Connect(n, ip) \/ Disconnect(n, ip) PROVE ToldInv'
    <2>1. ghost'.told = ghost.told
      BY <1>9 DEF Spend, Connect, Disconnect, ShapeInv, GhostFields
    <2>2. UNCHANGED <<spool, conf, applied, at, job>>
      BY <1>9 DEF Spend, Connect, Disconnect
    <2> QED
      BY <2>1, <2>2, AloneTold
  <1>10. CASE Crash
    <2>1. "crash" \in conf.faultKinds /\ at' = "idle" /\ applied' = Null /\ UNCHANGED <<spool, ghost>>
      BY <1>10 DEF Crash, Fault
    <2>2. conf'.ops = conf.ops
      BY ConfStep DEF SameConf, ConfFields
    <2>3. "import" \in conf.ops => ~Leaving
      BY <2>1 DEF Telling
    <2> QED
      BY <2>1, <2>2, <2>3 DEF ToldInv, Known
  <1> QED
    BY <1>1, <1>2, <1>3, <1>4, <1>5, <1>6, <1>7, <1>8, <1>9, <1>10 DEF Next

\* In such a scenario, whoever follows the events knows who is switched off,
\* whatever was created, deleted, imported or lost on the way.
THEOREM ToldKept == Spec => [](Telling => ToldRight)
  <1>1. Init => ConfInv /\ ShapeInv /\ (Telling => ToldInv)
    <2>1. Init => ToldInv
      BY DEF Init, ToldInv
    <2> QED
      BY <2>1, ConfInit, ShapeInit
  <1>2. /\ ConfInv /\ ShapeInv /\ (Telling => ToldInv)
        /\ [Next]_vars
        => (ConfInv /\ ShapeInv /\ (Telling => ToldInv))'
    BY ConfStep, ShapeStep, TellingStep, ToldStep
  <1>3. ToldInv => ToldRight
    BY DEF ToldInv, ToldRight, Was
  <1> QED
    BY <1>1, <1>2, <1>3, PTL DEF Spec

-----------------------------------------------------------------------------
(* Sums over the days                                                      *)

\* What sums up a sequence, from a number on.
Sums(f, s, n, from) == f = [i \in 0..n |-> IF i = 0 THEN from ELSE f[i - 1] + s[i]]

\* A function that sums up a sequence exists, whatever its length.
LEMMA SumExists ==
  ASSUME NEW s, NEW n \in Nat, NEW from
  PROVE  \E f : Sums(f, s, n, from)
  <1> DEFINE T == {k \in Nat : \E f : Sums(f, s, k, from)}
  <1>1. 0 \in T
    <2> DEFINE f == [i \in 0..0 |-> from]
    <2>1. f = [i \in 0..0 |-> IF i = 0 THEN from ELSE f[i - 1] + s[i]]
      OBVIOUS
    <2> QED
      BY <2>1 DEF Sums
  <1>2. ASSUME NEW k \in T PROVE k + 1 \in T
    <2>1. PICK f : Sums(f, s, k, from)
      OBVIOUS
    <2> DEFINE g == [i \in 0..k + 1 |-> IF i = k + 1 THEN f[k] + s[k + 1] ELSE f[i]]
               h == [i \in 0..k + 1 |-> IF i = 0 THEN from ELSE g[i - 1] + s[i]]
    <2>2. ASSUME NEW i \in 0..k + 1 PROVE g[i] = h[i]
      <3>1. CASE i = k + 1
        <4>1. k \in 0..k + 1 /\ k # k + 1 /\ i # 0 /\ i - 1 = k
          BY <3>1
        <4>2. g[k] = f[k] /\ g[i] = f[k] + s[k + 1]
          BY <3>1, <4>1
        <4>3. h[i] = g[i - 1] + s[i]
          BY <4>1
        <4> QED
          BY <3>1, <4>1, <4>2, <4>3
      <3>2. CASE i = 0
        <4>1. 0 \in 0..k /\ i # k + 1
          BY <3>2
        <4>2. f[0] = from
          BY <2>1, <4>1 DEF Sums
        <4> QED
          BY <3>2, <4>1, <4>2
      <3>3. CASE i # 0 /\ i # k + 1
        <4>1. i \in 0..k /\ i - 1 \in 0..k + 1 /\ i - 1 # k + 1
          BY <3>3
        <4>2. f[i] = f[i - 1] + s[i]
          BY <2>1, <3>3, <4>1 DEF Sums
        <4>3. g[i] = f[i] /\ g[i - 1] = f[i - 1]
          BY <3>3, <4>1
        <4>4. h[i] = g[i - 1] + s[i]
          BY <3>3
        <4> QED
          BY <4>2, <4>3, <4>4
      <3> QED
        BY <3>1, <3>2, <3>3
    <2>3. g = h
      <3> HIDE DEF g, h
      <3> SUFFICES g = [i \in 0..k + 1 |-> g[i]] /\ h = [i \in 0..k + 1 |-> h[i]]
        BY <2>2
      <3> QED
        BY DEF g, h
    <2>4. g = [i \in 0..k + 1 |-> IF i = 0 THEN from ELSE g[i - 1] + s[i]]
      BY <2>3
    <2> HIDE DEF g
    <2> QED
      BY <2>4 DEF Sums
  <1> QED
    BY <1>1, <1>2, FromZero, T \subseteq Nat

\* Each of its numbers is the one before and what the sequence has there.
SumsUp(f, s, n, from) ==
  /\ f \in [0..n -> Nat] /\ f[0] = from
  /\ \A i \in 1..n : f[i] = f[i - 1] + s[i]

\* What sums up numbers is numbers.
LEMMA SumIsNat ==
  ASSUME NEW n \in Nat, NEW s \in [1..n -> Nat], NEW from \in Nat, NEW f, Sums(f, s, n, from)
  PROVE  SumsUp(f, s, n, from)
  <1>1. f = [i \in 0..n |-> f[i]]
    BY DEF Sums
  <1>2. f[0] = from
    <2>1. 0 \in 0..n
      OBVIOUS
    <2> QED
      BY <2>1 DEF Sums
  <1>3. ASSUME NEW i \in 1..n PROVE f[i] = f[i - 1] + s[i]
    <2>1. i \in 0..n /\ i # 0
      OBVIOUS
    <2> QED
      BY <2>1 DEF Sums
  <1> DEFINE T == {k \in Nat : k <= n => f[k] \in Nat}
  <1>4. 0 \in T
    BY <1>2
  <1>5. ASSUME NEW k \in T PROVE k + 1 \in T
    <2> SUFFICES ASSUME k + 1 <= n PROVE f[k + 1] \in Nat
      OBVIOUS
    <2>1. k + 1 \in 1..n /\ k + 1 - 1 = k
      OBVIOUS
    <2>2. f[k + 1] = f[k] + s[k + 1]
      BY <1>3, <2>1
    <2> QED
      BY <2>1, <2>2
  <1>6. T = Nat
    BY <1>4, <1>5, FromZero, T \subseteq Nat
  <1>7. \A i \in 0..n : f[i] \in Nat
    BY <1>6
  <1> QED
    BY <1>1, <1>2, <1>3, <1>7 DEF SumsUp

\* Total is what such a function has at the sequence's end.
LEMMA TotalIs ==
  ASSUME NEW n \in Nat, NEW s \in [1..n -> Nat]
  PROVE  \E f : SumsUp(f, s, n, 0) /\ f[n] = Total(s)
  <1> DEFINE f == CHOOSE f : Sums(f, s, n, 0)
  <1>1. Sums(f, s, n, 0)
    BY SumExists
  <1>2. Len(s) = n
    OBVIOUS
  <1>3. Total(s) = f[n]
    BY <1>2 DEF Total, Sums
  <1> HIDE DEF f
  <1>4. SumsUp(f, s, n, 0)
    BY <1>1, SumIsNat
  <1> QED
    BY <1>3, <1>4

\* One sequence is nowhere above another, but for one place, where c bounds by how much.
Under(s, t, n, k, c) ==
  /\ \A i \in 1..n : i # k => s[i] <= t[i]
  /\ s[k] <= t[k] + c

\* A sequence that is not above another but by some at one place, or below it by
\* some there, has no more in all but by as much.
LEMMA TotalDiffers ==
  ASSUME NEW n \in Nat, NEW s \in [1..n -> Nat], NEW t \in [1..n -> Nat], NEW k \in 1..n, NEW c \in Int,
         Under(s, t, n, k, c)
  PROVE  Total(s) \in Nat /\ Total(t) \in Nat /\ Total(s) <= Total(t) + c
  <1>1. PICK f : SumsUp(f, s, n, 0) /\ f[n] = Total(s)
    BY TotalIs
  <1>2. PICK g : SumsUp(g, t, n, 0) /\ g[n] = Total(t)
    BY TotalIs
  <1>3. f \in [0..n -> Nat] /\ g \in [0..n -> Nat] /\ f[0] = 0 /\ g[0] = 0
    BY <1>1, <1>2 DEF SumsUp
  <1>4. \A i \in 1..n : f[i] = f[i - 1] + s[i]
    BY <1>1 DEF SumsUp
  <1>5. \A i \in 1..n : g[i] = g[i - 1] + t[i]
    BY <1>2 DEF SumsUp
  <1> DEFINE T == {i \in Nat : i <= n => (IF i < k THEN f[i] <= g[i] ELSE f[i] <= g[i] + c)}
  <1>6. 0 \in T
    BY <1>3
  <1>7. ASSUME NEW i \in Nat, i \in T PROVE i + 1 \in T
    <2>1. CASE ~(i + 1 <= n)
      BY <2>1
    <2>2. CASE i + 1 <= n
      <3>1. i + 1 \in 1..n /\ i + 1 - 1 = i /\ i \in 0..n /\ i <= n /\ k \in Nat
        BY <2>2
      <3>2. f[i + 1] = f[i] + s[i + 1]
        BY <1>4, <3>1
      <3>3. g[i + 1] = g[i] + t[i + 1]
        BY <1>5, <3>1
      <3>4. f[i] \in Nat /\ g[i] \in Nat /\ s[i + 1] \in Nat /\ t[i + 1] \in Nat
        BY <1>3, <3>1
      <3>5. IF i < k THEN f[i] <= g[i] ELSE f[i] <= g[i] + c
        BY <1>7, <3>1
      <3>6. IF i + 1 = k THEN s[i + 1] <= t[i + 1] + c ELSE s[i + 1] <= t[i + 1]
        BY <3>1 DEF Under
      <3> HIDE DEF T
      <3>7. CASE i + 1 < k
        <4>1. f[i] <= g[i] /\ s[i + 1] <= t[i + 1]
          BY <3>1, <3>5, <3>6, <3>7
        <4>2. f[i + 1] <= g[i + 1]
          BY <3>2, <3>3, <3>4, <4>1
        <4> QED
          BY <3>1, <3>7, <4>2 DEF T
      <3>8. CASE ~(i + 1 < k)
        <4>1. (f[i] <= g[i] /\ s[i + 1] <= t[i + 1] + c) \/ (f[i] <= g[i] + c /\ s[i + 1] <= t[i + 1])
          BY <3>1, <3>5, <3>6, <3>8
        <4>2. f[i + 1] <= g[i + 1] + c
          <5>1. PICK a \in Nat, b \in Nat, x \in Nat, y \in Nat :
                  a = f[i] /\ b = g[i] /\ x = s[i + 1] /\ y = t[i + 1]
            BY <3>4
          <5>2. (a <= b /\ x <= y + c) \/ (a <= b + c /\ x <= y)
            BY <4>1, <5>1
          <5>3. a + x <= b + y + c
            BY <5>2
          <5>4. f[i + 1] = a + x /\ g[i + 1] = b + y
            BY <3>2, <3>3, <5>1
          <5> QED
            BY <5>3, <5>4
        <4> QED
          BY <3>1, <3>8, <4>2 DEF T
      <3> QED
        BY <3>7, <3>8
    <2> QED
      BY <2>1, <2>2
  <1>8. T = Nat
    <2> HIDE DEF T
    <2>1. T \subseteq Nat
      BY DEF T
    <2> QED
      BY <1>6, <1>7, <2>1, FromZero
  <1>9. n \in 0..n /\ ~(n < k) /\ n <= n
    OBVIOUS
  <1>10. f[n] <= g[n] + c
    <2>1. n \in T
      <3> HIDE DEF T
      <3> QED
        BY <1>8
    <2> QED
      BY <1>9, <2>1
  <1> QED
    BY <1>1, <1>2, <1>3, <1>9, <1>10

\* A sequence that has something at one place only has no more in all.
LEMMA TotalOfOne ==
  ASSUME NEW n \in Nat, NEW s \in [1..n -> Nat], NEW k \in 1..n, \A i \in 1..n : i # k => s[i] = 0
  PROVE  Total(s) \in Nat /\ Total(s) <= s[k]
  <1>1. PICK f : SumsUp(f, s, n, 0) /\ f[n] = Total(s)
    BY TotalIs
  <1> DEFINE T == {i \in Nat : i <= n => (IF i < k THEN f[i] = 0 ELSE f[i] <= s[k])}
  <1>2. 0 \in T
    BY <1>1 DEF SumsUp
  <1>3. ASSUME NEW i \in T PROVE i + 1 \in T
    <2> SUFFICES ASSUME i + 1 <= n
                 PROVE  IF i + 1 < k THEN f[i + 1] = 0 ELSE f[i + 1] <= s[k]
      OBVIOUS
    <2>1. i + 1 \in 1..n /\ i + 1 - 1 = i /\ i \in 0..n
      OBVIOUS
    <2>2. f[i + 1] = f[i] + s[i + 1]
      BY <1>1, <2>1 DEF SumsUp
    <2>3. f[i] \in Nat /\ s[i + 1] \in Nat /\ s[k] \in Nat
      BY <1>1, <2>1 DEF SumsUp
    <2>4. IF i < k THEN f[i] = 0 ELSE f[i] <= s[k]
      BY <2>1
    <2>5. IF i + 1 = k THEN s[i + 1] = s[k] ELSE s[i + 1] = 0
      BY <2>1
    <2> QED
      BY <2>2, <2>3, <2>4, <2>5
  <1>4. T = Nat
    BY <1>2, <1>3, FromZero, T \subseteq Nat
  <1>5. n \in 0..n /\ ~(n < k) /\ n \in Nat
    OBVIOUS
  <1>6. f[n] <= s[k]
    BY <1>4, <1>5
  <1> QED
    BY <1>1, <1>5, <1>6 DEF SumsUp

-----------------------------------------------------------------------------
(* The calendar                                                            *)

\* The months' first days, of which the first is day 1 and the others follow.
LEMMA Calendar ==
  /\ Len(Months) \in Nat \ {0} /\ \A m \in 1..Len(Months) : Months[m] \in Nat \ {0}
  /\ FirstDay \in [1..Len(Months) + 1 -> Nat] /\ FirstDay[1] = 1
  /\ \A m \in 1..Len(Months) : FirstDay[m + 1] = FirstDay[m] + Months[m]
  <1> DEFINE n == Len(Months)
             first == CHOOSE first : first = [m \in 1..n + 1 |-> IF m = 1 THEN 1 ELSE first[m - 1] + Months[m - 1]]
  <1>1. n \in Nat \ {0} /\ Months \in [1..n -> Nat \ {0}]
    BY PolicyAssumption
  <1>2. PICK f : SumsUp(f, Months, n, 1)
    <2>1. PICK f : Sums(f, Months, n, 1)
      BY <1>1, SumExists
    <2>2. Months \in [1..n -> Nat] /\ 1 \in Nat /\ n \in Nat
      BY <1>1
    <2> QED
      BY <2>1, <2>2, SumIsNat
  <1>3. \E g : g = [m \in 1..n + 1 |-> IF m = 1 THEN 1 ELSE g[m - 1] + Months[m - 1]]
    <2> HIDE DEF n
    <2> DEFINE g == [m \in 1..n + 1 |-> f[m - 1]]
               h == [m \in 1..n + 1 |-> IF m = 1 THEN 1 ELSE g[m - 1] + Months[m - 1]]
    <2>1. ASSUME NEW m \in 1..n + 1 PROVE g[m] = h[m]
      <3>1. CASE m = 1
        BY <1>2, <3>1 DEF SumsUp
      <3>2. CASE m # 1
        <4>1. m - 1 \in 1..n /\ m - 1 \in 1..n + 1
          BY <1>1, <3>2
        <4>2. f[m - 1] = f[m - 1 - 1] + Months[m - 1]
          BY <1>2, <4>1 DEF SumsUp
        <4>3. g[m - 1] = f[m - 1 - 1] /\ g[m] = f[m - 1]
          BY <4>1
        <4>4. h[m] = g[m - 1] + Months[m - 1]
          BY <3>2
        <4> QED
          BY <4>2, <4>3, <4>4
      <3> QED
        BY <3>1, <3>2
    <2>2. g = h
      <3> HIDE DEF g, h
      <3> SUFFICES g = [m \in 1..n + 1 |-> g[m]] /\ h = [m \in 1..n + 1 |-> h[m]]
        BY <2>1
      <3> QED
        BY DEF g, h
    <2>3. g = [m \in 1..n + 1 |-> IF m = 1 THEN 1 ELSE g[m - 1] + Months[m - 1]]
      BY <2>2
    <2> HIDE DEF g
    <2> QED
      BY <2>3
  <1>4. FirstDay = first
    BY DEF FirstDay
  <1>5. first = [m \in 1..n + 1 |-> IF m = 1 THEN 1 ELSE first[m - 1] + Months[m - 1]]
    BY <1>3
  <1> HIDE DEF first, n
  <1>6. first[1] = 1
    BY <1>1, <1>5
  <1>7. ASSUME NEW m \in 1..n PROVE first[m + 1] = first[m] + Months[m]
    <2>1. m + 1 \in 1..n + 1 /\ m + 1 # 1 /\ m + 1 - 1 = m
      BY <1>1
    <2> DEFINE h == [k \in 1..n + 1 |-> IF k = 1 THEN 1 ELSE first[k - 1] + Months[k - 1]]
    <2>2. h[m + 1] = first[m + 1 - 1] + Months[m + 1 - 1]
      BY <2>1
    <2>3. first = h
      BY <1>5
    <2> HIDE DEF h
    <2> QED
      BY <2>1, <2>2, <2>3
  <1> DEFINE T == {k \in Nat : k <= n => first[k + 1] \in Nat}
  <1>8. 0 \in T
    BY <1>6
  <1>9. ASSUME NEW k \in Nat, k \in T PROVE k + 1 \in T
    <2>1. k + 1 <= n => k + 1 \in 1..n
      BY <1>1
    <2>2. k + 1 <= n => first[k + 1 + 1] = first[k + 1] + Months[k + 1] /\ Months[k + 1] \in Nat
      BY <1>1, <1>7, <2>1
    <2>3. k + 1 <= n => first[k + 1] \in Nat
      BY <1>1, <1>9
    <2> QED
      BY <2>2, <2>3
  <1>10. T = Nat
    <2> HIDE DEF T
    <2>1. T \subseteq Nat
      BY DEF T
    <2> QED
      BY <1>8, <1>9, <2>1, FromZero
  <1>11. ASSUME NEW m \in 1..n + 1 PROVE first[m] \in Nat
    <2>1. m - 1 \in Nat /\ m - 1 <= n /\ m - 1 + 1 = m
      BY <1>1
    <2>2. m - 1 \in T
      BY <1>10, <2>1
    <2> QED
      BY <2>1, <2>2
  <1>12. first \in [1..n + 1 -> Nat]
    BY <1>5, <1>11
  <1> QED
    BY <1>1, <1>4, <1>6, <1>7, <1>12 DEF n

\* A day before the last month's end is in one of the months before it.
LEMMA MonthFound ==
  ASSUME NEW d \in Nat, 1 <= d, d < FirstDay[Len(Months)]
  PROVE  /\ MonthOf(d) \in 1..Len(Months) - 1
         /\ FirstDay[MonthOf(d)] <= d /\ d < FirstDay[MonthOf(d) + 1]
  <1> DEFINE n == Len(Months)
             S == {k \in 1..n + 1 : d < FirstDay[k]}
  <1>1. n \in Nat \ {0} /\ FirstDay \in [1..n + 1 -> Nat] /\ FirstDay[1] = 1
    BY Calendar
  <1> HIDE DEF n
  <1>2. n \in S /\ S \subseteq Nat
    BY <1>1 DEF n
  <1>3. PICK k \in S : \A j \in S : k <= j
    BY <1>2, Least
  <1>4. k - 1 \in 1..n /\ FirstDay[k - 1] <= d /\ d < FirstDay[k - 1 + 1]
    <2>1. k \in 1..n + 1 /\ d < FirstDay[k] /\ k # 1
      BY <1>1
    <2>2. k - 1 \in 1..n + 1 /\ k - 1 \notin S /\ k - 1 + 1 = k /\ k <= n
      BY <1>1, <1>2, <1>3, <2>1
    <2> QED
      BY <1>1, <2>1, <2>2
  <1>5. MonthOf(d) \in 1..n /\ FirstDay[MonthOf(d)] <= d /\ d < FirstDay[MonthOf(d) + 1]
    BY <1>4 DEF MonthOf, n
  <1>6. MonthOf(d) # n
    BY <1>1, <1>5 DEF n
  <1> QED
    BY <1>1, <1>5, <1>6 DEF n

\* A period ends on a later day.
LEMMA AddPeriodLater ==
  ASSUME NEW d \in Nat, 1 <= d, d < FirstDay[Len(Months)], NEW period \in Periods, NEW anchor \in Nat \ {0}
  PROVE  AddPeriod(d, period, anchor) \in Nat /\ AddPeriod(d, period, anchor) > d
  <1>1. CASE period = "daily"
    BY <1>1 DEF AddPeriod
  <1>2. CASE period = "weekly"
    BY <1>2 DEF AddPeriod
  <1>3. CASE period = "monthly"
    <2> DEFINE m == MonthOf(d) + 1
               last == Min({anchor, Months[m]})
    <2>1. m \in 1..Len(Months) /\ FirstDay[m] \in Nat /\ d < FirstDay[m] /\ Months[m] \in Nat \ {0}
      <3>1. Len(Months) \in Nat /\ MonthOf(d) \in 1..Len(Months) - 1
        BY Calendar, MonthFound
      <3>2. m \in 1..Len(Months) /\ m \in 1..Len(Months) + 1
        BY <3>1
      <3> QED
        BY <3>2, Calendar, MonthFound
    <2> HIDE DEF m
    <2>2. last \in {anchor, Months[m]}
      <3>1. {anchor, Months[m]} \subseteq Nat /\ {anchor, Months[m]} # {}
        BY <2>1
      <3> QED
        BY <3>1, MinIn
    <2>3. last \in Nat \ {0}
      BY <2>1, <2>2
    <2>4. AddPeriod(d, period, anchor) = FirstDay[m] + last - 1
      BY <1>3 DEF AddPeriod, m
    <2> HIDE DEF last
    <2> QED
      BY <2>1, <2>3, <2>4
  <1> QED
    BY <1>1, <1>2, <1>3 DEF Periods

\* Days follow one another as moments do.
LEMMA DayOf ==
  /\ \A t \in Nat : Day(t) \in Nat /\ Midnight(Day(t)) <= t
  /\ \A s, t \in Nat : s <= t => Day(s) <= Day(t)
  /\ \A d \in Nat : Midnight(d) \in Nat /\ Day(Midnight(d)) = d
  /\ \A d \in Nat, t \in Nat : d <= Day(t) <=> Midnight(d) <= t
  <1>1. DayLen \in Nat \ {0}
    BY PolicyAssumption
  <1>2. ASSUME NEW t \in Nat PROVE Day(t) \in Nat /\ Day(t) * DayLen <= t /\ t < Day(t) * DayLen + DayLen
    BY <1>1 DEF Day
  <1>3. ASSUME NEW d \in Nat, NEW e \in Nat
        PROVE  /\ d < e => d * DayLen + DayLen <= e * DayLen
               /\ d <= e => d * DayLen <= e * DayLen
               /\ d * DayLen \in Nat
    BY <1>1
  <1>4. ASSUME NEW d \in Nat, NEW t \in Nat PROVE d <= Day(t) <=> d * DayLen <= t
    <2>1. Day(t) \in Nat /\ Day(t) * DayLen <= t /\ t < Day(t) * DayLen + DayLen
      BY <1>2
    <2>2. Day(t) < d => Day(t) * DayLen + DayLen <= d * DayLen
      BY <1>3, <2>1
    <2>3. d <= Day(t) => d * DayLen <= Day(t) * DayLen
      BY <1>3, <2>1
    <2>4. d * DayLen \in Nat /\ Day(t) * DayLen \in Nat
      BY <1>3, <2>1
    <2> QED
      BY <1>1, <2>1, <2>2, <2>3, <2>4
  <1>5. ASSUME NEW s \in Nat, NEW t \in Nat, s <= t PROVE Day(s) <= Day(t)
    <2>1. Day(s) \in Nat /\ Day(s) * DayLen <= s /\ Day(s) * DayLen \in Nat
      BY <1>2, <1>3
    <2>2. Day(s) * DayLen <= t
      BY <1>5, <2>1
    <2> QED
      BY <1>4, <2>1, <2>2
  <1>6. ASSUME NEW d \in Nat PROVE Day(d * DayLen) = d
    <2>1. d * DayLen \in Nat /\ d <= Day(d * DayLen)
      BY <1>3, <1>4
    <2>2. Day(d * DayLen) \in Nat /\ Day(d * DayLen) * DayLen <= d * DayLen
      BY <1>2, <2>1
    <2>3. d < Day(d * DayLen) => d * DayLen + DayLen <= Day(d * DayLen) * DayLen
      BY <1>3, <2>2
    <2>4. Day(d * DayLen) * DayLen \in Nat
      BY <1>3, <2>2
    <2> QED
      BY <1>1, <2>1, <2>2, <2>3, <2>4
  <1> QED
    BY <1>2, <1>3, <1>4, <1>5, <1>6 DEF Midnight

\* A moment's day is in the calendar, and not in its last month.
LEMMA MomentsIn ==
  ASSUME NEW t \in Moments
  PROVE  t \in Nat \ {0} /\ Day(t) \in Nat /\ 1 <= Day(t) /\ Day(t) < FirstDay[Len(Months)]
  <1> DEFINE last == FirstDay[Len(Months)]
  <1>1. last \in Nat
    BY Calendar
  <1> HIDE DEF last
  <1>2. Midnight(1) \in Nat /\ Midnight(last) \in Nat /\ 1 <= Midnight(1)
    <2>1. Midnight(1) = DayLen
      BY PolicyAssumption DEF Midnight
    <2>2. DayLen \in Nat \ {0}
      BY PolicyAssumption
    <2>3. Midnight(last) \in Nat
      BY <1>1, DayOf
    <2> QED
      BY <2>1, <2>2, <2>3
  <1>3. t \in Nat /\ Midnight(1) <= t /\ t < Midnight(last)
    BY <1>2 DEF Moments, last
  <1>4. Day(t) \in Nat /\ 1 <= Day(t)
    BY <1>3, DayOf, 1 \in Nat
  <1>5. ~(last <= Day(t))
    BY <1>1, <1>2, <1>3, DayOf
  <1> QED
    BY <1>1, <1>2, <1>3, <1>4, <1>5 DEF last

\* Between two moments there are moments only.
LEMMA MomentsBetween ==
  ASSUME NEW s \in Moments, NEW t \in Moments, NEW m \in Nat, s <= m, m <= t
  PROVE  m \in Moments
  <1>1. FirstDay[Len(Months)] \in Nat /\ 1 \in Nat
    BY Calendar
  <1>2. Midnight(1) \in Nat /\ Midnight(FirstDay[Len(Months)]) \in Nat
    BY <1>1, DayOf
  <1> QED
    BY <1>2 DEF Moments

-----------------------------------------------------------------------------
(* Periods roll forward                                                    *)

\* When a period that began at s ends.
EndOf(policy, user, s) == PeriodEnd(policy, [user EXCEPT !.start = s])

\* A period ends on a later day than it begins, or never.
LEMMA EndLater ==
  ASSUME NEW policy, NEW user \in UserEntry, NEW s \in {0} \union Moments, EndOf(policy, user, s) # Null
  PROVE  /\ s \in Moments
         /\ EndOf(policy, user, s) \in Nat /\ Day(EndOf(policy, user, s)) > Day(s) /\ EndOf(policy, user, s) > s
  <1> DEFINE u == [user EXCEPT !.start = s]
             first == Day(u.start)
             anchor == IF u.anchor = 0 THEN DayOfMonth(first) ELSE u.anchor
             next == AddPeriod(first, policy["trafficPeriod"], anchor)
  <1>1. u.start = s /\ u.anchor = user.anchor /\ user.anchor \in Nat
    BY DEF UserEntry
  <1>2. EndOf(policy, user, s) = IF policy["trafficPeriod"] \notin Periods \/ u.start = 0 THEN Null ELSE Midnight(next)
    BY DEF EndOf, PeriodEnd
  <1>3. policy["trafficPeriod"] \in Periods /\ s # 0 /\ EndOf(policy, user, s) = Midnight(next)
    BY <1>1, <1>2
  <1>4. s \in Moments /\ s \in Nat /\ first = Day(s) /\ first \in Nat /\ 1 <= first /\ first < FirstDay[Len(Months)]
    BY <1>1, <1>3, MomentsIn
  <1> HIDE DEF u, first
  <1>5. anchor \in Nat \ {0}
    <2>1. MonthOf(first) \in 1..Len(Months) - 1 /\ FirstDay[MonthOf(first)] <= first
      BY <1>4, MonthFound
    <2>2. Len(Months) \in Nat /\ FirstDay \in [1..Len(Months) + 1 -> Nat]
      BY Calendar
    <2>3. MonthOf(first) \in 1..Len(Months) + 1
      BY <2>1, <2>2
    <2>4. FirstDay[MonthOf(first)] \in Nat
      BY <2>2, <2>3
    <2>5. DayOfMonth(first) \in Nat \ {0}
      BY <1>4, <2>1, <2>4 DEF DayOfMonth
    <2> QED
      BY <1>1, <2>5
  <1> HIDE DEF anchor
  <1>6. next \in Nat /\ next > first
    BY <1>3, <1>4, <1>5, AddPeriodLater
  <1> HIDE DEF next
  <1>7. Midnight(next) \in Nat /\ Day(Midnight(next)) = next
    BY <1>6, DayOf
  <1>8. Midnight(next) > s
    <2>1. ~(next <= Day(s))
      BY <1>4, <1>6
    <2>2. ~(Midnight(next) <= s)
      BY <1>4, <1>6, <2>1, DayOf
    <2> QED
      BY <1>4, <1>7, <2>2
  <1> QED
    BY <1>3, <1>4, <1>6, <1>7, <1>8

\* What RollPeriod looks up: from where a period that began at s goes on.
Rolls(f, policy, user, t, S) ==
  f = [s \in S |-> LET end == EndOf(policy, user, s)
                   IN  IF end = Null THEN s ELSE IF end > t THEN s ELSE f[end]]

\* It exists, as each period ends later than it begins.
LEMMA RollsExist ==
  ASSUME NEW policy, NEW user \in UserEntry, NEW t \in Moments
  PROVE  \E f : Rolls(f, policy, user, t, {0} \union Moments)
  <1> DEFINE S == {0} \union Moments
             E(s) == EndOf(policy, user, s)
             Late(k) == {s \in S : s + k > t}
             T == {k \in Nat : \E f : Rolls(f, policy, user, t, Late(k))}
  <1>0. t \in Nat /\ \A s \in S : s \in Nat
    BY MomentsIn
  <1>1. ASSUME NEW s \in S, E(s) # Null, ~(E(s) > t) PROVE E(s) \in S /\ E(s) > s /\ E(s) \in Nat /\ E(s) <= t
    <2>1. s \in Moments /\ E(s) \in Nat /\ E(s) > s
      BY <1>1, EndLater
    <2>2. s <= E(s) /\ E(s) <= t
      BY <1>0, <1>1, <2>1
    <2>3. E(s) \in Moments
      BY <2>1, <2>2, MomentsBetween
    <2> QED
      BY <2>1, <2>2, <2>3
  <1>2. 0 \in T
    <2> DEFINE f == [s \in Late(0) |-> s]
               h == [s \in Late(0) |-> LET end == EndOf(policy, user, s)
                                       IN  IF end = Null THEN s ELSE IF end > t THEN s ELSE f[end]]
    <2>1. ASSUME NEW s \in Late(0) PROVE f[s] = h[s]
      <3>1. s \in S /\ s > t
        BY <1>0
      <3>2. E(s) # Null => E(s) > t
        BY <1>0, <1>1, <3>1
      <3> QED
        BY <3>2
    <2>2. f = h
      BY <2>1
    <2> QED
      BY <2>2 DEF Rolls
  <1>3. ASSUME NEW k \in Nat, k \in T PROVE k + 1 \in T
    <2>1. PICK f : Rolls(f, policy, user, t, Late(k))
      BY <1>3
    <2> DEFINE g == [s \in Late(k + 1) |-> IF E(s) = Null THEN s ELSE IF E(s) > t THEN s ELSE f[E(s)]]
               h == [s \in Late(k + 1) |-> LET end == EndOf(policy, user, s)
                                           IN  IF end = Null THEN s ELSE IF end > t THEN s ELSE g[end]]
    <2>2. ASSUME NEW s \in Late(k + 1) PROVE g[s] = h[s]
      <3>1. CASE E(s) = Null \/ E(s) > t
        BY <3>1
      <3>2. CASE E(s) # Null /\ ~(E(s) > t)
        <4>1. s \in S /\ s + (k + 1) > t /\ s \in Nat
          BY <1>0
        <4>2. E(s) \in S /\ E(s) > s /\ E(s) \in Nat
          BY <1>1, <3>2, <4>1
        <4>3. E(s) \in Late(k) /\ E(s) \in Late(k + 1)
          BY <1>0, <4>1, <4>2
        <4>4. f[E(s)] = IF E(E(s)) = Null THEN E(s) ELSE IF E(E(s)) > t THEN E(s) ELSE f[E(E(s))]
          BY <2>1, <4>3 DEF Rolls
        <4>5. g[E(s)] = f[E(s)]
          BY <4>3, <4>4
        <4>6. h[s] = g[E(s)] /\ g[s] = f[E(s)]
          BY <3>2
        <4> QED
          BY <4>5, <4>6
      <3> QED
        BY <3>1, <3>2
    <2>3. g = h
      <3> HIDE DEF g, h
      <3> SUFFICES g = [s \in Late(k + 1) |-> g[s]] /\ h = [s \in Late(k + 1) |-> h[s]]
        BY <2>2
      <3> QED
        BY DEF g, h
    <2>4. g = [s \in Late(k + 1) |-> LET end == EndOf(policy, user, s)
                                    IN  IF end = Null THEN s ELSE IF end > t THEN s ELSE g[end]]
      BY <2>3
    <2> HIDE DEF g
    <2>5. Rolls(g, policy, user, t, Late(k + 1))
      BY <2>4 DEF Rolls
    <2> QED
      BY <2>5
  <1>4. t + 1 \in T
    <2> HIDE DEF T
    <2>1. T \subseteq Nat
      BY DEF T
    <2>2. T = Nat
      BY <1>2, <1>3, <2>1, FromZero
    <2> QED
      BY <1>0, <2>2
  <1>5. Late(t + 1) = S
    <2>1. \A s \in S : s + (t + 1) > t
      BY <1>0
    <2> HIDE DEF S
    <2> QED
      BY <2>1, Zenon
  <1> QED
    BY <1>4, <1>5

\* Where a period of the user's that began at s has got to by t.
RollsTo(policy, user, t) == CHOOSE f : Rolls(f, policy, user, t, {0} \union Moments)

\* The user's entry when it has.
Moved(user, start) == IF start = user.start THEN user ELSE [user EXCEPT !.start = start, !.base = 0]

\* RollPeriod makes that of it.
LEMMA RollPeriodIs ==
  ASSUME NEW policy, NEW user, NEW t
  PROVE  RollPeriod(policy, user, t) = Moved(user, RollsTo(policy, user, t)[user.start])
  BY DEF RollPeriod, Moved, RollsTo, Rolls, EndOf

\* It stays where it has no end, or none by t, and goes on from its end otherwise.
LEMMA RollsToIs ==
  ASSUME NEW policy, NEW user \in UserEntry, NEW t \in Moments, NEW s \in {0} \union Moments
  PROVE  /\ EndOf(policy, user, s) = Null \/ EndOf(policy, user, s) > t => RollsTo(policy, user, t)[s] = s
         /\ EndOf(policy, user, s) # Null /\ ~(EndOf(policy, user, s) > t) =>
              RollsTo(policy, user, t)[s] = RollsTo(policy, user, t)[EndOf(policy, user, s)]
  <1> DEFINE f == RollsTo(policy, user, t)
  <1>1. Rolls(f, policy, user, t, {0} \union Moments)
    BY RollsExist DEF RollsTo
  <1> HIDE DEF f
  <1>2. f[s] = IF EndOf(policy, user, s) = Null THEN s
               ELSE IF EndOf(policy, user, s) > t THEN s ELSE f[EndOf(policy, user, s)]
    BY <1>1 DEF Rolls
  <1> QED
    BY <1>2 DEF f

\* A period that ends by t ends at a moment, later than it begins.
LEMMA EndsByThen ==
  ASSUME NEW policy, NEW user \in UserEntry, NEW t \in Moments, NEW s \in {0} \union Moments,
         EndOf(policy, user, s) # Null, ~(EndOf(policy, user, s) > t)
  PROVE  /\ EndOf(policy, user, s) \in {0} \union Moments /\ EndOf(policy, user, s) \in Nat
         /\ EndOf(policy, user, s) > s /\ EndOf(policy, user, s) <= t
  <1>1. t \in Nat /\ s \in Nat
    BY MomentsIn
  <1>2. s \in Moments /\ EndOf(policy, user, s) \in Nat /\ EndOf(policy, user, s) > s
    BY EndLater
  <1>3. s <= EndOf(policy, user, s) /\ EndOf(policy, user, s) <= t
    BY <1>1, <1>2
  <1>4. EndOf(policy, user, s) \in Moments
    BY <1>2, <1>3, MomentsBetween
  <1> QED
    BY <1>2, <1>3, <1>4

\* What holds where s is past t, and at s if it does where a period that began at s and
\* ended by t goes on, holds of every moment.
LEMMA ByPeriods ==
  ASSUME NEW policy, NEW user \in UserEntry, NEW t \in Moments, NEW A,
         \A s \in {0} \union Moments :
           (EndOf(policy, user, s) # Null /\ ~(EndOf(policy, user, s) > t) => EndOf(policy, user, s) \in A) => s \in A
  PROVE  {0} \union Moments \subseteq A
  <1> DEFINE S == {0} \union Moments
             E(s) == EndOf(policy, user, s)
             T == {k \in Nat : \A s \in S : s + k > t => s \in A}
  <1>0. t \in Nat /\ \A s \in S : s \in Nat
    BY MomentsIn
  <1>1. ASSUME NEW s \in S, E(s) # Null, ~(E(s) > t) PROVE E(s) \in S /\ E(s) \in Nat /\ E(s) > s /\ E(s) <= t
    BY <1>1, EndsByThen
  <1>2. \A s \in S : (E(s) # Null /\ ~(E(s) > t) => E(s) \in A) => s \in A
    OBVIOUS
  <1> HIDE DEF S, E
  <1>3. 0 \in T
    <2>1. ASSUME NEW s \in S, s + 0 > t PROVE s \in A
      <3>1. ~(E(s) # Null /\ ~(E(s) > t))
        BY <1>0, <1>1, <2>1
      <3> QED
        BY <1>2, <3>1
    <2> QED
      BY <2>1
  <1>4. ASSUME NEW k \in Nat, k \in T PROVE k + 1 \in T
    <2>1. ASSUME NEW s \in S, s + (k + 1) > t PROVE s \in A
      <3>1. ASSUME E(s) # Null, ~(E(s) > t) PROVE E(s) \in A
        <4>1. E(s) \in S /\ E(s) \in Nat /\ E(s) > s /\ E(s) <= t
          BY <1>1, <3>1
        <4>2. E(s) + k > t
          BY <1>0, <2>1, <4>1
        <4> QED
          BY <1>4, <4>1, <4>2
      <3> QED
        BY <1>2, <3>1
    <2> QED
      BY <2>1
  <1>5. T = Nat
    <2> HIDE DEF T
    <2>1. T \subseteq Nat
      BY DEF T
    <2> QED
      BY <1>3, <1>4, <2>1, FromZero
  <1>6. ASSUME NEW s \in S PROVE s \in A
    <2>1. s + (t + 1) > t /\ t + 1 \in Nat
      BY <1>0
    <2>2. t + 1 \in T
      BY <1>5, <2>1
    <2> QED
      BY <2>1, <2>2
  <1> QED
    BY <1>6 DEF S

\* A period that is rolled stays as it is, or begins again on a later day, up to now.
LEMMA RollForward ==
  ASSUME NEW policy, NEW user \in UserEntry, NEW t \in Moments
  PROVE  LET rolled == RollPeriod(policy, user, t)
         IN  \/ rolled = user
             \/ /\ rolled \in UserEntry /\ user.start # 0 /\ rolled.base = 0 /\ rolled.anchor = user.anchor
                /\ rolled.start \in Moments /\ rolled.start > user.start /\ rolled.start <= t
                /\ Day(rolled.start) > Day(user.start)
  <1> DEFINE S == {0} \union Moments
             E(s) == EndOf(policy, user, s)
             f == RollsTo(policy, user, t)
             A == {s \in S : /\ f[s] \in S
                             /\ \/ f[s] = s
                                \/ s # 0 /\ f[s] # 0 /\ f[s] > s /\ f[s] <= t /\ Day(f[s]) > Day(s)}
  <1>1. t \in Nat /\ \A s \in S : s \in Nat /\ Day(s) \in Nat
    BY MomentsIn, DayOf
  <1>2. RollPeriod(policy, user, t) = Moved(user, f[user.start])
    BY RollPeriodIs
  <1>3. ASSUME NEW s \in S
        PROVE  /\ E(s) = Null \/ E(s) > t => f[s] = s
               /\ E(s) # Null /\ ~(E(s) > t) => f[s] = f[E(s)]
    BY RollsToIs
  <1>4. ASSUME NEW s \in S, E(s) # Null, ~(E(s) > t)
        PROVE  E(s) \in S /\ E(s) > s /\ E(s) \in Nat /\ E(s) <= t /\ Day(E(s)) > Day(s) /\ s # 0
    <2>1. s \in Moments /\ Day(E(s)) > Day(s)
      BY <1>4, EndLater
    <2>2. s # 0
      BY <2>1, MomentsIn
    <2> QED
      BY <1>4, <2>1, <2>2, EndsByThen
  <1> HIDE DEF f
  <1>5. S \subseteq A
    <2>1. ASSUME NEW s \in S, E(s) # Null /\ ~(E(s) > t) => E(s) \in A PROVE s \in A
      <3> HIDE DEF E, S
      <3>1. CASE E(s) = Null \/ E(s) > t
        BY <1>3, <2>1, <3>1
      <3>2. CASE E(s) # Null /\ ~(E(s) > t)
        <4>1. E(s) \in S /\ E(s) > s /\ E(s) \in Nat /\ E(s) <= t /\ Day(E(s)) > Day(s) /\ s # 0
          BY <1>4, <2>1, <3>2
        <4>2. f[s] = f[E(s)] /\ f[s] \in S
          BY <1>3, <2>1, <3>2
        <4>3. f[s] \in Nat /\ s \in Nat /\ Day(s) \in Nat /\ Day(f[s]) \in Nat /\ Day(E(s)) \in Nat
          BY <1>1, <2>1, <4>1, <4>2
        <4>4. CASE f[E(s)] = E(s)
          <5>1. f[s] = E(s)
            BY <4>2, <4>4
          <5> QED
            BY <2>1, <4>1, <4>3, <5>1
        <4>5. CASE f[E(s)] # 0 /\ f[E(s)] > E(s) /\ f[E(s)] <= t /\ Day(f[E(s)]) > Day(E(s))
          <5>1. f[s] # 0 /\ f[s] > E(s) /\ f[s] <= t /\ Day(f[s]) > Day(E(s))
            BY <4>2, <4>5
          <5> QED
            BY <2>1, <4>1, <4>2, <4>3, <5>1
        <4> QED
          BY <2>1, <3>2, <4>4, <4>5
      <3> QED
        BY <3>1, <3>2
    <2> HIDE DEF A
    <2> QED
      BY <2>1, ByPeriods
  <1>6. user.start \in S
    BY DEF UserEntry
  <1>7. /\ f[user.start] \in S
        /\ \/ f[user.start] = user.start
           \/ /\ user.start # 0 /\ f[user.start] # 0 /\ f[user.start] > user.start
              /\ f[user.start] <= t /\ Day(f[user.start]) > Day(user.start)
    BY <1>5, <1>6
  <1>8. CASE f[user.start] = user.start
    BY <1>2, <1>8 DEF Moved
  <1>9. CASE f[user.start] # user.start
    <2> DEFINE rolled == [user EXCEPT !.start = f[user.start], !.base = 0]
    <2>1. rolled.start = f[user.start] /\ rolled.base = 0 /\ rolled.anchor = user.anchor
      BY DEF UserEntry
    <2>2. rolled \in UserEntry
      BY <1>7 DEF UserEntry, S
    <2>3. f[user.start] \in Moments
      BY <1>7, <1>9 DEF S
    <2> HIDE DEF rolled
    <2>4. RollPeriod(policy, user, t) = rolled
      BY <1>2, <1>9 DEF Moved, rolled
    <2> QED
      BY <1>7, <1>9, <2>1, <2>2, <2>3, <2>4
  <1> QED
    BY <1>8, <1>9

\* roll_period goes as far as there is to go: what it leaves has no end, or ends past now
\* (inbound_policy.py:495).
THEOREM RollReaches ==
  ASSUME NEW policy, NEW user \in UserEntry, NEW t \in Moments
  PROVE  LET rolled == RollPeriod(policy, user, t)
         IN  PeriodEnd(policy, rolled) = Null \/ PeriodEnd(policy, rolled) > t
  <1> DEFINE S == {0} \union Moments
             E(s) == EndOf(policy, user, s)
             f == RollsTo(policy, user, t)
             A == {s \in S : E(f[s]) = Null \/ E(f[s]) > t}
  <1>1. ASSUME NEW s \in S
        PROVE  /\ E(s) = Null \/ E(s) > t => f[s] = s
               /\ E(s) # Null /\ ~(E(s) > t) => f[s] = f[E(s)]
    BY RollsToIs
  <1>2. RollPeriod(policy, user, t) = Moved(user, f[user.start])
    BY RollPeriodIs
  <1> HIDE DEF f
  <1>3. S \subseteq A
    <2>1. ASSUME NEW s \in S, E(s) # Null /\ ~(E(s) > t) => E(s) \in A PROVE s \in A
      <3> HIDE DEF E
      <3>1. CASE E(s) = Null \/ E(s) > t
        <4>1. f[s] = s
          BY <1>1, <3>1
        <4> QED
          BY <3>1, <4>1
      <3>2. CASE E(s) # Null /\ ~(E(s) > t)
        <4>1. f[s] = f[E(s)]
          BY <1>1, <3>2
        <4> QED
          BY <2>1, <3>2, <4>1
      <3> QED
        BY <3>1, <3>2
    <2> HIDE DEF A
    <2> QED
      BY <2>1, ByPeriods
  <1>4. user.start \in S
    BY DEF UserEntry
  <1>5. E(f[user.start]) = Null \/ E(f[user.start]) > t
    BY <1>3, <1>4
  <1>6. PeriodEnd(policy, RollPeriod(policy, user, t)) = E(f[user.start])
    <2> DEFINE rolled == RollPeriod(policy, user, t)
               moved == [user EXCEPT !.start = f[user.start]]
    <2>1. rolled.start = f[user.start] /\ rolled.anchor = user.anchor
      BY <1>2 DEF UserEntry, Moved
    <2>2. moved.start = f[user.start] /\ moved.anchor = user.anchor
      BY DEF UserEntry
    <2>3. E(f[user.start]) = PeriodEnd(policy, moved)
      BY DEF EndOf
    <2> HIDE DEF rolled, moved, E
    <2>4. PeriodEnd(policy, rolled) = PeriodEnd(policy, moved)
      BY <2>1, <2>2 DEF PeriodEnd
    <2> QED
      BY <2>3, <2>4 DEF rolled
  <1> QED
    BY <1>5, <1>6

\* Ends depend on where a period begins and on the anchor alone.
LEMMA SameEnds ==
  ASSUME NEW policy, NEW user \in UserEntry, NEW other \in UserEntry, other.anchor = user.anchor, NEW s
  PROVE  EndOf(policy, other, s) = EndOf(policy, user, s)
  <1> DEFINE u == [user EXCEPT !.start = s]
             o == [other EXCEPT !.start = s]
  <1>1. u.start = s /\ u.anchor = user.anchor /\ o.start = s /\ o.anchor = user.anchor
    BY DEF UserEntry
  <1>2. EndOf(policy, other, s) = PeriodEnd(policy, o) /\ EndOf(policy, user, s) = PeriodEnd(policy, u)
    BY DEF EndOf
  <1> HIDE DEF u, o
  <1> QED
    BY <1>1, <1>2 DEF PeriodEnd

\* It does not matter on which occasions a period was rolled: rolled at one time and again at a
\* later, it is what rolling it then alone makes of it (roll_period, inbound_policy.py:495; tick).
THEOREM RolledTwice ==
  ASSUME NEW policy, NEW user \in UserEntry, NEW first \in Moments, NEW t \in Moments, first <= t
  PROVE  RollPeriod(policy, RollPeriod(policy, user, first), t) = RollPeriod(policy, user, t)
  <1> DEFINE S == {0} \union Moments
             rolled == RollPeriod(policy, user, first)
             E(s) == EndOf(policy, user, s)
             f == RollsTo(policy, user, first)
             g == RollsTo(policy, user, t)
             h == RollsTo(policy, rolled, t)
             A == {s \in S : h[f[s]] = g[s]}
  <1>1. rolled \in UserEntry /\ rolled.anchor = user.anchor
    <2>1. \/ rolled = user
          \/ rolled \in UserEntry /\ rolled.anchor = user.anchor
      BY RollForward
    <2> HIDE DEF rolled
    <2> QED
      BY <2>1
  <1>2. rolled = Moved(user, f[user.start])
    BY RollPeriodIs
  <1>3. ASSUME NEW s \in S
        PROVE  /\ E(s) = Null \/ E(s) > first => f[s] = s
               /\ E(s) # Null /\ ~(E(s) > first) => f[s] = f[E(s)]
    BY RollsToIs
  <1>4. /\ RollPeriod(policy, user, t) = Moved(user, g[user.start])
        /\ \A s \in S : /\ E(s) = Null \/ E(s) > t => g[s] = s
                        /\ E(s) # Null /\ ~(E(s) > t) => g[s] = g[E(s)]
    BY RollPeriodIs, RollsToIs
  <1>5. \/ RollPeriod(policy, rolled, t) = rolled
        \/ /\ RollPeriod(policy, rolled, t).start > rolled.start
           /\ RollPeriod(policy, rolled, t).start \in Moments
    <2> HIDE DEF rolled
    <2> QED
      BY <1>1, RollForward
  <1>6. \/ rolled = user
        \/ rolled.start > user.start /\ rolled.start \in Moments
    BY RollForward
  <1> HIDE DEF rolled
  <1>7. RollPeriod(policy, rolled, t) = Moved(rolled, h[rolled.start])
    BY RollPeriodIs
  <1>8. ASSUME NEW s \in S
        PROVE  EndOf(policy, rolled, s) = E(s)
    BY <1>1, SameEnds
  <1>9. ASSUME NEW s \in S
        PROVE  /\ E(s) = Null \/ E(s) > t => h[s] = s
               /\ E(s) # Null /\ ~(E(s) > t) => h[s] = h[E(s)]
    <2>1. /\ EndOf(policy, rolled, s) = Null \/ EndOf(policy, rolled, s) > t => h[s] = s
          /\ EndOf(policy, rolled, s) # Null /\ ~(EndOf(policy, rolled, s) > t) => h[s] = h[EndOf(policy, rolled, s)]
      BY <1>1, RollsToIs
    <2> HIDE DEF h
    <2> QED
      BY <1>8, <2>1
  <1>10. first \in Nat /\ t \in Nat /\ \A s \in S : s \in Nat
    BY MomentsIn
  <1>11. ASSUME NEW s \in S, E(s) # Null, ~(E(s) > t) PROVE E(s) \in S /\ E(s) \in Nat /\ E(s) > s
    BY <1>11, EndsByThen
  <1>12. ASSUME NEW s \in S, E(s) # Null PROVE E(s) \in Nat /\ E(s) > s
    BY <1>12, EndLater
  <1> HIDE DEF f, g, h
  <1>13. S \subseteq A
    <2>1. ASSUME NEW s \in S, E(s) # Null /\ ~(E(s) > t) => E(s) \in A PROVE s \in A
      <3> HIDE DEF E, S
      <3>1. CASE E(s) = Null \/ E(s) > t
        <4>1. E(s) = Null \/ E(s) > first
          BY <1>10, <1>12, <2>1, <3>1
        <4>2. f[s] = s /\ g[s] = s /\ h[s] = s
          BY <1>3, <1>4, <1>9, <2>1, <3>1, <4>1
        <4> QED
          BY <2>1, <4>2
      <3>2. CASE E(s) # Null /\ ~(E(s) > t)
        <4>1. g[s] = g[E(s)] /\ h[s] = h[E(s)] /\ h[f[E(s)]] = g[E(s)]
          BY <1>4, <1>9, <2>1, <3>2
        <4>2. CASE E(s) > first
          <5>1. E(s) \in S /\ (E(E(s)) = Null \/ E(E(s)) > first)
            <6>1. E(s) \in S /\ E(s) \in Nat
              BY <1>11, <2>1, <3>2
            <6>2. E(E(s)) # Null => E(E(s)) \in Nat /\ E(E(s)) > E(s)
              BY <1>12, <6>1
            <6> QED
              BY <1>10, <4>2, <6>1, <6>2
          <5>2. f[s] = s /\ f[E(s)] = E(s)
            BY <1>3, <2>1, <4>2, <5>1
          <5> QED
            BY <2>1, <4>1, <5>2
        <4>3. CASE ~(E(s) > first)
          <5>1. f[s] = f[E(s)]
            BY <1>3, <2>1, <3>2, <4>3
          <5> QED
            BY <2>1, <4>1, <5>1
        <4> QED
          BY <4>2, <4>3
      <3> QED
        BY <3>1, <3>2
    <2> HIDE DEF A
    <2> QED
      BY <2>1, ByPeriods
  <1>14. user.start \in S /\ user.start \in Nat
    BY MomentsIn DEF UserEntry
  <1>15. h[f[user.start]] = g[user.start]
    BY <1>13, <1>14
  <1>16. CASE f[user.start] = user.start
    <2>1. rolled = user
      BY <1>2, <1>16 DEF Moved
    <2> QED
      BY <2>1 DEF rolled
  <1>17. CASE f[user.start] # user.start
    <2>1. rolled = [user EXCEPT !.start = f[user.start], !.base = 0]
      BY <1>2, <1>17 DEF Moved
    <2>2. rolled.start = f[user.start] /\ rolled # user
      BY <1>17, <2>1 DEF UserEntry
    <2>3. f[user.start] > user.start /\ f[user.start] \in Nat
      BY <1>6, <2>2, MomentsIn
    <2>4. RollPeriod(policy, rolled, t) = Moved(rolled, g[user.start])
      BY <1>7, <1>15, <2>2
    <2>5. g[user.start] # user.start
      <3>1. CASE g[user.start] = f[user.start]
        BY <1>17, <3>1
      <3>2. CASE g[user.start] # f[user.start]
        <4>1. RollPeriod(policy, rolled, t) = [rolled EXCEPT !.start = g[user.start], !.base = 0]
          BY <2>2, <2>4, <3>2 DEF Moved
        <4>2. RollPeriod(policy, rolled, t).start = g[user.start]
          BY <1>1, <4>1 DEF UserEntry
        <4>3. g[user.start] # rolled.start
          BY <2>2, <3>2
        <4>4. g[user.start] > f[user.start] /\ g[user.start] \in Nat
          BY <1>5, <2>2, <4>2, <4>3, MomentsIn
        <4> QED
          BY <1>14, <2>3, <4>4
      <3> QED
        BY <3>1, <3>2
    <2>6. Moved(rolled, g[user.start]) = Moved(user, g[user.start])
      BY <2>1, <2>2, <2>5 DEF Moved, UserEntry
    <2> QED
      BY <1>4, <2>4, <2>6 DEF rolled
  <1> QED
    BY <1>16, <1>17

-----------------------------------------------------------------------------
(* Policies as they are stored                                             *)

\* An amount is positive, or none, or refused.
LEMMA AmountIs ==
  ASSUME NEW raw \in Written
  PROVE  ParseAmount(raw) \in Amount \union {Bad}
  <1>1. CASE raw.form = "none"
    BY <1>1 DEF ParseAmount, Amount
  <1>2. CASE raw.form = "number"
    <2>1. raw.n \in Int
      BY <1>2 DEF Written, Raw
    <2> QED
      BY <1>2, <2>1 DEF ParseAmount, Amount
  <1>3. CASE raw.form = "text"
    <2>1. raw.tenths \in Nat
      BY <1>3 DEF Written, Raw
    <2>2. CASE raw.unit \notin DOMAIN SizeUnits
      BY <1>3, <2>2 DEF ParseAmount
    <2>3. CASE raw.unit \in DOMAIN SizeUnits
      <3>1. SizeUnits[raw.unit] \in Nat
        BY <2>3, PolicyAssumption
      <3> DEFINE size == SizeUnits[raw.unit]
                 product == raw.tenths * size
      <3>2. product \in Nat
        <4> HIDE DEF size
        <4>1. size \in Nat
          BY <3>1 DEF size
        <4> QED
          BY <2>1, <4>1
      <3> HIDE DEF product
      <3>3. product \div 10 \in Nat
        BY <3>2
      <3>4. ParseAmount(raw) = IF product \div 10 = 0 THEN Null ELSE product \div 10
        BY <1>3, <2>3 DEF ParseAmount, product
      <3> QED
        BY <3>3, <3>4 DEF Amount
    <2> QED
      BY <2>2, <2>3
  <1>4. CASE raw.form \notin {"none", "number", "text"}
    BY <1>4 DEF ParseAmount
  <1> QED
    BY <1>1, <1>2, <1>3, <1>4

\* So is a duration, whatever units it comes in.
LEMMA DurationIs ==
  ASSUME NEW raw \in Written
  PROVE  ParseDuration(raw) \in Amount \union {Bad}
  <1>1. CASE raw.form = "none"
    BY <1>1 DEF ParseDuration, Amount
  <1>2. CASE raw.form = "number"
    <2>1. raw.n \in Int
      BY <1>2 DEF Written, Raw
    <2> QED
      BY <1>2, <2>1 DEF ParseDuration, Amount
  <1>3. CASE raw.form \in {"span", "relative"}
    <2>1. raw.n \in Nat
      BY <1>3 DEF Written, Raw
    <2>2. CASE raw.unit \notin DOMAIN SpanUnits
      BY <1>3, <2>2 DEF ParseDuration
    <2>3. CASE raw.unit \in DOMAIN SpanUnits
      <3> DEFINE unit == SpanUnits[raw.unit]
                 n == raw.n
      <3>1. unit \in Nat \ {0} /\ n \in Nat
        BY <2>1, <2>3, PolicyAssumption
      <3>2. ParseDuration(raw) = IF n = 0 THEN Null ELSE n * unit
        BY <1>3, <2>3 DEF ParseDuration
      <3> HIDE DEF unit, n
      <3>3. n # 0 => n * unit \in Nat \ {0}
        BY <3>1
      <3> QED
        BY <3>2, <3>3 DEF Amount
    <2> QED
      BY <2>2, <2>3
  <1>4. CASE raw.form \notin {"none", "number", "span", "relative"}
    BY <1>4 DEF ParseDuration
  <1> QED
    BY <1>1, <1>2, <1>3, <1>4

\* A time is a number, or none, or refused.
LEMMA TimeIs ==
  ASSUME NEW raw \in Written, NEW moment \in Nat
  PROVE  ParseTime(raw, moment) \in Int \union {Null, Bad}
  <1>0. DayLen \in Nat
    BY PolicyAssumption
  <1>1. CASE raw.form = "none"
    BY <1>1 DEF ParseTime
  <1>2. CASE raw.form = "number"
    <2>1. raw.n \in Int
      BY <1>2 DEF Written, Raw
    <2> QED
      BY <1>2, <2>1 DEF ParseTime
  <1>3. CASE raw.form = "date"
    <2>1. raw.n \in Nat
      BY <1>3 DEF Written, Raw
    <2>2. (raw.n + 1) * DayLen \in Int
      BY <1>0, <2>1
    <2> QED
      BY <1>3, <2>2 DEF ParseTime
  <1>4. CASE raw.form = "relative"
    <2>1. raw.n \in Nat
      BY <1>4 DEF Written, Raw
    <2>2. CASE raw.unit \notin DOMAIN SpanUnits
      BY <1>4, <2>2 DEF ParseTime
    <2>3. CASE raw.unit \in DOMAIN SpanUnits
      <3>1. SpanUnits[raw.unit] \in Nat
        BY <2>3, PolicyAssumption
      <3>2. moment + raw.n * SpanUnits[raw.unit] \in Int
        BY <2>1, <3>1
      <3> QED
        BY <1>4, <2>3, <3>2 DEF ParseTime
    <2> QED
      BY <2>2, <2>3
  <1>5. CASE raw.form \notin {"none", "number", "date", "relative"}
    BY <1>5 DEF ParseTime
  <1> QED
    BY <1>1, <1>2, <1>3, <1>4, <1>5

\* normalize() writes what the file keeps of a field, or refuses.
LEMMA NormalIs ==
  ASSUME NEW f \in Fields, NEW raw \in Written, NEW moment \in Nat
  PROVE  NormalField(f, raw, moment) \in Stored(f) \union {Bad}
  <1>1. CASE f = "enabled"
    <2>1. raw.form = "flag" => raw.on \in BOOLEAN
      BY DEF Written, Raw
    <2> QED
      BY <1>1, <2>1 DEF NormalField, Stored
  <1>2. CASE f = "expiresAt"
    <2> DEFINE t == IF raw.form = "number" /\ raw.n = 0 THEN Null ELSE ParseTime(raw, moment)
    <2>1. t \in Int \union {Null, Bad}
      BY TimeIs
    <2>2. NormalField(f, raw, moment) = IF t \in {Null, Bad} THEN t ELSE IF 0 < t /\ t < MaxTime THEN t ELSE Bad
      BY <1>2 DEF NormalField
    <2> HIDE DEF t
    <2>3. Stored(f) = {Null} \union {x \in Nat : 0 < x /\ x < MaxTime}
      BY <1>2 DEF Stored
    <2> QED
      BY <2>1, <2>2, <2>3
  <1>3. CASE f = "expiresAfter"
    <2> DEFINE d == ParseDuration(raw)
    <2>1. d \in Amount \union {Bad}
      BY DurationIs
    <2>2. NormalField(f, raw, moment) = IF d \in {Null, Bad} THEN d ELSE IF d >= MaxTime THEN Bad ELSE d
      BY <1>3 DEF NormalField
    <2> HIDE DEF d
    <2>3. Stored(f) = {Null} \union {x \in Nat : 0 < x /\ x < MaxTime} /\ MaxTime \in Nat
      BY <1>3, PolicyAssumption DEF Stored
    <2> QED
      BY <2>1, <2>2, <2>3 DEF Amount
  <1>4. CASE f = "trafficPeriod"
    <2>1. raw.form = "period" => raw.period \in Periods
      BY DEF Written, Raw
    <2>2. Stored(f) = {Null} \union Periods
      BY <1>4 DEF Stored
    <2>3. NormalField(f, raw, moment) = IF raw.form = "none" THEN Null
                                     ELSE IF raw.form = "period" THEN raw.period ELSE Bad
      BY <1>4 DEF NormalField
    <2> QED
      BY <2>1, <2>2, <2>3
  <1>5. CASE f = "ipLimit"
    <2>1. raw.form = "number" => raw.n \in Int
      BY DEF Written, Raw
    <2>2. Stored(f) = Amount
      BY <1>5 DEF Stored
    <2>3. NormalField(f, raw, moment) = IF raw.form = "none" THEN Null
                                     ELSE IF raw.form = "number" /\ raw.n >= 0
                                          THEN (IF raw.n = 0 THEN Null ELSE raw.n) ELSE Bad
      BY <1>5 DEF NormalField
    <2> QED
      BY <2>1, <2>2, <2>3 DEF Amount
  <1>6. CASE f = "trafficLimit"
    <2>1. Stored(f) = Amount /\ NormalField(f, raw, moment) = ParseAmount(raw)
      BY <1>6 DEF Stored, NormalField
    <2> QED
      BY <2>1, AmountIs
  <1>7. CASE f = "speedLimit"
    <2> DEFINE up   == ParseAmount(IF raw.form = "pair" THEN raw.up ELSE raw)
               down == ParseAmount(IF raw.form = "pair" THEN raw.down ELSE raw)
    <2>1. raw.form = "pair" => raw.up \in Written /\ raw.down \in Written
      BY DEF Written, Raw
    <2>2. up \in Amount \union {Bad} /\ down \in Amount \union {Bad}
      BY <2>1, AmountIs
    <2>3. NormalField(f, raw, moment) = IF Bad \in {up, down} THEN Bad
                                     ELSE IF up = Null /\ down = Null THEN Null ELSE [up |-> up, down |-> down]
      BY <1>7 DEF NormalField, ParseSpeed
    <2>4. Stored(f) = {Null} \union Speeds
      BY <1>7 DEF Stored
    <2> HIDE DEF up, down
    <2> QED
      BY <2>2, <2>3, <2>4 DEF Speeds
  <1> QED
    BY <1>1, <1>2, <1>3, <1>4, <1>5, <1>6, <1>7 DEF Fields

\* A value that the file keeps has no 0 in it.
LEMMA NoZeros ==
  ASSUME NEW entry, NEW g \in DOMAIN entry, g \in Fields, entry[g] \in Stored(g)
  PROVE  ZeroLimits(entry)[g] = entry[g]
  <1>1. CASE g = "trafficLimit"
    <2>1. entry[g] \in Amount
      BY <1>1 DEF Stored
    <2>2. ZeroLimits(entry)[g] = IF entry[g] = 0 THEN Null ELSE entry[g]
      BY <1>1 DEF ZeroLimits
    <2>3. entry[g] # 0
      BY <2>1, PolicyAssumption DEF Amount
    <2> QED
      BY <2>2, <2>3
  <1>2. CASE g = "speedLimit"
    <2> DEFINE s == entry[g]
               Zero(v) == IF v = 0 THEN Null ELSE v
    <2>1. s \in {Null} \union Speeds
      BY <1>2 DEF Stored
    <2>2. ZeroLimits(entry)[g] = IF s = Null THEN Null
                                 ELSE IF Zero(s.up) = Null /\ Zero(s.down) = Null THEN Null
                                 ELSE [up |-> Zero(s.up), down |-> Zero(s.down)]
      BY <1>2 DEF ZeroLimits
    <2> HIDE DEF s
    <2>3. CASE s = Null
      BY <2>2, <2>3 DEF s
    <2>4. CASE s \in Speeds
      <3>1. s.up \in Amount /\ s.down \in Amount /\ (s.up # Null \/ s.down # Null) /\ s = [up |-> s.up, down |-> s.down]
        BY <2>4 DEF Speeds
      <3>2. s # Null
        BY <2>4, PolicyAssumption DEF Speeds
      <3>3. \A v \in Amount : v # 0
        BY PolicyAssumption DEF Amount
      <3>4. Zero(s.up) = s.up /\ Zero(s.down) = s.down
        BY <3>1, <3>3
      <3>5. ZeroLimits(entry)[g] = [up |-> s.up, down |-> s.down]
        BY <2>2, <3>1, <3>2, <3>4
      <3> QED
        BY <3>1, <3>5 DEF s
    <2> QED
      BY <2>1, <2>3, <2>4
  <1>3. CASE g \notin {"trafficLimit", "speedLimit"}
    BY <1>3 DEF ZeroLimits
  <1> QED
    BY <1>1, <1>2, <1>3

\* An amount, written as a number again, is taken for itself.
LEMMA AmountAgain ==
  ASSUME NEW v \in Amount
  PROVE  ParseAmount(IF v = Null THEN [form |-> "none"] ELSE [form |-> "number", n |-> v]) = v
  <1>1. CASE v = Null
    BY <1>1 DEF ParseAmount
  <1>2. CASE v # Null
    <2>1. v \in Nat /\ v # 0
      BY <1>2 DEF Amount
    <2>2. ParseAmount([form |-> "number", n |-> v]) = IF v < 0 THEN Bad ELSE IF v = 0 THEN Null ELSE v
      BY DEF ParseAmount
    <2> QED
      BY <1>2, <2>1, <2>2
  <1> QED
    BY <1>1, <1>2

\* normalize() takes what the file keeps for itself, and does not refuse it.
LEMMA FieldComesBack ==
  ASSUME NEW f \in Fields, NEW v \in Stored(f), NEW later
  PROVE  NormalField(f, AsRaw(f, v), later) = v /\ v # Bad
  <1> DEFINE Number(x) == IF x = Null THEN [form |-> "none"] ELSE [form |-> "number", n |-> x]
  <1>1. CASE f = "enabled"
    <2>1. v \in BOOLEAN /\ AsRaw(f, v) = [form |-> "flag", on |-> v]
      BY <1>1 DEF Stored, AsRaw
    <2>2. NormalField(f, AsRaw(f, v), later) = v
      BY <1>1, <2>1 DEF NormalField
    <2>3. v # Bad
      BY <2>1, PolicyAssumption
    <2> QED
      BY <2>2, <2>3
  <1>2. CASE f = "expiresAt"
    <2>1. v = Null \/ (v \in Nat /\ 0 < v /\ v < MaxTime)
      BY <1>2 DEF Stored
    <2>2. AsRaw(f, v) = Number(v)
      BY <1>2 DEF AsRaw
    <2>3. v # Bad
      BY <2>1, PolicyAssumption
    <2>4. CASE v = Null
      <3>1. AsRaw(f, v) = [form |-> "none"]
        BY <2>2, <2>4
      <3>2. ParseTime([form |-> "none"], later) = Null
        BY DEF ParseTime
      <3> QED
        BY <1>2, <2>3, <2>4, <3>1, <3>2 DEF NormalField
    <2>5. CASE v # Null
      <3>1. AsRaw(f, v) = [form |-> "number", n |-> v]
        BY <2>2, <2>5
      <3>2. ParseTime([form |-> "number", n |-> v], later) = v
        BY DEF ParseTime
      <3>3. v # 0
        BY <2>1, <2>5
      <3> QED
        BY <1>2, <2>1, <2>3, <2>5, <3>1, <3>2, <3>3 DEF NormalField
    <2> QED
      BY <2>4, <2>5
  <1>3. CASE f = "expiresAfter"
    <2>1. v = Null \/ (v \in Nat /\ 0 < v /\ v < MaxTime)
      BY <1>3 DEF Stored
    <2>2. AsRaw(f, v) = Number(v)
      BY <1>3 DEF AsRaw
    <2>3. v # Bad
      BY <2>1, PolicyAssumption
    <2>4. ParseDuration(Number(v)) = v
      <3>1. CASE v = Null
        BY <3>1 DEF ParseDuration
      <3>2. CASE v # Null
        <4>1. ParseDuration([form |-> "number", n |-> v]) = IF v < 0 THEN Bad ELSE IF v = 0 THEN Null ELSE v
          BY DEF ParseDuration
        <4> QED
          BY <2>1, <3>2, <4>1
      <3> QED
        BY <3>1, <3>2
    <2>5. NormalField(f, AsRaw(f, v), later) = IF v \in {Null, Bad} THEN v ELSE IF v >= MaxTime THEN Bad ELSE v
      BY <1>3, <2>2, <2>4 DEF NormalField
    <2> QED
      BY <2>1, <2>3, <2>5, PolicyAssumption
  <1>4. CASE f = "trafficPeriod"
    <2>1. v = Null \/ v \in Periods
      BY <1>4 DEF Stored
    <2>2. AsRaw(f, v) = IF v = Null THEN [form |-> "none"] ELSE [form |-> "period", period |-> v]
      BY <1>4 DEF AsRaw
    <2>3. v # Bad
      BY <2>1, PolicyAssumption
    <2>4. NormalField(f, AsRaw(f, v), later) = v
      BY <1>4, <2>2 DEF NormalField
    <2> QED
      BY <2>3, <2>4
  <1>5. CASE f = "ipLimit"
    <2>1. v \in Amount
      BY <1>5 DEF Stored
    <2>2. AsRaw(f, v) = Number(v)
      BY <1>5 DEF AsRaw
    <2>3. v # Bad
      BY <2>1, PolicyAssumption DEF Amount
    <2>4. CASE v = Null
      BY <1>5, <2>2, <2>3, <2>4 DEF NormalField
    <2>5. CASE v # Null
      <3>1. v \in Nat /\ v >= 0 /\ v # 0
        BY <2>1, <2>5 DEF Amount
      <3>2. AsRaw(f, v) = [form |-> "number", n |-> v]
        BY <2>2, <2>5
      <3> QED
        BY <1>5, <2>3, <3>1, <3>2 DEF NormalField
    <2> QED
      BY <2>4, <2>5
  <1>6. CASE f = "trafficLimit"
    <2>1. v \in Amount
      BY <1>6 DEF Stored
    <2>2. AsRaw(f, v) = Number(v)
      BY <1>6 DEF AsRaw
    <2>3. v # Bad
      BY <2>1, PolicyAssumption DEF Amount
    <2>4. NormalField(f, AsRaw(f, v), later) = ParseAmount(Number(v))
      BY <1>6, <2>2 DEF NormalField
    <2> QED
      BY <2>1, <2>3, <2>4, AmountAgain
  <1>7. CASE f = "speedLimit"
    <2>1. v = Null \/ v \in Speeds
      BY <1>7 DEF Stored
    <2>2. v # Bad
      BY <2>1, PolicyAssumption DEF Speeds
    <2>3. CASE v = Null
      <3>1. AsRaw(f, v) = [form |-> "none"]
        BY <1>7, <2>3 DEF AsRaw
      <3>2. ParseAmount([form |-> "none"]) = Null /\ Null # Bad
        BY PolicyAssumption DEF ParseAmount
      <3>3. ParseSpeed([form |-> "none"]) = Null
        BY <3>2 DEF ParseSpeed
      <3> QED
        BY <1>7, <2>2, <2>3, <3>1, <3>3 DEF NormalField
    <2>4. CASE v # Null
      <3>1. v.up \in Amount /\ v.down \in Amount /\ (v.up # Null \/ v.down # Null) /\ v = [up |-> v.up, down |-> v.down]
        BY <2>1, <2>4 DEF Speeds
      <3>2. AsRaw(f, v) = [form |-> "pair", up |-> Number(v.up), down |-> Number(v.down)]
        BY <1>7, <2>4 DEF AsRaw
      <3>3. ParseAmount(Number(v.up)) = v.up /\ ParseAmount(Number(v.down)) = v.down
        BY <3>1, AmountAgain
      <3>4. v.up # Bad /\ v.down # Bad
        BY <3>1, PolicyAssumption DEF Amount
      <3> HIDE DEF Number
      <3>5. ParseSpeed(AsRaw(f, v)) = [up |-> v.up, down |-> v.down]
        BY <3>1, <3>2, <3>3, <3>4 DEF ParseSpeed
      <3> QED
        BY <1>7, <2>2, <3>1, <3>5 DEF NormalField
    <2> QED
      BY <2>3, <2>4
  <1> QED
    BY <1>1, <1>2, <1>3, <1>4, <1>5, <1>6, <1>7 DEF Fields

\* An entry is no refusal.
LEMMA EntryIsGood ==
  ASSUME NEW entry, StoredEntry(entry)
  PROVE  entry # Bad
  <1>1. entry = [f \in DOMAIN entry |-> entry[f]] /\ DOMAIN entry \in SUBSET Fields
    BY DEF StoredEntry
  <1>2. ASSUME NEW f \in DOMAIN entry PROVE entry[f] \in Values
    <2>1. entry[f] \in Stored(f)
      BY <1>2 DEF StoredEntry
    <2> QED
      BY <2>1 DEF Stored, Values, Amount
  <1>3. entry \in [DOMAIN entry -> Values]
    BY <1>1, <1>2
  <1> QED
    BY <1>1, <1>3, PolicyAssumption

\* What normalize() does not refuse is an entry that the file may keep.
LEMMA NormalStored ==
  ASSUME NEW fields, \A f \in DOMAIN fields : fields[f] \in Written, NEW moment \in Nat,
         Normalize(fields, moment) # Bad
  PROVE  StoredEntry(Normalize(fields, moment)) /\ DOMAIN Normalize(fields, moment) = DOMAIN fields
  <1> DEFINE entry == Normalize(fields, moment)
             out   == [f \in DOMAIN fields |-> NormalField(f, fields[f], moment)]
  <1>1. DOMAIN fields \subseteq Fields /\ entry = out /\ \A f \in DOMAIN fields : out[f] # Bad
    BY DEF Normalize
  <1>2. DOMAIN entry = DOMAIN fields
    BY <1>1
  <1>3. ASSUME NEW f \in DOMAIN entry PROVE f \in Fields /\ entry[f] \in Stored(f)
    <2>1. f \in Fields /\ fields[f] \in Written /\ entry[f] = NormalField(f, fields[f], moment) /\ entry[f] # Bad
      BY <1>1, <1>2, <1>3
    <2> HIDE DEF entry
    <2> QED
      BY <2>1, NormalIs
  <1>4. entry = [f \in DOMAIN entry |-> entry[f]]
    BY <1>1
  <1> HIDE DEF entry
  <1>5. StoredEntry(entry) /\ DOMAIN entry = DOMAIN fields
    BY <1>2, <1>3, <1>4 DEF StoredEntry
  <1> QED
    BY <1>5 DEF entry

\* An entry that the file keeps is taken for itself: load_policies drops none of it.
LEMMA EntryComesBack ==
  ASSUME NEW entry, StoredEntry(entry), NEW later
  PROVE  LoadPolicy(entry, later) = entry
  <1> DEFINE zeros == ZeroLimits(entry)
             raws  == [f \in DOMAIN zeros |-> AsRaw(f, zeros[f])]
             again == [f \in DOMAIN raws |-> NormalField(f, raws[f], later)]
  <1>1. \A f \in DOMAIN entry : f \in Fields /\ entry[f] \in Stored(f)
    BY DEF StoredEntry
  <1>2. entry = [f \in DOMAIN entry |-> entry[f]]
    BY DEF StoredEntry
  <1>3. DOMAIN zeros = DOMAIN entry /\ zeros = [f \in DOMAIN entry |-> zeros[f]]
    BY DEF ZeroLimits
  <1>4. \A f \in DOMAIN entry : zeros[f] = entry[f]
    BY <1>1, NoZeros
  <1> HIDE DEF zeros
  <1>5. zeros = entry
    BY <1>2, <1>3, <1>4
  <1>6. DOMAIN raws = DOMAIN entry /\ DOMAIN again = DOMAIN entry
    BY <1>3
  <1>7. \A f \in DOMAIN entry : again[f] = entry[f] /\ again[f] # Bad
    <2> SUFFICES ASSUME NEW f \in DOMAIN entry PROVE again[f] = entry[f] /\ again[f] # Bad
      OBVIOUS
    <2>1. again[f] = NormalField(f, AsRaw(f, entry[f]), later)
      BY <1>5, <1>6
    <2> HIDE DEF again
    <2> QED
      BY <1>1, <2>1, FieldComesBack
  <1>8. again = entry
    <2>1. again = [f \in DOMAIN entry |-> again[f]]
      BY <1>6
    <2> HIDE DEF again
    <2> QED
      BY <1>2, <1>7, <2>1
  <1>9. Normalize(raws, later) = again
    <2>1. DOMAIN raws \subseteq Fields
      BY <1>1, <1>6
    <2>2. \A f \in DOMAIN raws : again[f] # Bad
      BY <1>6, <1>7
    <2> HIDE DEF raws
    <2> QED
      BY <2>1, <2>2 DEF Normalize
  <1>10. CheckStored(entry, later) = entry
    <2>1. Normalize(raws, later) = zeros
      BY <1>5, <1>8, <1>9
    <2>2. CheckStored(entry, later) = IF Normalize(raws, later) = zeros THEN zeros ELSE Bad
      BY DEF CheckStored, zeros
    <2> QED
      BY <1>5, <2>1, <2>2
  <1> QED
    BY <1>10, EntryIsGood DEF LoadPolicy

\* What normalize() wrote is taken for the same whenever it is read again: no entry of the
\* file is dropped by load_policies, whatever fields it has and whatever forms they were
\* given in (check_stored, inbound_policy.py:256).
THEOREM StoredKept ==
  ASSUME NEW fields, \A f \in DOMAIN fields : fields[f] \in Written, NEW moment \in Nat, NEW later,
         Normalize(fields, moment) # Bad
  PROVE  LoadPolicy(Normalize(fields, moment), later) = Normalize(fields, moment)
  <1>1. StoredEntry(Normalize(fields, moment))
    BY NormalStored
  <1> QED
    BY <1>1, EntryComesBack

-----------------------------------------------------------------------------
(* What every state file holds of a user                                   *)

\* The steps of an import, whose bundle the job keeps.
Importing == {"importPolicies", "importState", "importStats"}

\* The clock, the counters and the users' entries are what calendar and files have.
EntriesInv ==
  /\ now \in Moments /\ now <= conf.end
  /\ days \in [Names -> [1..Day(conf.end) -> Nat]]
  /\ state.users \in [Names -> UserEntry] /\ DOMAIN state.notified = Names
  /\ at = "tickSave" => job.state.users \in [Names -> UserEntry] /\ DOMAIN job.state.notified = Names
  /\ at \in Importing => job.bundle \in conf.bundles
  /\ DOMAIN ghost.noticed = Names

\* Today is one of the days that are counted.
LEMMA TodayCounted ==
  ASSUME ConfInv, EntriesInv
  PROVE  /\ now \in Nat \ {0} /\ Day(now) \in 1..Day(conf.end) /\ Day(conf.end) \in Nat
         /\ Day(now) < FirstDay[Len(Months)]
  <1>1. now \in Nat \ {0} /\ conf.end \in Nat /\ 1 <= Day(now) /\ Day(now) < FirstDay[Len(Months)]
    BY MomentsIn DEF ConfInv, EntriesInv
  <1>2. Day(now) \in Nat /\ Day(conf.end) \in Nat /\ Day(now) <= Day(conf.end)
    BY <1>1, DayOf DEF EntriesInv
  <1> QED
    BY <1>1, <1>2

\* A period that begins now is an entry, and begins today.
LEMMA StartEntry ==
  ASSUME ConfInv, EntriesInv, NEW n \in Names
  PROVE  /\ StartPeriod(days[n], now) \in UserEntry
         /\ StartPeriod(days[n], now).start = now
         /\ StartPeriod(days[n], now).base = days[n][Day(now)]
  <1>1. Day(now) \in 1..Day(conf.end)
    BY TodayCounted
  <1>2. days[n][Day(now)] \in Nat
    BY <1>1 DEF EntriesInv
  <1>3. DayOfMonth(Day(now)) \in Nat
    <2>1. Day(now) \in Nat /\ 1 <= Day(now) /\ Day(now) < FirstDay[Len(Months)]
      BY TodayCounted
    <2>2. MonthOf(Day(now)) \in 1..Len(Months) - 1 /\ FirstDay[MonthOf(Day(now))] <= Day(now)
      BY <2>1, MonthFound
    <2>3. MonthOf(Day(now)) \in 1..Len(Months) + 1
      BY <2>2, Calendar
    <2>4. FirstDay[MonthOf(Day(now))] \in Nat
      BY <2>3, Calendar
    <2> QED
      BY <2>1, <2>2, <2>4 DEF DayOfMonth
  <1> QED
    BY <1>2, <1>3 DEF StartPeriod, UserEntry, EntriesInv

\* The user's entry after a tick: a period begun at the first one, and rolled after.
Rolled(n) == IF state.users[n].start = 0 THEN StartPeriod(days[n], now) ELSE RollPeriod(Eff(n), state.users[n], now)

\* A tick rolls the entries of the users that are known, and forgets what a user whose
\* entry it rolled was told of traffic.
LEMMA MeasuredEntries ==
  ASSUME ConfInv, ShapeInv, EntriesInv
  PROVE  /\ DOMAIN Measured(now) = StateFields
         /\ Measured(now).users = [n \in Names |-> IF n \in Known THEN Rolled(n) ELSE Unmeasured]
         /\ Measured(now).notified = [n \in Names |->
              IF n \notin Known THEN NoKeys
              ELSE IF Rolled(n) # state.users[n] THEN RestrictDomain(state.notified[n], LAMBDA k : k[1] # "traffic")
              ELSE state.notified[n]]
  <1> DEFINE limited == {n \in Known : Limited(Eff(n))}
             st == [state EXCEPT
                      !.users    = [n \in Names |-> IF n \in Known THEN Rolled(n) ELSE @[n]],
                      !.notified = [n \in Names |-> IF n \in Known /\ Rolled(n) # state.users[n]
                                      THEN RestrictDomain(@[n], LAMBDA k : k[1] # "traffic") ELSE @[n]],
                      !.slots    = Assign(@, limited, Known \ limited)]
  <1>1. Measured(now) = Forgotten(st, Names \ Known)
    BY DEF Measured, Rolled
  <1>2. /\ st.users = [n \in Names |-> IF n \in Known THEN Rolled(n) ELSE state.users[n]]
        /\ st.notified = [n \in Names |-> IF n \in Known /\ Rolled(n) # state.users[n]
                                      THEN RestrictDomain(state.notified[n], LAMBDA k : k[1] # "traffic")
                                      ELSE state.notified[n]]
    BY DEF ShapeInv, StateFields
  <1> HIDE DEF st
  <1>3. /\ DOMAIN Measured(now) = StateFields
        /\ Measured(now).users = [n \in Names |-> IF n \in Names \ Known THEN Unmeasured ELSE st.users[n]]
        /\ Measured(now).notified = [n \in Names |-> IF n \in Names \ Known THEN NoKeys ELSE st.notified[n]]
    BY <1>1 DEF Forgotten, StateFields
  <1>4. \A n \in Names : (IF n \in Names \ Known THEN Unmeasured ELSE st.users[n])
                          = (IF n \in Known THEN Rolled(n) ELSE Unmeasured)
    BY <1>2
  <1>5. \A n \in Names :
          (IF n \in Names \ Known THEN NoKeys ELSE st.notified[n])
          = (IF n \notin Known THEN NoKeys
             ELSE IF Rolled(n) # state.users[n] THEN RestrictDomain(state.notified[n], LAMBDA k : k[1] # "traffic")
             ELSE state.notified[n])
    BY <1>2
  <1> QED
    BY <1>3, <1>4, <1>5

\* They are entries.
LEMMA RolledEntry ==
  ASSUME ConfInv, EntriesInv, NEW n \in Names
  PROVE  Rolled(n) \in UserEntry
  <1>1. state.users[n] \in UserEntry /\ now \in Moments
    BY DEF EntriesInv
  <1> QED
    BY <1>1, StartEntry, RollForward DEF Rolled

\* An entry of a user's is set, and what they were told; the others' stay.
LEMMA FreshEntry ==
  ASSUME ConfInv, ShapeInv, EntriesInv, NEW n, FreshPeriod(n)
  PROVE  /\ state'.users \in [Names -> UserEntry] /\ DOMAIN state'.notified = Names
         /\ DOMAIN ghost'.noticed = Names
  <1>1. state' = [state EXCEPT !.users[n] = StartPeriod(days[n], now),
                              !.notified[n] = RestrictDomain(@, LAMBDA k : k[1] # "traffic")]
    BY DEF FreshPeriod
  <1>2. state'.users = [state.users EXCEPT ![n] = StartPeriod(days[n], now)] /\ DOMAIN state'.notified = Names
    BY <1>1 DEF ShapeInv, StateFields, EntriesInv
  <1>3. state'.users \in [Names -> UserEntry]
    <2>1. n \in Names => StartPeriod(days[n], now) \in UserEntry
      BY StartEntry
    <2> QED
      BY <1>2, <2>1 DEF EntriesInv
  <1>4. DOMAIN ghost'.noticed = Names
    BY DEF FreshPeriod, ShapeInv, GhostFields, EntriesInv
  <1> QED
    BY <1>2, <1>3, <1>4

\* A policy that is set touches no entry.
LEMMA SetEntries ==
  ASSUME ShapeInv, EntriesInv, NEW n, NEW fields, NEW unset, SetPolicy(n, fields, unset)
  PROVE  /\ state'.users = state.users /\ state'.notified = state.notified
         /\ DOMAIN ghost'.noticed = Names /\ at' \in {"setPolicy", "apply"}
  BY DEF SetPolicy, SavePolicy, ShapeInv, StateFields, GhostFields, EntriesInv

\* Steps that leave the entries, the clock and the counters alone.
LEMMA AloneEntries ==
  ASSUME EntriesInv, UNCHANGED <<conf, now, days>>,
         state'.users = state.users /\ state'.notified = state.notified,
         DOMAIN ghost'.noticed = Names,
         \/ UNCHANGED <<at, job>>
         \/ at' # "tickSave" /\ at' \notin Importing
         \/ at \in Importing /\ at' \in Importing /\ UNCHANGED job
  PROVE  EntriesInv'
  BY DEF EntriesInv, Importing

\* Every step keeps entries entries.
LEMMA EntriesStep == ConfInv /\ ShapeInv /\ EntriesInv /\ [Next]_vars => EntriesInv'
  <1> SUFFICES ASSUME ConfInv, ShapeInv, EntriesInv, [Next]_vars PROVE EntriesInv'
    OBVIOUS
  <1> USE DEF vars, outside
  <1>0. DOMAIN ghost.noticed = Names
    BY DEF EntriesInv
  <1>1. CASE UNCHANGED vars
    BY <1>0, <1>1, AloneEntries
  <1>2. ASSUME NEW n \in Names, Request(n) PROVE EntriesInv'
    <2>1. CASE Patch(n)
      <3>1. at' \in {"setPolicy", "apply"} /\ UNCHANGED <<conf, now, days>>
        BY <2>1, SetEntries DEF Patch
      <3> QED
        BY <2>1, <3>1, SetEntries, AloneEntries DEF Patch, Importing
    <2>2. CASE Create(n)
      <3>1. DOMAIN ghost'.noticed = Names
        BY <1>0, <2>2 DEF Create, ShapeInv, GhostFields
      <3>2. at' = "createPolicies" /\ UNCHANGED <<conf, now, days, state>>
        BY <2>2 DEF Create
      <3> QED
        BY <3>1, <3>2, AloneEntries DEF Importing
    <2>3. CASE Delete(n)
      BY <1>0, <2>3, AloneEntries DEF Delete, DeleteFile, Importing
    <2>4. CASE Reset(n)
      <3>1. at' = "apply" /\ UNCHANGED <<conf, now, days>> /\ FreshPeriod(n)
        BY <2>4 DEF Reset
      <3> QED
        BY <3>1, FreshEntry DEF EntriesInv, Importing
    <2> QED
      BY <1>2, <2>1, <2>2, <2>3, <2>4 DEF Request
  <1>3. CASE Import
    <2>1. PICK bundle \in conf.bundles : job'.bundle = bundle
      BY <1>3 DEF Import, NoJob
    <2>2. DOMAIN ghost'.noticed = Names
      BY <1>0, <1>3 DEF Import, ShapeInv, GhostFields
    <2>3. at' = "importPolicies" /\ UNCHANGED <<conf, now, days, state>>
      BY <1>3 DEF Import
    <2> QED
      BY <2>1, <2>2, <2>3 DEF EntriesInv
  <1>4. ASSUME NEW c \in Clients, Extending(c) \/ \E n \in Names : ExtendRead(c, n) PROVE EntriesInv'
    <2>1. CASE ExtendReset(c)
      <3>1. at' = "extend" /\ UNCHANGED <<conf, now, days>> /\ FreshPeriod(wanted[c].name)
        BY <2>1 DEF ExtendReset
      <3> QED
        BY <3>1, FreshEntry DEF EntriesInv, Importing
    <2>2. CASE ExtendWrite(c)
      <3>1. at' \in {"setPolicy", "apply"} /\ UNCHANGED <<conf, now, days>>
        BY <2>2, SetEntries DEF ExtendWrite
      <3> QED
        BY <2>2, <3>1, SetEntries, AloneEntries DEF ExtendWrite, Importing
    <2>3. CASE ExtendRefused(c)
      BY <1>0, <2>3, AloneEntries DEF ExtendRefused, Importing
    <2>4. CASE \E n \in Names : ExtendRead(c, n)
      BY <1>0, <2>4, AloneEntries DEF ExtendRead
    <2> QED
      BY <1>4, <2>1, <2>2, <2>3, <2>4 DEF Extending
  <1>5. CASE Work
    <2>1. CASE SetPolicySave \/ CreatePolicies
      <3>1. DOMAIN ghost'.noticed = Names
        BY <1>0, <2>1 DEF SetPolicySave, CreatePolicies, SavePolicy, ShapeInv, GhostFields
      <3>2. at' \in {"apply", "createState"} /\ UNCHANGED <<conf, now, days, state>>
        BY <2>1 DEF SetPolicySave, CreatePolicies
      <3> QED
        BY <3>1, <3>2, AloneEntries DEF Importing
    <2>2. CASE CreateState
      <3> DEFINE n == job.name
      <3>1. state'.users = [state.users EXCEPT ![n] = StartPeriod(days[n], now)] /\ DOMAIN state'.notified = Names
        BY <2>2 DEF CreateState, ShapeInv, StateFields, EntriesInv
      <3>2. state'.users \in [Names -> UserEntry]
        <4>1. n \in Names => StartPeriod(days[n], now) \in UserEntry
          BY StartEntry
        <4> HIDE DEF n
        <4> QED
          BY <3>1, <4>1 DEF EntriesInv
      <3>3. DOMAIN ghost'.noticed = Names
        BY <1>0, <2>2 DEF CreateState, ShapeInv, GhostFields
      <3>4. at' = "apply" /\ UNCHANGED <<conf, now, days>>
        BY <2>2 DEF CreateState
      <3> QED
        BY <3>1, <3>2, <3>3, <3>4 DEF EntriesInv, Importing
    <2>3. CASE DeletePolicies
      BY <1>0, <2>3, AloneEntries DEF DeletePolicies, Importing
    <2>4. CASE DeleteState
      <3>1. state'.users = [n \in Names |-> IF n \in {job.name} THEN Unmeasured ELSE state.users[n]]
            /\ DOMAIN state'.notified = Names
        BY <2>4 DEF DeleteState, Forgotten
      <3>2. state'.users \in [Names -> UserEntry]
        BY <3>1 DEF Unmeasured, UserEntry, EntriesInv
      <3>3. DOMAIN ghost'.noticed = Names
        BY <1>0, <2>4 DEF DeleteState, ShapeInv, GhostFields
      <3>4. at' = "apply" /\ UNCHANGED <<conf, now, days>>
        BY <2>4 DEF DeleteState
      <3> QED
        BY <3>1, <3>2, <3>3, <3>4 DEF EntriesInv, Importing
    <2>5. CASE ImportPolicies
      <3>1. DOMAIN ghost'.noticed = Names
        BY <1>0, <2>5 DEF ImportPolicies, ShapeInv, GhostFields
      <3>2. at = "importPolicies" /\ at' = "importState" /\ UNCHANGED <<conf, now, days, state, job>>
        BY <2>5 DEF ImportPolicies
      <3> QED
        BY <3>1, <3>2, AloneEntries DEF Importing
    <2>6. CASE ImportState
      <3> DEFINE bundle == job.bundle
                 users  == [n \in Names |-> IF bundle.state[n] # Unmeasured /\ (job.replace \/ state.users[n] = Unmeasured)
                                            THEN bundle.state[n] ELSE state.users[n]]
                 needy  == {n \in bundle.slots : Limited(Eff(n)) /\ ~HasSlot(state.slots, n)}
                 slots  == Assign(state.slots, needy, {})
                 told   == [n \in Names |-> IF users[n] = state.users[n] THEN state.notified[n] ELSE NoKeys]
      <3>1. at = "importState" /\ UNCHANGED <<conf, now, days>>
        BY <2>6 DEF ImportState
      <3>2. bundle \in conf.bundles
        BY <3>1 DEF EntriesInv, Importing
      <3>3. users \in [Names -> UserEntry]
        BY <3>2 DEF ConfInv, EntriesInv
      <3>4. \/ state' = [state EXCEPT !.users = users, !.slots = slots, !.notified = told]
               /\ at' = "importStats" /\ UNCHANGED job
            \/ UNCHANGED state /\ at' = "idle"
        BY <2>6 DEF ImportState
      <3>5. DOMAIN ghost'.noticed = Names
        BY <1>0, <2>6 DEF ImportState, ShapeInv, GhostFields
      <3>6. DOMAIN told = Names
        OBVIOUS
      <3> HIDE DEF users, slots, told, bundle
      <3>7. CASE UNCHANGED state /\ at' = "idle"
        BY <3>1, <3>5, <3>7, AloneEntries DEF Importing
      <3>8. CASE state' = [state EXCEPT !.users = users, !.slots = slots, !.notified = told]
                 /\ at' = "importStats" /\ UNCHANGED job
        <4>1. state'.users = users /\ state'.notified = told
          BY <3>8 DEF ShapeInv, StateFields
        <4> QED
          BY <3>1, <3>2, <3>3, <3>5, <3>6, <3>8, <4>1 DEF EntriesInv, bundle
      <3> QED
        BY <3>4, <3>7, <3>8
    <2>7. CASE ImportStats
      <3>1. at = "importStats" /\ at' = "apply" /\ UNCHANGED <<conf, now, state, ghost>>
            /\ days' = [n \in Names |-> [d \in DOMAIN days[n] |->
                          IF days[n][d] = 0 THEN job.bundle.days[n][d] ELSE days[n][d]]]
        BY <2>7 DEF ImportStats
      <3>2. job.bundle.days \in [Names -> [1..Day(conf.end) -> Nat]]
        BY <3>1 DEF EntriesInv, ConfInv, Importing
      <3>3. days' \in [Names -> [1..Day(conf.end) -> Nat]]
        BY <3>1, <3>2 DEF EntriesInv
      <3> QED
        BY <3>1, <3>3 DEF EntriesInv, Importing
    <2>8. CASE Apply
      <3>1. DOMAIN ghost'.noticed = Names
        BY <1>0, <2>8 DEF Apply, ShapeInv, GhostFields
      <3>2. at' \in {"tickPurge", "idle"} /\ UNCHANGED <<conf, now, days, state>>
        BY <2>8 DEF Apply
      <3> QED
        BY <3>1, <3>2, AloneEntries DEF Importing
    <2>9. CASE TickSave
      BY <2>9 DEF TickSave, EntriesInv, Importing
    <2>10. CASE TickActivate \/ TickPurge \/ TickEnd
      <3>1. at' \in {"tickPurge", "deletePolicies", "apply", "idle"} /\ UNCHANGED <<conf, now, days, state, ghost>>
        BY <2>10 DEF TickActivate, TickPurge, DeleteFile, TickEnd
      <3> QED
        BY <1>0, <3>1, AloneEntries DEF Importing
    <2> QED
      BY <1>5, <2>1, <2>2, <2>3, <2>4, <2>5, <2>6, <2>7, <2>8, <2>9, <2>10 DEF Work
  <1>6. CASE ApplyFails
    BY <1>0, <1>6, AloneEntries DEF ApplyFails, Importing
  <1>7. CASE TickBegin
    <2>1. PICK notices, banned : job'.state = Ticked(Measured(now), notices, banned)
      BY <1>7, TickJob
    <2>2. job'.state.users = Measured(now).users /\ DOMAIN job'.state.notified = Names
      BY <2>1, MeasuredEntries DEF Ticked, StateFields
    <2>3. Unmeasured \in UserEntry
      BY DEF Unmeasured, UserEntry
    <2>4. job'.state.users \in [Names -> UserEntry]
      BY <2>2, <2>3, MeasuredEntries, RolledEntry
    <2>5. at' = "tickSave" /\ UNCHANGED <<conf, now, days, state>>
      BY <1>7 DEF TickBegin
    <2>6. DOMAIN ghost'.noticed = Names
      BY <1>7 DEF TickBegin, ShapeInv, GhostFields
    <2> QED
      BY <2>2, <2>4, <2>5, <2>6 DEF EntriesInv, Importing
  <1>8. CASE ToClock
    <2>1. now \in Moments /\ conf.end \in Moments /\ now < conf.end /\ now' = now + 1
      BY <1>8 DEF ToClock, EntriesInv, ConfInv
    <2>2. now \in Nat /\ conf.end \in Nat
      BY <2>1, MomentsIn
    <2>3. now' \in Moments /\ now' <= conf.end
      BY <2>1, <2>2, MomentsBetween
    <2> QED
      BY <1>8, <2>3 DEF ToClock, EntriesInv, Importing
  <1>9. CASE Unban
    BY <1>0, <1>9, AloneEntries DEF Unban
  <1>10. ASSUME NEW n \in Names, \E ip \in Ips : Connect(n, ip) \/ Disconnect(n, ip) PROVE EntriesInv'
    BY <1>0, <1>10, AloneEntries DEF Connect, Disconnect
  <1>11. ASSUME NEW n \in Names, Spend(n) PROVE EntriesInv'
    <2>1. days' = [days EXCEPT ![n][Day(now)] = @ + 1] /\ UNCHANGED <<conf, now, state, at, job>>
      BY <1>11 DEF Spend
    <2>2. days' \in [Names -> [1..Day(conf.end) -> Nat]]
      BY <2>1, TodayCounted DEF EntriesInv
    <2>3. DOMAIN ghost'.noticed = Names
      BY <1>0, <1>11 DEF Spend, ShapeInv, GhostFields
    <2> QED
      BY <2>1, <2>2, <2>3 DEF EntriesInv
  <1>12. CASE Crash
    <2>1. at' = "idle" /\ UNCHANGED <<now, days, state, ghost>>
      BY <1>12 DEF Crash
    <2>2. conf'.end = conf.end
      BY ConfStep DEF SameConf, ConfFields
    <2> QED
      BY <2>1, <2>2 DEF EntriesInv, Importing
  <1> QED
    BY <1>1, <1>2, <1>3, <1>4, <1>5, <1>6, <1>7, <1>8, <1>9, <1>10, <1>11, <1>12 DEF Next

-----------------------------------------------------------------------------
(* What is remembered of the notices sent                                  *)

\* Each notice is about a period up to the one that began at start, or the expiry
\* there is, and if it is of this period or expiry then what is told says so.
Remembered(noticed, start, told, expires) ==
  \A x \in noticed :
    /\ x = <<x[1], x[2], x[3]>>
    /\ \/ /\ x[1] = "traffic" /\ x[3] \in Nat \ {0} /\ x[3] <= start
          /\ x[3] = start => <<x[1], x[2]>> \in DOMAIN told /\ told[<<x[1], x[2]>>] = x[3]
       \/ /\ x[1] = "expiring" /\ x[3] # Null /\ x[3] = expires
          /\ <<x[1], x[2]>> \in DOMAIN told /\ told[<<x[1], x[2]>>] = x[3]

\* What was told but of traffic.
Untold(told) == RestrictDomain(told, LAMBDA k : k[1] # "traffic")

\* It keeps those keys, with their values, and has no others.
LEMMA UntoldIs ==
  ASSUME NEW told
  PROVE  /\ \A k \in DOMAIN told : k[1] # "traffic" => k \in DOMAIN Untold(told)
         /\ \A k \in DOMAIN Untold(told) : k \in DOMAIN told /\ Untold(told)[k] = told[k]
  BY DEF Untold, RestrictDomain, Restrict

\* A later period has had no notice.
LEMMA LaterRemembered ==
  ASSUME NEW noticed, NEW start \in Nat, NEW later \in Nat, later > start, NEW told, NEW expires,
         Remembered(noticed, start, told, expires)
  PROVE  Remembered(noticed, later, Untold(told), expires)
  <1> SUFFICES ASSUME NEW x \in noticed
               PROVE  /\ x = <<x[1], x[2], x[3]>>
                      /\ \/ /\ x[1] = "traffic" /\ x[3] \in Nat \ {0} /\ x[3] <= later
                            /\ x[3] = later => <<x[1], x[2]>> \in DOMAIN Untold(told) /\ Untold(told)[<<x[1], x[2]>>] = x[3]
                         \/ /\ x[1] = "expiring" /\ x[3] # Null /\ x[3] = expires
                            /\ <<x[1], x[2]>> \in DOMAIN Untold(told) /\ Untold(told)[<<x[1], x[2]>>] = x[3]
    BY DEF Remembered
  <1>1. x = <<x[1], x[2], x[3]>>
    BY DEF Remembered
  <1>2. CASE x[1] = "traffic"
    <2>1. x[3] \in Nat \ {0} /\ x[3] <= start
      BY <1>2 DEF Remembered
    <2>2. x[3] <= later /\ x[3] # later
      BY <2>1
    <2> QED
      BY <1>1, <1>2, <2>1, <2>2
  <1>3. CASE x[1] = "expiring"
    <2> DEFINE k == <<x[1], x[2]>>
    <2>1. x[3] # Null /\ x[3] = expires /\ k \in DOMAIN told /\ told[k] = x[3]
      BY <1>3 DEF Remembered
    <2>2. k[1] # "traffic"
      BY <1>3
    <2> HIDE DEF k
    <2>3. k \in DOMAIN Untold(told) /\ Untold(told)[k] = x[3]
      BY <2>1, <2>2, UntoldIs
    <2> QED
      BY <1>1, <1>3, <2>1, <2>3 DEF k
  <1> QED
    BY <1>2, <1>3 DEF Remembered

\* A period that begins anew, its notices forgotten, has had none.
LEMMA FreshRemembered ==
  ASSUME NEW noticed, NEW start, NEW fresh, NEW told, NEW expires,
         Remembered(noticed, start, told, expires)
  PROVE  Remembered({x \in noticed : x[1] # "traffic"}, fresh, Untold(told), expires)
  <1> SUFFICES ASSUME NEW x \in noticed, x[1] # "traffic"
               PROVE  /\ x = <<x[1], x[2], x[3]>>
                      /\ x[1] = "expiring" /\ x[3] # Null /\ x[3] = expires
                      /\ <<x[1], x[2]>> \in DOMAIN Untold(told) /\ Untold(told)[<<x[1], x[2]>>] = x[3]
    BY DEF Remembered
  <1> DEFINE k == <<x[1], x[2]>>
  <1>1. /\ x = <<x[1], x[2], x[3]>>
        /\ x[1] = "expiring" /\ x[3] # Null /\ x[3] = expires /\ k \in DOMAIN told /\ told[k] = x[3]
    BY DEF Remembered
  <1>2. k[1] # "traffic"
    OBVIOUS
  <1> HIDE DEF k
  <1>3. k \in DOMAIN Untold(told) /\ Untold(told)[k] = x[3]
    BY <1>1, <1>2, UntoldIs
  <1> QED
    BY <1>1, <1>3 DEF k

\* A new expiry has had no notice, once those of another are forgotten.
LEMMA ExpiryRemembered ==
  ASSUME NEW noticed, NEW start, NEW told, NEW expires, NEW another,
         Remembered(noticed, start, told, expires)
  PROVE  Remembered({x \in noticed : x[1] # "expiring"}, start, told, another)
  BY DEF Remembered

\* Notices that are due: of this period, or of the expiry there is.
AreDue(notices, start, told, expires) ==
  \A x \in notices :
    /\ x = <<x[1], x[2], x[3]>>
    /\ (x[1] = "traffic" /\ x[3] = start) \/ (x[1] = "expiring" /\ x[3] # Null /\ x[3] = expires)
    /\ <<x[1], x[2]>> \notin DOMAIN told \/ told[<<x[1], x[2]>>] # x[3]

\* What is due was not noticed yet.
LEMMA DueIsNew ==
  ASSUME NEW noticed, NEW start, NEW told, NEW expires, NEW notices,
         Remembered(noticed, start, told, expires), AreDue(notices, start, told, expires)
  PROVE  notices \intersect noticed = {}
  <1> SUFFICES ASSUME NEW x \in notices, x \in noticed PROVE FALSE
    OBVIOUS
  <1>1. <<x[1], x[2]>> \notin DOMAIN told \/ told[<<x[1], x[2]>>] # x[3]
    BY DEF AreDue
  <1>2. x[1] = "traffic" => x[3] = start
    BY DEF AreDue
  <1> QED
    BY <1>1, <1>2 DEF Remembered

\* What is told has the notices, and else what it had.
Tells(f, told, notices) ==
  /\ \A x \in notices : <<x[1], x[2]>> \in DOMAIN f /\ f[<<x[1], x[2]>>] = x[3]
  /\ \A k \in DOMAIN told :
       /\ k \in DOMAIN f
       /\ f[k] = told[k] \/ \E x \in notices : k = <<x[1], x[2]>> /\ f[k] = x[3]

\* So it is with what notify makes of it.
LEMMA NotifiedTells ==
  ASSUME NEW start, NEW told, NEW expires, NEW notices, AreDue(notices, start, told, expires)
  PROVE  Tells(Notified(told, notices), told, notices)
  <1> DEFINE K == {<<x[1], x[2]>> : x \in notices}
             about(k) == (CHOOSE x \in notices : k = <<x[1], x[2]>>)[3]
             f == Notified(told, notices)
  <1>1. f = [k \in K \union DOMAIN told |-> IF k \in K THEN about(k) ELSE told[k]]
    BY DEF Notified
  <1>2. ASSUME NEW x \in notices PROVE about(<<x[1], x[2]>>) = x[3]
    <2> DEFINE y == CHOOSE y \in notices : <<x[1], x[2]>> = <<y[1], y[2]>>
    <2>1. y \in notices /\ <<x[1], x[2]>> = <<y[1], y[2]>>
      OBVIOUS
    <2>2. about(<<x[1], x[2]>>) = y[3]
      OBVIOUS
    <2> HIDE DEF y
    <2>3. x[1] = y[1]
      BY <2>1
    <2>4. y[3] = x[3]
      BY <2>1, <2>3 DEF AreDue
    <2> QED
      BY <2>2, <2>4
  <1> HIDE DEF about, f
  <1>3. \A x \in notices : <<x[1], x[2]>> \in K
    OBVIOUS
  <1>4. \A k \in K : \E x \in notices : k = <<x[1], x[2]>>
    OBVIOUS
  <1> HIDE DEF K
  <1>5. \A k \in K \union DOMAIN told : k \in DOMAIN f /\ f[k] = IF k \in K THEN about(k) ELSE told[k]
    BY <1>1
  <1>6. \A x \in notices : <<x[1], x[2]>> \in DOMAIN f /\ f[<<x[1], x[2]>>] = x[3]
    BY <1>2, <1>3, <1>5
  <1>7. \A k \in DOMAIN told : k \in DOMAIN f /\ (f[k] = told[k] \/ \E x \in notices : k = <<x[1], x[2]>> /\ f[k] = x[3])
    BY <1>4, <1>5, <1>6
  <1> QED
    BY <1>6, <1>7 DEF f, Tells

\* What is due is told, and remembered with the rest.
LEMMA DueRemembered ==
  ASSUME NEW noticed, NEW start \in Nat \ {0}, NEW told, NEW expires, NEW notices,
         Remembered(noticed, start, told, expires), AreDue(notices, start, told, expires)
  PROVE  Remembered(noticed \union notices, start, Notified(told, notices), expires)
  <1> DEFINE f == Notified(told, notices)
  <1>0. Tells(f, told, notices)
    BY NotifiedTells
  <1> HIDE DEF f
  <1>1. \A x \in notices : <<x[1], x[2]>> \in DOMAIN f /\ f[<<x[1], x[2]>>] = x[3]
    BY <1>0, Zenon DEF Tells
  <1>2. \A k \in DOMAIN told : k \in DOMAIN f /\ (f[k] = told[k] \/ \E x \in notices : k = <<x[1], x[2]>> /\ f[k] = x[3])
    BY <1>0, Zenon DEF Tells
  <1>3. ASSUME NEW x \in notices
        PROVE  /\ x = <<x[1], x[2], x[3]>>
               /\ \/ x[1] = "traffic" /\ x[3] = start
                  \/ x[1] = "expiring" /\ x[3] # Null /\ x[3] = expires
               /\ <<x[1], x[2]>> \in DOMAIN f /\ f[<<x[1], x[2]>>] = x[3]
    BY <1>1 DEF AreDue
  <1>4. ASSUME NEW x \in noticed
        PROVE  /\ x = <<x[1], x[2], x[3]>>
               /\ \/ /\ x[1] = "traffic" /\ x[3] \in Nat \ {0} /\ x[3] <= start
                     /\ x[3] = start => <<x[1], x[2]>> \in DOMAIN f /\ f[<<x[1], x[2]>>] = x[3]
                  \/ /\ x[1] = "expiring" /\ x[3] # Null /\ x[3] = expires
                     /\ <<x[1], x[2]>> \in DOMAIN f /\ f[<<x[1], x[2]>>] = x[3]
    <2> DEFINE k == <<x[1], x[2]>>
    <2>1. ASSUME k \in DOMAIN told, told[k] = x[3],
                 \/ x[1] = "traffic" /\ x[3] = start
                 \/ x[1] = "expiring" /\ x[3] = expires
          PROVE  k \in DOMAIN f /\ f[k] = x[3]
      <3>1. k \in DOMAIN f /\ (f[k] = told[k] \/ \E y \in notices : k = <<y[1], y[2]>> /\ f[k] = y[3])
        BY <1>2, <2>1
      <3>2. ASSUME NEW y \in notices, k = <<y[1], y[2]>> PROVE y[3] = x[3]
        <4>1. x[1] = y[1]
          BY <3>2
        <4>2. \/ y[1] = "traffic" /\ y[3] = start
              \/ y[1] = "expiring" /\ y[3] = expires
          BY <1>3
        <4> QED
          BY <2>1, <4>1, <4>2
      <3> QED
        BY <2>1, <3>1, <3>2
    <2>2. x = <<x[1], x[2], x[3]>>
      BY DEF Remembered
    <2>3. \/ /\ x[1] = "traffic" /\ x[3] \in Nat \ {0} /\ x[3] <= start
             /\ x[3] = start => k \in DOMAIN told /\ told[k] = x[3]
          \/ /\ x[1] = "expiring" /\ x[3] # Null /\ x[3] = expires
             /\ k \in DOMAIN told /\ told[k] = x[3]
      BY DEF Remembered
    <2> HIDE DEF k
    <2>4. \/ /\ x[1] = "traffic" /\ x[3] \in Nat \ {0} /\ x[3] <= start
             /\ x[3] = start => k \in DOMAIN f /\ f[k] = x[3]
          \/ /\ x[1] = "expiring" /\ x[3] # Null /\ x[3] = expires
             /\ k \in DOMAIN f /\ f[k] = x[3]
      BY <2>1, <2>3
    <2> QED
      BY <2>2, <2>4 DEF k
  <1>5. ASSUME NEW x \in noticed \union notices
        PROVE  /\ x = <<x[1], x[2], x[3]>>
               /\ \/ /\ x[1] = "traffic" /\ x[3] \in Nat \ {0} /\ x[3] <= start
                     /\ x[3] = start => <<x[1], x[2]>> \in DOMAIN f /\ f[<<x[1], x[2]>>] = x[3]
                  \/ /\ x[1] = "expiring" /\ x[3] # Null /\ x[3] = expires
                     /\ <<x[1], x[2]>> \in DOMAIN f /\ f[<<x[1], x[2]>>] = x[3]
    BY <1>3, <1>4
  <1> QED
    BY <1>5 DEF Remembered, f

-----------------------------------------------------------------------------
(* The notices sent and the state in force                                 *)

\* The state in force: a tick's own, from its notices until it saves.
InForce == IF at = "tickSave" THEN job.state ELSE state

RememberedOf(n) ==
  Remembered(ghost.noticed[n], InForce.users[n].start, InForce.notified[n], Eff(n)["expiresAt"])

\* Whose notices were sent is remembered, but for a user whose policy has just
\* gone; who has gone has had none; the term of who has come is not set yet.
NoticedInv ==
  /\ ~ghost.again
  /\ \A n \in Names : (at = "deleteState" /\ job.name = n) \/ RememberedOf(n)
  /\ \A n \in Names \ Known : ghost.noticed[n] = {} \/ (at \in {"deletePolicies", "deleteState"} /\ job.name = n)
  /\ at \in {"deletePolicies", "deleteState"} => job.name \in Runtime \ spool
  /\ at \in {"tickSave", "tickActivate"} => \A n \in job.came : Eff(n)["expiresAt"] = Null

\* The steps at which it asks for more.
Telltale == {"deletePolicies", "deleteState", "tickSave", "tickActivate"}

\* Elsewhere it says that nothing is sent twice, that all is remembered and that who has gone has had nothing.
LEMMA ElsewhereNoticed ==
  ASSUME at \notin Telltale
  PROVE  /\ InForce = state
         /\ NoticedInv <=> /\ ~ghost.again
                           /\ \A n \in Names : Remembered(ghost.noticed[n], state.users[n].start, state.notified[n],
                                                          Eff(n)["expiresAt"])
                           /\ \A n \in Names \ Known : ghost.noticed[n] = {}
  <1>1. at \notin {"deletePolicies", "deleteState"} /\ at \notin {"tickSave", "tickActivate"} /\ at # "tickSave"
        /\ at # "deleteState"
    BY DEF Telltale
  <1>2. InForce = state
    BY <1>1 DEF InForce
  <1> QED
    BY <1>1, <1>2, Zenon DEF NoticedInv, RememberedOf

\* Nothing was sent to a user: there is nothing to remember.
LEMMA NothingRemembered == \A start, told, expires : Remembered({}, start, told, expires)
  BY DEF Remembered

\* Steps that leave what was sent and what is remembered.
LEMMA AloneNoticed ==
  ASSUME ShapeInv, NoticedInv, UNCHANGED policies,
         state'.users = state.users, state'.notified = state.notified,
         ghost'.noticed = ghost.noticed, ghost'.again = ghost.again,
         \/ UNCHANGED <<at, job, spool, state>>
         \/ at \notin Telltale /\ at' \notin Telltale /\ spool \subseteq spool'
  PROVE  NoticedInv'
  <1>1. \A n \in Names : Eff(n)' = Eff(n)
    BY DEF Eff, DeclaredOf
  <1>2. CASE UNCHANGED <<at, job, spool, state>>
    <2>1. InForce' = InForce /\ Known' = Known
      BY <1>2 DEF InForce, Known
    <2>2. \A n : Eff(n)' = Eff(n)
      BY DEF Eff, DeclaredOf
    <2>3. \A n \in Names : RememberedOf(n)' <=> RememberedOf(n)
      BY <1>1, <2>1 DEF RememberedOf, Remembered
    <2> QED
      BY <1>2, <2>1, <2>2, <2>3 DEF NoticedInv
  <1>3. CASE at \notin Telltale /\ at' \notin Telltale /\ spool \subseteq spool'
    <2>1. InForce' = state'
      BY <1>3 DEF Telltale, InForce
    <2>2. Known \subseteq Known'
      BY <1>3 DEF Known
    <2>3. /\ ~ghost.again
          /\ \A n \in Names : Remembered(ghost.noticed[n], state.users[n].start, state.notified[n], Eff(n)["expiresAt"])
          /\ \A n \in Names \ Known : ghost.noticed[n] = {}
      BY <1>3, ElsewhereNoticed
    <2>4. \A n \in Names : RememberedOf(n)'
      BY <1>1, <2>1, <2>3 DEF RememberedOf
    <2> QED
      BY <1>3, <2>2, <2>3, <2>4 DEF NoticedInv, Telltale
  <1> QED
    BY <1>2, <1>3

\* A new state, notices and policies, where all is remembered for each user.
LEMMA EachNoticed ==
  ASSUME NoticedInv, at \notin Telltale, at' \notin Telltale, spool \subseteq spool', ghost'.again = ghost.again,
         \A n \in Names : ghost'.noticed[n] = {} \/ ghost.noticed[n] # {},
         \A n \in Names : Remembered(ghost'.noticed[n], state'.users[n].start, state'.notified[n], Eff(n)'["expiresAt"])
  PROVE  NoticedInv'
  <1>1. InForce' = state'
    BY DEF Telltale, InForce
  <1>2. Known \subseteq Known'
    BY DEF Known
  <1>3. ~ghost.again /\ \A n \in Names \ Known : ghost.noticed[n] = {}
    BY ElsewhereNoticed
  <1>4. \A n \in Names : RememberedOf(n)'
    BY <1>1 DEF RememberedOf
  <1> QED
    BY <1>2, <1>3, <1>4 DEF NoticedInv, Telltale

\* A policy that is saved for a user: a new expiry has had no notice.
LEMMA SaveNoticed ==
  ASSUME ShapeInv, EntriesInv, NoticedInv, NEW n \in Names, NEW entry, SavePolicy(n, entry),
         state'.users = state.users, state'.notified = state.notified,
         spool' = spool, at \notin Telltale, at' \notin Telltale
  PROVE  NoticedInv'
  <1> DEFINE old == Eff(n)["expiresAt"]
             new == Effective(DeclaredOf(n), entry)["expiresAt"]
  <1>1. /\ ghost'.again = ghost.again
        /\ ghost'.noticed = [ghost.noticed EXCEPT ![n] = IF new = old THEN @ ELSE {x \in @ : x[1] # "expiring"}]
    BY DEF SavePolicy, ShapeInv, GhostFields
  <1>2. policies' = [policies EXCEPT ![n] = entry]
    BY DEF SavePolicy
  <1>3. Eff(n)'["expiresAt"] = new /\ \A m \in Names \ {n} : Eff(m)' = Eff(m)
    BY <1>2 DEF ShapeInv, Eff, DeclaredOf
  <1>4. \A m \in Names : Remembered(ghost.noticed[m], state.users[m].start, state.notified[m], Eff(m)["expiresAt"])
    BY ElsewhereNoticed
  <1> HIDE DEF new
  <1>5. ASSUME NEW m \in Names
        PROVE  /\ ghost'.noticed[m] = {} \/ ghost.noticed[m] # {}
               /\ Remembered(ghost'.noticed[m], state'.users[m].start, state'.notified[m], Eff(m)'["expiresAt"])
    <2>1. CASE m # n
      <3>1. ghost'.noticed[m] = ghost.noticed[m]
        BY <1>1, <2>1 DEF EntriesInv
      <3> QED
        BY <1>3, <1>4, <2>1, <3>1
    <2>2. CASE m = n /\ new = old
      <3>1. ghost'.noticed[m] = ghost.noticed[m]
        BY <1>1, <2>2 DEF EntriesInv
      <3> QED
        BY <1>3, <1>4, <2>2, <3>1
    <2>3. CASE m = n /\ new # old
      <3>1. ghost'.noticed[m] = {x \in ghost.noticed[m] : x[1] # "expiring"}
        BY <1>1, <2>3 DEF EntriesInv
      <3>2. Remembered(ghost'.noticed[m], state.users[m].start, state.notified[m], new)
        BY <1>4, <3>1, ExpiryRemembered
      <3> QED
        BY <1>3, <2>3, <3>1, <3>2
    <2> QED
      BY <2>1, <2>2, <2>3
  <1> QED
    BY <1>1, <1>5, EachNoticed

\* So is one that is set, with a slot saved first or without.
LEMMA SetNoticed ==
  ASSUME ShapeInv, EntriesInv, NoticedInv, NEW n, NEW fields, NEW unset, SetPolicy(n, fields, unset),
         spool' = spool, at \notin Telltale
  PROVE  NoticedInv'
  <1>1. n \in Names
    BY DEF SetPolicy, Accepts, Known, Names, ShapeInv
  <1>2. state'.users = state.users /\ state'.notified = state.notified /\ at' \in {"setPolicy", "apply"}
    BY SetEntries
  <1>3. at' \notin Telltale
    BY <1>2 DEF Telltale
  <1>4. CASE \E entry : SavePolicy(n, entry)
    BY <1>1, <1>2, <1>3, <1>4, SaveNoticed
  <1>5. CASE UNCHANGED <<policies, ghost>>
    BY <1>2, <1>3, <1>5, AloneNoticed
  <1> QED
    BY <1>4, <1>5 DEF SetPolicy

\* A period that begins anew has had no notice of its traffic.
LEMMA FreshNoticed ==
  ASSUME ShapeInv, EntriesInv, NoticedInv, NEW n, FreshPeriod(n),
         UNCHANGED <<policies, spool>>, at \notin Telltale, at' \notin Telltale
  PROVE  NoticedInv'
  <1>1. /\ ghost'.again = ghost.again
        /\ ghost'.noticed = [ghost.noticed EXCEPT ![n] = {x \in @ : x[1] # "traffic"}]
    BY DEF FreshPeriod, ShapeInv, GhostFields
  <1>2. /\ state'.users = [state.users EXCEPT ![n] = StartPeriod(days[n], now)]
        /\ state'.notified = [state.notified EXCEPT ![n] = Untold(@)]
    BY DEF FreshPeriod, ShapeInv, StateFields, Untold
  <1>3. \A m \in Names : Eff(m)' = Eff(m)
    BY DEF Eff, DeclaredOf
  <1>4. \A m \in Names : Remembered(ghost.noticed[m], state.users[m].start, state.notified[m], Eff(m)["expiresAt"])
    BY ElsewhereNoticed
  <1>5. ASSUME NEW m \in Names
        PROVE  /\ ghost'.noticed[m] = {} \/ ghost.noticed[m] # {}
               /\ Remembered(ghost'.noticed[m], state'.users[m].start, state'.notified[m], Eff(m)'["expiresAt"])
    <2>1. CASE m # n
      <3>1. ghost'.noticed[m] = ghost.noticed[m] /\ state'.users[m] = state.users[m] /\ state'.notified[m] = state.notified[m]
        BY <1>1, <1>2, <2>1 DEF EntriesInv
      <3> QED
        BY <1>3, <1>4, <3>1
    <2>2. CASE m = n
      <3>1. ghost'.noticed[m] = {x \in ghost.noticed[m] : x[1] # "traffic"} /\ state'.notified[m] = Untold(state.notified[m])
        BY <1>1, <1>2, <2>2 DEF EntriesInv
      <3>2. Remembered(ghost'.noticed[m], state'.users[m].start, Untold(state.notified[m]), Eff(m)["expiresAt"])
        BY <1>4, <3>1, FreshRemembered
      <3> QED
        BY <1>3, <3>1, <3>2
    <2> QED
      BY <2>1, <2>2
  <1> QED
    BY <1>1, <1>5, EachNoticed

-----------------------------------------------------------------------------
(* A tick sends what is due, once                                          *)

\* What a tick sends.
Sent(n) == IF n \in Known THEN Notices(Measured(now), n, now) ELSE {}

\* What a tick notes of it, in its job and beside.
LEMMA TickSends ==
  ASSUME TickBegin, ShapeInv, EntriesInv
  PROVE  /\ job'.state.users = Measured(now).users
         /\ job'.state.notified = [n \in Names |-> Notified(Measured(now).notified[n], Sent(n))]
         /\ ghost'.noticed = [n \in Names |-> ghost.noticed[n] \union Sent(n)]
         /\ ghost'.again = (ghost.again \/ \E n \in Names : Sent(n) \intersect ghost.noticed[n] # {})
         /\ at = "idle" /\ at' = "tickSave" /\ UNCHANGED <<spool, policies>>
  <1> DEFINE notices == [n \in Names |-> IF n \in Known THEN Notices(Measured(now), n, now) ELSE {}]
             past == {x \in Ips \X Names : x[1] \in PastLimit(Measured(now), x[2])}
             came == {n \in Known : /\ OnHold(Eff(n))
                                    /\ online[n] # {} \/ PeriodTraffic(days[n], Measured(now).users[n]) > 0}
  <1>1. PICK failed \in SUBSET past :
          /\ job' = [NoJob EXCEPT !.ticking = TRUE, !.time = now,
                                  !.state = Ticked(Measured(now), notices, past \ failed), !.came = came]
          /\ ghost' = [ghost EXCEPT
               !.noticed = [n \in Names |-> @[n] \union notices[n]],
               !.again   = @ \/ \E n \in Names : notices[n] \intersect ghost.noticed[n] # {},
               !.lately  = [n \in Names |-> {ip \in online[n] : n \in Known /\ <<ip, n>> \notin past \ failed}]]
    BY Zenon DEF TickBegin
  <1>2. at = "idle" /\ at' = "tickSave" /\ UNCHANGED <<spool, policies>>
    BY DEF TickBegin
  <1> HIDE DEF notices, past, came
  <1>3. PICK banned : job'.state = Ticked(Measured(now), notices, banned)
    BY <1>1 DEF NoJob
  <1>4. DOMAIN Measured(now) = StateFields
    BY DEF Measured, Forgotten, StateFields
  <1>5. /\ job'.state.users = Measured(now).users
        /\ job'.state.notified = [n \in Names |-> Notified(Measured(now).notified[n], notices[n])]
    BY <1>3, <1>4 DEF Ticked, StateFields
  <1>6. /\ ghost'.noticed = [n \in Names |-> ghost.noticed[n] \union notices[n]]
        /\ ghost'.again = (ghost.again \/ \E n \in Names : notices[n] \intersect ghost.noticed[n] # {})
    BY <1>1 DEF ShapeInv, GhostFields
  <1>7. \A n \in Names : notices[n] = Sent(n)
    BY DEF notices, Sent
  <1> QED
    BY <1>2, <1>5, <1>6, <1>7

\* What a tick finds remembered, once periods are rolled.
LEMMA MeasuredRemembered ==
  ASSUME ConfInv, ShapeInv, EntriesInv, NoticedInv, at = "idle", NEW n \in Known, n \in Names
  PROVE  /\ Measured(now).users[n].start \in Nat \ {0}
         /\ Remembered(ghost.noticed[n], Measured(now).users[n].start, Measured(now).notified[n], Eff(n)["expiresAt"])
  <1> DEFINE u == state.users[n]
             told == state.notified[n]
             E == Eff(n)["expiresAt"]
  <1>1. Remembered(ghost.noticed[n], u.start, told, E)
    <2>1. at \notin Telltale
      BY DEF Telltale
    <2> QED
      BY <2>1, ElsewhereNoticed
  <1>2. Measured(now).users[n] = Rolled(n)
    BY MeasuredEntries
  <1>3. Measured(now).notified[n] = IF Rolled(n) # u THEN Untold(told) ELSE told
    BY MeasuredEntries DEF Untold
  <1>4. u \in UserEntry /\ u.start \in Nat /\ Rolled(n) \in UserEntry /\ now \in Nat \ {0}
    <2>1. u \in UserEntry
      BY DEF EntriesInv
    <2>2. u.start \in {0} \union Moments
      BY <2>1 DEF UserEntry
    <2> QED
      BY <2>1, <2>2, RolledEntry, TodayCounted, MomentsIn
  <1>5. Rolled(n).start \in Nat \ {0} /\ (Rolled(n) # u => Rolled(n).start > u.start)
    <2>1. CASE u.start = 0
      <3>1. Rolled(n) = StartPeriod(days[n], now)
        BY <2>1 DEF Rolled
      <3>2. Rolled(n).start = now
        BY <3>1, StartEntry
      <3> QED
        BY <1>4, <2>1, <3>2
    <2>2. CASE u.start # 0
      <3>1. Rolled(n) = RollPeriod(Eff(n), u, now)
        BY <2>2 DEF Rolled
      <3>2. now \in Moments
        BY DEF EntriesInv
      <3>3. \/ Rolled(n) = u
            \/ Rolled(n).start \in Moments /\ Rolled(n).start > u.start
        BY <1>4, <3>1, <3>2, RollForward
      <3> HIDE DEF u
      <3>4. CASE Rolled(n) = u
        BY <1>4, <2>2, <3>4
      <3>5. CASE Rolled(n).start \in Moments /\ Rolled(n).start > u.start
        <4>1. Rolled(n).start \in Nat
          BY <3>5, MomentsIn
        <4> QED
          BY <1>4, <2>2, <3>5, <4>1
      <3> QED
        BY <3>3, <3>4, <3>5
    <2> QED
      BY <2>1, <2>2
  <1> HIDE DEF u, told, E
  <1>6. CASE Rolled(n) = u
    BY <1>1, <1>2, <1>3, <1>5, <1>6 DEF E
  <1>7. CASE Rolled(n) # u
    <2>1. Remembered(ghost.noticed[n], Rolled(n).start, Untold(told), E)
      BY <1>1, <1>4, <1>5, <1>7, LaterRemembered
    <2> QED
      BY <1>2, <1>3, <1>5, <1>7, <2>1 DEF E
  <1> QED
    BY <1>6, <1>7

\* What notify finds is due.
LEMMA NoticesDue ==
  ASSUME NEW st, NEW n, NEW t
  PROVE  AreDue(Notices(st, n, t), st.users[n].start, st.notified[n], Eff(n)["expiresAt"])
  <1> DEFINE expires == Eff(n)["expiresAt"]
             Traffic == {p \in conf.percents : <<"traffic", p>> \notin DOMAIN st.notified[n]
                                               \/ st.notified[n][<<"traffic", p>>] # st.users[n].start}
             Expiring == {d \in conf.expiryDays : expires # Null /\
                            (<<"expiring", d>> \notin DOMAIN st.notified[n] \/ st.notified[n][<<"expiring", d>>] # expires)}
  <1>1. Notices(st, n, t) \subseteq {<<"traffic", p, st.users[n].start>> : p \in Traffic}
                                   \union {<<"expiring", d, expires>> : d \in Expiring}
    BY DEF Notices
  <1> SUFFICES ASSUME NEW x \in Notices(st, n, t)
               PROVE  /\ x = <<x[1], x[2], x[3]>>
                      /\ (x[1] = "traffic" /\ x[3] = st.users[n].start) \/ (x[1] = "expiring" /\ x[3] # Null /\ x[3] = expires)
                      /\ <<x[1], x[2]>> \notin DOMAIN st.notified[n] \/ st.notified[n][<<x[1], x[2]>>] # x[3]
    BY DEF AreDue
  <1> HIDE DEF expires
  <1>2. CASE \E p \in Traffic : x = <<"traffic", p, st.users[n].start>>
    <2>1. PICK p \in Traffic : x = <<"traffic", p, st.users[n].start>>
      BY <1>2
    <2>2. x[1] = "traffic" /\ x[2] = p /\ x[3] = st.users[n].start
      BY <2>1
    <2> QED
      BY <2>1, <2>2
  <1>3. CASE \E d \in Expiring : x = <<"expiring", d, expires>>
    <2>1. PICK d \in Expiring : x = <<"expiring", d, expires>>
      BY <1>3
    <2>2. x[1] = "expiring" /\ x[2] = d /\ x[3] = expires
      BY <2>1
    <2> QED
      BY <2>1, <2>2
  <1> QED
    BY <1>1, <1>2, <1>3

\* A tick sends what was not sent yet, and remembers it.
LEMMA TickNoticed ==
  ASSUME ConfInv, ShapeInv, EntriesInv, NoticedInv, TickBegin
  PROVE  NoticedInv'
  <1>1. /\ job'.state.users = Measured(now).users
        /\ job'.state.notified = [n \in Names |-> Notified(Measured(now).notified[n], Sent(n))]
        /\ ghost'.noticed = [n \in Names |-> ghost.noticed[n] \union Sent(n)]
        /\ ghost'.again = (ghost.again \/ \E n \in Names : Sent(n) \intersect ghost.noticed[n] # {})
        /\ at = "idle" /\ at' = "tickSave" /\ UNCHANGED <<spool, policies>>
    BY TickSends
  <1>2. /\ ~ghost.again
        /\ \A n \in Names \ Known : ghost.noticed[n] = {}
    BY <1>1, ElsewhereNoticed DEF Telltale
  <1>3. Known' = Known /\ \A n : Eff(n)' = Eff(n)
    BY <1>1 DEF Known, Eff, DeclaredOf
  <1>4. ASSUME NEW n \in Names
        PROVE  /\ Sent(n) \intersect ghost.noticed[n] = {}
               /\ Remembered(ghost.noticed[n] \union Sent(n), Measured(now).users[n].start,
                             Notified(Measured(now).notified[n], Sent(n)), Eff(n)["expiresAt"])
    <2>1. CASE n \in Known
      <3> DEFINE start == Measured(now).users[n].start
                 told == Measured(now).notified[n]
                 E == Eff(n)["expiresAt"]
      <3>1. start \in Nat \ {0} /\ Remembered(ghost.noticed[n], start, told, E)
        BY <1>1, <2>1, MeasuredRemembered
      <3>2. AreDue(Sent(n), start, told, E)
        BY <2>1, NoticesDue DEF Sent
      <3> HIDE DEF start, told, E
      <3>3. Sent(n) \intersect ghost.noticed[n] = {}
        BY <3>1, <3>2, DueIsNew
      <3>4. Remembered(ghost.noticed[n] \union Sent(n), start, Notified(told, Sent(n)), E)
        BY <3>1, <3>2, DueRemembered
      <3> QED
        BY <3>3, <3>4 DEF start, told, E
    <2>2. CASE n \notin Known
      <3>1. ghost.noticed[n] \union Sent(n) = {} /\ Sent(n) \intersect ghost.noticed[n] = {}
        BY <1>2, <2>2 DEF Sent
      <3> QED
        BY <3>1, NothingRemembered
    <2> QED
      BY <2>1, <2>2
  <1>5. InForce' = job'.state
    BY <1>1 DEF InForce
  <1>6. ~ghost'.again
    BY <1>1, <1>2, <1>4
  <1>7. ASSUME NEW n \in Names PROVE RememberedOf(n)'
    <2>1. ghost'.noticed[n] = ghost.noticed[n] \union Sent(n)
      BY <1>1
    <2>2. InForce'.users[n] = Measured(now).users[n]
      BY <1>1, <1>5
    <2>3. InForce'.notified[n] = Notified(Measured(now).notified[n], Sent(n))
      BY <1>1, <1>5
    <2> QED
      BY <1>3, <1>4, <2>1, <2>2, <2>3 DEF RememberedOf
  <1>8. ASSUME NEW n \in Names \ Known' PROVE ghost'.noticed[n] = {}
    BY <1>1, <1>2, <1>3 DEF Sent
  <1>9. \A n \in job'.came : Eff(n)'["expiresAt"] = Null
    BY <1>3, TickJob DEF OnHold
  <1>10. at' \notin {"deletePolicies", "deleteState"}
    BY <1>1
  <1> QED
    BY <1>6, <1>7, <1>8, <1>9, <1>10, Zenon DEF NoticedInv

-----------------------------------------------------------------------------
(* Every step, and the notices                                             *)

\* Who is deleted had what was remembered of them, until their file went.
LEMMA LeaveNoticed ==
  ASSUME ShapeInv, NoticedInv, UNCHANGED <<state, policies, ghost>>, NEW n \in spool, spool' = spool \ {n},
         at \notin Telltale, at' = "deletePolicies", job'.name = n
  PROVE  NoticedInv'
  <1>1. InForce' = state'
    BY DEF InForce
  <1>2. /\ ~ghost.again
        /\ \A m \in Names : Remembered(ghost.noticed[m], state.users[m].start, state.notified[m], Eff(m)["expiresAt"])
        /\ \A m \in Names \ Known : ghost.noticed[m] = {}
    BY ElsewhereNoticed
  <1>3. \A m : Eff(m)' = Eff(m)
    BY DEF Eff, DeclaredOf
  <1>4. \A m \in Names : RememberedOf(m)'
    BY <1>1, <1>2, <1>3 DEF RememberedOf
  <1>5. n \in Runtime \ spool' /\ Known \subseteq Known' \union {n}
    BY DEF ShapeInv, Known
  <1>6. \A m \in Names \ Known' : ghost'.noticed[m] = {} \/ (at' \in {"deletePolicies", "deleteState"} /\ job'.name = m)
    BY <1>2, <1>5
  <1>7. at' \notin {"tickSave", "tickActivate"}
    OBVIOUS
  <1> QED
    BY <1>2, <1>4, <1>5, <1>6, <1>7 DEF NoticedInv

\* An import sets policies, then periods: what was sent of the old ones is forgotten.
LEMMA ImportNoticed ==
  ASSUME ShapeInv, EntriesInv, NoticedInv, ImportPolicies \/ ImportState
  PROVE  NoticedInv'
  <1>1. CASE ImportPolicies
    <2> DEFINE taken == {n \in Names : /\ DOMAIN job.bundle.policies[n] # {}
                                       /\ CheckStored(job.bundle.policies[n], now) # Bad
                                       /\ DOMAIN policies[n] = {} \/ job.replace}
    <2>1. /\ policies' = [n \in Names |-> IF n \in taken THEN ZeroLimits(job.bundle.policies[n]) ELSE policies[n]]
          /\ ghost' = [ghost EXCEPT !.owner   = [n \in Names |-> IF n \in taken THEN ghost.made[n] ELSE @[n]],
                                !.noticed = [n \in Names |-> IF n \in taken THEN {x \in @[n] : x[1] # "expiring"}
                                                            ELSE @[n]]]
          /\ at = "importPolicies" /\ at' = "importState" /\ UNCHANGED <<spool, state>>
      BY <1>1 DEF ImportPolicies
    <2> HIDE DEF taken
    <2>2. /\ ghost'.again = ghost.again
          /\ \A n \in Names : ghost'.noticed[n] = IF n \in taken THEN {x \in ghost.noticed[n] : x[1] # "expiring"}
                                                  ELSE ghost.noticed[n]
      BY <2>1 DEF ShapeInv, GhostFields
    <2>3. at \notin Telltale /\ at' \notin Telltale
      BY <2>1 DEF Telltale
    <2>4. \A m \in Names : Remembered(ghost.noticed[m], state.users[m].start, state.notified[m], Eff(m)["expiresAt"])
      BY <2>3, ElsewhereNoticed
    <2>5. ASSUME NEW m \in Names
          PROVE  /\ ghost'.noticed[m] = {} \/ ghost.noticed[m] # {}
                 /\ Remembered(ghost'.noticed[m], state'.users[m].start, state'.notified[m], Eff(m)'["expiresAt"])
      <3>1. CASE m \in taken
        <4>1. ghost'.noticed[m] = {x \in ghost.noticed[m] : x[1] # "expiring"}
          BY <2>2, <3>1
        <4>2. Remembered(ghost'.noticed[m], state.users[m].start, state.notified[m], Eff(m)'["expiresAt"])
          BY <2>4, <4>1, ExpiryRemembered
        <4> QED
          BY <2>1, <4>1, <4>2
      <3>2. CASE m \notin taken
        <4>1. ghost'.noticed[m] = ghost.noticed[m] /\ policies'[m] = policies[m]
          BY <2>1, <2>2, <3>2
        <4>2. Eff(m)' = Eff(m)
          BY <4>1 DEF Eff, DeclaredOf
        <4> QED
          BY <2>1, <2>4, <4>1, <4>2
      <3> QED
        BY <3>1, <3>2
    <2> QED
      BY <2>1, <2>2, <2>3, <2>5, EachNoticed
  <1>2. CASE ImportState
    <2> DEFINE users == [n \in Names |-> IF job.bundle.state[n] # Unmeasured /\ (job.replace \/ state.users[n] = Unmeasured)
                                         THEN job.bundle.state[n] ELSE state.users[n]]
               needy == {n \in job.bundle.slots : Limited(Eff(n)) /\ ~HasSlot(state.slots, n)}
               slots == Assign(state.slots, needy, {})
    <2>1. /\ at = "importState" /\ at' \in {"importStats", "idle"} /\ UNCHANGED <<spool, policies>>
          /\ \/ /\ state' = [state EXCEPT !.users = users, !.slots = slots,
                           !.notified = [n \in Names |-> IF users[n] = state.users[n] THEN @[n] ELSE NoKeys]]
                /\ ghost' = [ghost EXCEPT !.noticed = [n \in Names |-> IF users[n] = state.users[n] THEN @[n] ELSE {}]]
             \/ UNCHANGED <<state, ghost>>
      BY <1>2 DEF ImportState
    <2>2. at \notin Telltale /\ at' \notin Telltale
      BY <2>1 DEF Telltale
    <2> HIDE DEF users, slots, needy
    <2>3. CASE UNCHANGED <<state, ghost>>
      BY <2>1, <2>2, <2>3, AloneNoticed
    <2>4. CASE /\ state' = [state EXCEPT !.users = users, !.slots = slots,
                           !.notified = [n \in Names |-> IF users[n] = state.users[n] THEN @[n] ELSE NoKeys]]
               /\ ghost' = [ghost EXCEPT !.noticed = [n \in Names |-> IF users[n] = state.users[n] THEN @[n] ELSE {}]]
      <3>1. state'.users = users /\ ghost'.again = ghost.again
            /\ \A n \in Names : IF users[n] = state.users[n]
                                THEN state'.notified[n] = state.notified[n] /\ ghost'.noticed[n] = ghost.noticed[n]
                                ELSE ghost'.noticed[n] = {}
        BY <2>4 DEF ShapeInv, StateFields, GhostFields
      <3>2. \A m \in Names : Remembered(ghost.noticed[m], state.users[m].start, state.notified[m], Eff(m)["expiresAt"])
        BY <2>2, ElsewhereNoticed
      <3>3. \A m \in Names : Eff(m)' = Eff(m)
        BY <2>1 DEF Eff, DeclaredOf
      <3>4. ASSUME NEW m \in Names
            PROVE  /\ ghost'.noticed[m] = {} \/ ghost.noticed[m] # {}
                   /\ Remembered(ghost'.noticed[m], state'.users[m].start, state'.notified[m], Eff(m)'["expiresAt"])
        BY <3>1, <3>2, <3>3, NothingRemembered
      <3> QED
        BY <2>1, <2>2, <3>1, <3>4, EachNoticed
    <2> QED
      BY <2>1, <2>3, <2>4
  <1> QED
    BY <1>1, <1>2

\* Every step of a manager that does not die sends nothing twice.
LEMMA NoticedStep ==
  ConfInv /\ ShapeInv /\ EntriesInv /\ "crash" \notin conf.faultKinds /\ NoticedInv /\ [Next]_vars => NoticedInv'
  <1> SUFFICES ASSUME ConfInv, ShapeInv, EntriesInv, "crash" \notin conf.faultKinds, NoticedInv, [Next]_vars
               PROVE  NoticedInv'
    OBVIOUS
  <1> USE DEF vars, outside
  <1>1. CASE UNCHANGED vars
    BY <1>1, AloneNoticed
  <1>2. ASSUME NEW n \in Names, Request(n) PROVE NoticedInv'
    <2>1. CASE Patch(n)
      BY <2>1, SetNoticed DEF Patch, Asked, Telltale
    <2>2. CASE Create(n)
      <3>1. ghost'.noticed = ghost.noticed /\ ghost'.again = ghost.again
        BY <2>2 DEF Create, ShapeInv, GhostFields
      <3>2. at = "idle" /\ at' = "createPolicies" /\ spool \subseteq spool' /\ UNCHANGED <<policies, state>>
        BY <2>2 DEF Create, Asked
      <3> QED
        BY <3>1, <3>2, AloneNoticed DEF Telltale
    <2>3. CASE Delete(n)
      <3>1. at = "idle" /\ at' = "deletePolicies" /\ job'.name = n /\ n \in spool /\ spool' = spool \ {n}
            /\ UNCHANGED <<policies, state, ghost>>
        BY <2>3 DEF Delete, DeleteFile, Asked, NoJob
      <3> QED
        BY <3>1, LeaveNoticed DEF Telltale
    <2>4. CASE Reset(n)
      <3>1. at = "idle" /\ at' = "apply" /\ FreshPeriod(n) /\ UNCHANGED <<policies, spool>>
        BY <2>4 DEF Reset, Asked
      <3> QED
        BY <3>1, FreshNoticed DEF Telltale
    <2> QED
      BY <1>2, <2>1, <2>2, <2>3, <2>4 DEF Request
  <1>3. CASE Import
    <2>1. ghost'.noticed = ghost.noticed /\ ghost'.again = ghost.again
      BY <1>3 DEF Import, ShapeInv, GhostFields
    <2>2. at = "idle" /\ at' = "importPolicies" /\ spool \subseteq spool' /\ UNCHANGED <<policies, state>>
      BY <1>3 DEF Import, Asked
    <2> QED
      BY <2>1, <2>2, AloneNoticed DEF Telltale
  <1>4. ASSUME NEW c \in Clients, Extending(c) \/ \E n \in Names : ExtendRead(c, n) PROVE NoticedInv'
    <2>1. CASE ExtendReset(c)
      <3>1. at = "idle" /\ at' = "extend" /\ FreshPeriod(wanted[c].name) /\ UNCHANGED <<policies, spool>>
        BY <2>1 DEF ExtendReset
      <3> QED
        BY <3>1, FreshNoticed DEF Telltale
    <2>2. CASE ExtendWrite(c)
      <3>1. at \notin Telltale /\ spool' = spool /\ SetPolicy(wanted[c].name, wanted[c].fields, {})
        BY <2>2 DEF ExtendWrite, Extends, Telltale
      <3> QED
        BY <3>1, SetNoticed
    <2>3. CASE ExtendRefused(c)
      <3>1. at \notin Telltale /\ at' \notin Telltale /\ UNCHANGED <<policies, spool, state, ghost>>
        BY <2>3 DEF ExtendRefused, Extends, Telltale
      <3> QED
        BY <3>1, AloneNoticed
    <2>4. CASE \E n \in Names : ExtendRead(c, n)
      BY <2>4, AloneNoticed DEF ExtendRead
    <2> QED
      BY <1>4, <2>1, <2>2, <2>3, <2>4 DEF Extending
  <1>5. CASE Work
    <2>1. CASE (SetPolicySave \/ CreatePolicies) /\ job.name \in Names
      <3>1. at \notin Telltale /\ at' \notin Telltale /\ UNCHANGED <<state, spool>> /\ SavePolicy(job.name, job.fields)
        BY <2>1 DEF SetPolicySave, CreatePolicies, Telltale
      <3> QED
        BY <2>1, <3>1, SaveNoticed
    <2>2. CASE (SetPolicySave \/ CreatePolicies) /\ job.name \notin Names
      <3>1. at \notin Telltale /\ at' \notin Telltale /\ UNCHANGED <<state, spool>> /\ SavePolicy(job.name, job.fields)
        BY <2>2 DEF SetPolicySave, CreatePolicies, Telltale
      <3>2. policies' = [policies EXCEPT ![job.name] = job.fields]
            /\ ghost' = [ghost EXCEPT !.owner[job.name] = ghost.made[job.name],
              !.noticed[job.name] =
                IF Effective(DeclaredOf(job.name), job.fields)["expiresAt"] = Eff(job.name)["expiresAt"]
                THEN @ ELSE {x \in @ : x[1] # "expiring"}]
        BY <3>1 DEF SavePolicy
      <3>3. \A m \in Names : Eff(m)' = Eff(m)
        BY <2>2, <3>2 DEF ShapeInv, Eff, DeclaredOf
      <3>4. ghost'.again = ghost.again /\ \A m \in Names : ghost'.noticed[m] = ghost.noticed[m]
        <4> DEFINE entry == IF Effective(DeclaredOf(job.name), job.fields)["expiresAt"] = Eff(job.name)["expiresAt"]
                            THEN ghost.noticed[job.name] ELSE {x \in ghost.noticed[job.name] : x[1] # "expiring"}
        <4>1. ghost'.again = ghost.again /\ ghost'.noticed = [ghost.noticed EXCEPT ![job.name] = entry]
          BY <3>2 DEF ShapeInv, GhostFields
        <4> HIDE DEF entry
        <4> QED
          BY <2>2, <4>1 DEF EntriesInv
      <3>5. \A m \in Names : Remembered(ghost.noticed[m], state.users[m].start, state.notified[m], Eff(m)["expiresAt"])
        BY <3>1, ElsewhereNoticed
      <3>6. ASSUME NEW m \in Names
            PROVE  /\ ghost'.noticed[m] = {} \/ ghost.noticed[m] # {}
                   /\ Remembered(ghost'.noticed[m], state'.users[m].start, state'.notified[m], Eff(m)'["expiresAt"])
        BY <3>1, <3>3, <3>4, <3>5
      <3> QED
        BY <3>1, <3>4, <3>6, EachNoticed
    <2>3. CASE CreateState
      <3> DEFINE n == job.name
      <3>1. at \notin Telltale /\ at' \notin Telltale /\ UNCHANGED <<policies, spool>>
        BY <2>3 DEF CreateState, Telltale
      <3>2. /\ state'.users = [state.users EXCEPT ![n] = StartPeriod(days[n], now)]
            /\ state'.notified = [state.notified EXCEPT ![n] = NoKeys]
            /\ ghost'.noticed = [ghost.noticed EXCEPT ![n] = {}] /\ ghost'.again = ghost.again
        BY <2>3 DEF CreateState, ShapeInv, StateFields, GhostFields
      <3> HIDE DEF n
      <3>3. \A m \in Names : Remembered(ghost.noticed[m], state.users[m].start, state.notified[m], Eff(m)["expiresAt"])
        BY <3>1, ElsewhereNoticed
      <3>4. \A m \in Names : Eff(m)' = Eff(m)
        BY <3>1 DEF Eff, DeclaredOf
      <3>5. ASSUME NEW m \in Names
            PROVE  /\ ghost'.noticed[m] = {} \/ ghost.noticed[m] # {}
                   /\ Remembered(ghost'.noticed[m], state'.users[m].start, state'.notified[m], Eff(m)'["expiresAt"])
        <4>1. CASE m = n
          BY <3>2, <4>1, NothingRemembered DEF EntriesInv
        <4>2. CASE m # n
          <5>1. ghost'.noticed[m] = ghost.noticed[m] /\ state'.users[m] = state.users[m] /\ state'.notified[m] = state.notified[m]
            BY <3>2, <4>2 DEF EntriesInv
          <5> QED
            BY <3>3, <3>4, <5>1
        <4> QED
          BY <4>1, <4>2
      <3> QED
        BY <3>1, <3>2, <3>5, EachNoticed
    <2>4. CASE DeletePolicies
      <3>1. at = "deletePolicies" /\ at' = "deleteState" /\ policies' = [policies EXCEPT ![job.name] = <<>>]
            /\ UNCHANGED <<spool, state, job, ghost>>
        BY <2>4 DEF DeletePolicies
      <3>2. InForce' = InForce /\ Known' = Known
        BY <3>1 DEF InForce, Known
      <3>3. \A m \in Names \ {job.name} : Eff(m)' = Eff(m)
        BY <3>1 DEF Eff, DeclaredOf, ShapeInv
      <3>4. \A m \in Names \ {job.name} : RememberedOf(m)'
        BY <3>1, <3>2, <3>3 DEF NoticedInv, RememberedOf
      <3> QED
        BY <3>1, <3>2, <3>4 DEF NoticedInv
    <2>5. CASE DeleteState
      <3>1. at = "deleteState" /\ at' = "apply" /\ state' = Forgotten(state, {job.name}) /\ UNCHANGED <<spool, policies>>
            /\ ghost'.again = ghost.again /\ ghost'.noticed = [ghost.noticed EXCEPT ![job.name] = {}]
        BY <2>5 DEF DeleteState, ShapeInv, GhostFields
      <3>2. InForce' = state' /\ InForce = state /\ Known' = Known /\ \A m : Eff(m)' = Eff(m)
        BY <3>1 DEF InForce, Known, Eff, DeclaredOf
      <3>3. ASSUME NEW m \in Names PROVE RememberedOf(m)'
        <4>1. CASE m = job.name
          <5>1. ghost'.noticed[m] = {}
            BY <3>1, <4>1 DEF EntriesInv
          <5> QED
            BY <5>1, NothingRemembered DEF RememberedOf
        <4>2. CASE m # job.name
          <5>1. ghost'.noticed[m] = ghost.noticed[m] /\ state'.users[m] = state.users[m] /\ state'.notified[m] = state.notified[m]
            BY <3>1, <4>2 DEF EntriesInv, Forgotten
          <5>2. RememberedOf(m)
            BY <3>1, <4>2 DEF NoticedInv
          <5> QED
            BY <3>2, <5>1, <5>2 DEF RememberedOf
        <4> QED
          BY <4>1, <4>2
      <3>4. \A m \in Names \ Known' : ghost'.noticed[m] = {}
        BY <3>1, <3>2 DEF NoticedInv, EntriesInv
      <3> QED
        BY <3>1, <3>3, <3>4 DEF NoticedInv
    <2>6. CASE ImportPolicies \/ ImportState
      BY <2>6, ImportNoticed
    <2>7. CASE ImportStats \/ TickEnd
      <3>1. at \notin Telltale /\ at' \notin Telltale /\ UNCHANGED <<policies, spool, state, ghost>>
        BY <2>7 DEF ImportStats, TickEnd, Telltale
      <3> QED
        BY <3>1, AloneNoticed
    <2>8. CASE Apply
      <3>1. at = "apply" /\ at' \in {"tickPurge", "idle"} /\ UNCHANGED <<policies, spool, state>>
        BY <2>8 DEF Apply
      <3>2. ghost'.noticed = ghost.noticed /\ ghost'.again = ghost.again
        BY <2>8 DEF Apply, ShapeInv, GhostFields
      <3> QED
        BY <3>1, <3>2, AloneNoticed DEF Telltale
    <2>9. CASE TickSave
      <3>1. at = "tickSave" /\ at' = "tickActivate" /\ state' = job.state /\ job' = [job EXCEPT !.state = Null]
            /\ UNCHANGED <<spool, policies, ghost>>
        BY <2>9 DEF TickSave
      <3>2. job'.came = job.came
        BY <3>1
      <3>3. InForce' = InForce /\ Known' = Known /\ \A m : Eff(m)' = Eff(m)
        BY <3>1 DEF InForce, Known, Eff, DeclaredOf
      <3>4. \A m \in Names : RememberedOf(m)'
        BY <3>1, <3>3 DEF RememberedOf, NoticedInv
      <3> QED
        BY <3>1, <3>2, <3>3, <3>4 DEF NoticedInv
    <2>10. CASE TickActivate
      <3>1. at = "tickActivate" /\ at' = "tickPurge" /\ UNCHANGED <<spool, state, ghost>>
            /\ \A n \in Names \ job.came : policies'[n] = policies[n]
        BY <2>10 DEF TickActivate
      <3>2. InForce' = InForce /\ Known' = Known
        BY <3>1 DEF InForce, Known
      <3>3. ASSUME NEW m \in Names PROVE RememberedOf(m)'
        <4>1. RememberedOf(m)
          BY <3>1 DEF NoticedInv
        <4>2. CASE m \in job.came
          <5>1. Eff(m)["expiresAt"] = Null
            BY <3>1, <4>2 DEF NoticedInv
          <5>2. Remembered(ghost.noticed[m], InForce.users[m].start, InForce.notified[m], Eff(m)'["expiresAt"])
            BY <4>1, <5>1 DEF RememberedOf, Remembered
          <5> QED
            BY <3>1, <3>2, <5>2 DEF RememberedOf
        <4>3. CASE m \notin job.came
          <5>1. Eff(m)' = Eff(m)
            BY <3>1, <4>3 DEF Eff, DeclaredOf
          <5> QED
            BY <3>1, <3>2, <4>1, <5>1 DEF RememberedOf
        <4> QED
          BY <4>2, <4>3
      <3> QED
        BY <3>1, <3>2, <3>3 DEF NoticedInv
    <2>11. CASE TickPurge
      <3>1. PICK n \in spool : at = "tickPurge" /\ at' = "deletePolicies" /\ job' = [job EXCEPT !.name = n]
                               /\ spool' = spool \ {n} /\ UNCHANGED <<policies, state, ghost>>
        BY <2>11 DEF TickPurge, DeleteFile
      <3>2. job'.name = n
        BY <3>1 DEF ShapeInv
      <3> QED
        BY <3>1, <3>2, LeaveNoticed DEF Telltale
    <2> QED
      BY <1>5, <2>1, <2>2, <2>3, <2>4, <2>5, <2>6, <2>7, <2>8, <2>9, <2>10, <2>11 DEF Work
  <1>6. CASE ApplyFails
    <2>1. at = "apply" /\ at' = "idle" /\ UNCHANGED <<policies, spool, state, ghost>>
      BY <1>6 DEF ApplyFails
    <2> QED
      BY <2>1, AloneNoticed DEF Telltale
  <1>7. CASE TickBegin
    BY <1>7, TickNoticed
  <1>8. CASE ToClock \/ Unban
    BY <1>8, AloneNoticed DEF ToClock, Unban
  <1>9. ASSUME NEW n \in Names, Spend(n) \/ \E ip \in Ips : Connect(n, ip) \/ Disconnect(n, ip) PROVE NoticedInv'
    <2>1. ghost'.noticed = ghost.noticed /\ ghost'.again = ghost.again
      BY <1>9 DEF Spend, Connect, Disconnect, ShapeInv, GhostFields
    <2>2. UNCHANGED <<spool, policies, state, at, job>>
      BY <1>9 DEF Spend, Connect, Disconnect
    <2> QED
      BY <2>1, <2>2, AloneNoticed
  <1>10. CASE Crash
    BY <1>10 DEF Crash, Fault
  <1> QED
    BY <1>1, <1>2, <1>3, <1>4, <1>5, <1>6, <1>7, <1>8, <1>9, <1>10 DEF Next

\* At first the entries are entries.
LEMMA EntriesInit == Init => EntriesInv
  <1> SUFFICES ASSUME Init PROVE EntriesInv
    OBVIOUS
  <1>1. conf.end \in Moments
    BY ConfInit DEF ConfInv
  <1>2. now \in Moments /\ now <= conf.end
    <2>1. conf.end \in Nat /\ 1 <= Day(conf.end) /\ Midnight(1) \in Nat /\ 1 \in Nat
      BY <1>1, MomentsIn, DayOf
    <2>2. Midnight(1) <= conf.end
      BY <2>1, DayOf
    <2>3. FirstDay[Len(Months)] \in Nat
      BY Calendar
    <2>4. Midnight(FirstDay[Len(Months)]) \in Nat
      BY <2>3, DayOf
    <2>5. Midnight(1) \in Moments
      BY <1>1, <2>1, <2>2, <2>4 DEF Moments
    <2> QED
      BY <2>2, <2>5 DEF Init
  <1>3. days \in [Names -> [1..Day(conf.end) -> Nat]]
    BY DEF Init
  <1>4. state.users \in [Names -> UserEntry] /\ DOMAIN state.notified = Names
    BY DEF Init, Unmeasured, UserEntry
  <1>5. at = "idle" /\ DOMAIN ghost.noticed = Names
    BY DEF Init
  <1> QED
    BY <1>2, <1>3, <1>4, <1>5 DEF EntriesInv, Importing

\* Whatever the requests, the clock and the traffic, as long as the manager does
\* not die, each threshold is told once per period and each expiry once per expiry.
THEOREM NoticedKept == Spec => []NoticedOnce
  <1> DEFINE Inv == ConfInv /\ ShapeInv /\ EntriesInv /\ ("crash" \in conf.faultKinds \/ NoticedInv)
  <1>1. Init => Inv
    <2>1. Init => NoticedInv
      BY DEF Init, NoticedInv, RememberedOf, Remembered
    <2> QED
      BY <2>1, ConfInit, ShapeInit, EntriesInit
  <1>2. Inv /\ [Next]_vars => Inv'
    <2> SUFFICES ASSUME Inv, [Next]_vars PROVE Inv'
      OBVIOUS
    <2>1. ConfInv' /\ ShapeInv' /\ EntriesInv'
      BY ConfStep, ShapeStep, EntriesStep
    <2>2. conf'.faultKinds = conf.faultKinds
      BY ConfStep DEF SameConf, ConfFields
    <2> QED
      BY <2>1, <2>2, NoticedStep
  <1>3. Inv => NoticedOnce
    BY DEF NoticedInv, NoticedOnce
  <1> QED
    BY <1>1, <1>2, <1>3, PTL DEF Spec

-----------------------------------------------------------------------------
(* A user's traffic                                                        *)

\* What a user has left of a period's days, less what the first had before it.
Left(ds, u) == Total(DaysFrom(ds, Day(u.start))) - u.base

\* A period's traffic is that, or nothing.
LEMMA TrafficIs ==
  ASSUME NEW n \in Nat, NEW ds \in [1..n -> Nat], NEW u \in UserEntry
  PROVE  /\ Len(ds) = n
         /\ DaysFrom(ds, Day(u.start)) \in [1..n -> Nat]
         /\ Left(ds, u) \in Int
         /\ PeriodTraffic(ds, u) = IF u.start = 0 \/ Left(ds, u) < 0 THEN 0 ELSE Left(ds, u)
         /\ PeriodTraffic(ds, u) \in Nat
  <1>1. Len(ds) = n
    OBVIOUS
  <1>2. DaysFrom(ds, Day(u.start)) \in [1..n -> Nat]
    BY <1>1 DEF DaysFrom
  <1>3. Total(DaysFrom(ds, Day(u.start))) \in Nat
    <2>1. PICK f : SumsUp(f, DaysFrom(ds, Day(u.start)), n, 0) /\ f[n] = Total(DaysFrom(ds, Day(u.start)))
      BY <1>2, TotalIs
    <2> QED
      BY <2>1 DEF SumsUp
  <1>4. Left(ds, u) \in Int
    BY <1>3 DEF Left, UserEntry
  <1>5. ASSUME NEW x \in Int PROVE Max({0, x}) = IF x < 0 THEN 0 ELSE x
    <2> DEFINE m == IF x < 0 THEN 0 ELSE x
    <2>1. m \in {0, x} /\ \A y \in {0, x} : m >= y
      OBVIOUS
    <2>2. \A z \in {0, x} : (\A y \in {0, x} : z >= y) => z = m
      OBVIOUS
    <2>3. Max({0, x}) = CHOOSE z \in {0, x} : \A y \in {0, x} : z >= y
      BY DEF Max
    <2> HIDE DEF m
    <2> QED
      BY <2>1, <2>2, <2>3 DEF m
  <1>6. PeriodTraffic(ds, u) = IF u.start = 0 THEN 0 ELSE Max({0, Left(ds, u)})
    BY DEF PeriodTraffic, Left
  <1>7. PeriodTraffic(ds, u) = IF u.start = 0 \/ Left(ds, u) < 0 THEN 0 ELSE Left(ds, u)
    BY <1>4, <1>5, <1>6
  <1> QED
    BY <1>1, <1>2, <1>4, <1>7

\* A period that begins now, on the last day that has anything, has no traffic.
LEMMA StartTraffic ==
  ASSUME ConfInv, EntriesInv, NEW n \in Names, \A d \in 1..Day(conf.end) : d > Day(now) => days[n][d] = 0
  PROVE  PeriodTraffic(days[n], StartPeriod(days[n], now)) = 0
  <1> DEFINE N == Day(conf.end)
             k == Day(now)
             ds == days[n]
             u == StartPeriod(ds, now)
             s == DaysFrom(ds, Day(u.start))
  <1>1. N \in Nat /\ k \in 1..N /\ ds \in [1..N -> Nat]
    BY TodayCounted DEF EntriesInv
  <1>2. u \in UserEntry /\ u.start = now /\ u.base = ds[k]
    BY StartEntry
  <1> HIDE DEF u, N, k, ds
  <1>3. s \in [1..N -> Nat] /\ Len(ds) = N
    BY <1>1, <1>2, TrafficIs
  <1>4. s = [d \in 1..Len(ds) |-> IF d >= k THEN ds[d] ELSE 0]
    BY <1>2 DEF DaysFrom, k
  <1>5. \A d \in 1..N : d # k => s[d] = 0
    BY <1>1, <1>3, <1>4 DEF N, k, ds
  <1>6. s[k] = ds[k]
    BY <1>1, <1>3, <1>4
  <1> HIDE DEF s
  <1>7. Total(s) \in Nat /\ Total(s) <= s[k]
    BY <1>1, <1>3, <1>5, TotalOfOne
  <1>8. Left(ds, u) <= 0 /\ Left(ds, u) \in Int
    <2>1. ds[k] \in Nat
      BY <1>1
    <2>2. Left(ds, u) = Total(s) - ds[k]
      BY <1>2 DEF Left, s
    <2> QED
      BY <1>6, <1>7, <2>1, <2>2
  <1>9. PeriodTraffic(ds, u) = 0
    BY <1>1, <1>2, <1>8, TrafficIs
  <1> QED
    BY <1>9 DEF ds, u

\* A period that goes on from a later day has no more traffic than before.
LEMMA LaterTraffic ==
  ASSUME NEW n \in Nat, NEW ds \in [1..n -> Nat], NEW u \in UserEntry, NEW v \in UserEntry,
         u.start # 0, v.start # 0, v.base = 0, Day(u.start) \in 1..n, Day(v.start) \in Nat, Day(v.start) > Day(u.start),
         u.base <= ds[Day(u.start)]
  PROVE  PeriodTraffic(ds, v) <= PeriodTraffic(ds, u)
  <1> DEFINE k == Day(u.start)
             l == Day(v.start)
             s == DaysFrom(ds, l)
             t == DaysFrom(ds, k)
             c == -ds[k]
  <1>1. Len(ds) = n /\ s \in [1..n -> Nat] /\ t \in [1..n -> Nat]
    BY TrafficIs
  <1>2. ds[k] \in Nat /\ c \in Int /\ k \in 1..n
    OBVIOUS
  <1>3. Under(s, t, n, k, c)
    <2>1. \A i \in 1..n : s[i] = (IF i >= l THEN ds[i] ELSE 0) /\ t[i] = IF i >= k THEN ds[i] ELSE 0
      BY <1>1 DEF DaysFrom
    <2> HIDE DEF k, l, s, t
    <2>2. l \in Nat /\ k \in Nat /\ l > k
      BY <1>2 DEF k, l
    <2>3. ASSUME NEW i \in 1..n, i # k PROVE s[i] <= t[i]
      BY <2>1, <2>2
    <2>4. s[k] = 0 /\ t[k] = ds[k]
      BY <1>2, <2>1, <2>2
    <2>5. s[k] <= t[k] + c
      BY <1>2, <2>4
    <2> QED
      BY <2>3, <2>5 DEF Under
  <1> HIDE DEF k, l, s, t, c
  <1>4. Total(s) \in Nat /\ Total(t) \in Nat /\ Total(s) <= Total(t) + c
    BY <1>1, <1>2, <1>3, TotalDiffers
  <1>5. Left(ds, v) = Total(s) - 0 /\ Left(ds, u) = Total(t) - u.base
    BY DEF Left, k, l, s, t
  <1>6. u.base \in Nat /\ u.base <= ds[k]
    BY DEF UserEntry, k
  <1>7. Left(ds, v) <= Left(ds, u)
    <2>1. Total(s) <= Total(t) - ds[k]
      BY <1>2, <1>4 DEF c
    <2>2. Total(t) - ds[k] <= Total(t) - u.base
      BY <1>2, <1>4, <1>6
    <2> QED
      BY <1>2, <1>4, <1>5, <1>6, <2>1, <2>2
  <1>8. Left(ds, v) \in Int /\ Left(ds, u) \in Int
    BY TrafficIs
  <1>9. /\ PeriodTraffic(ds, u) = IF u.start = 0 \/ Left(ds, u) < 0 THEN 0 ELSE Left(ds, u)
        /\ PeriodTraffic(ds, v) = IF v.start = 0 \/ Left(ds, v) < 0 THEN 0 ELSE Left(ds, v)
    BY TrafficIs
  <1> QED
    BY <1>7, <1>8, <1>9

\* One more on one day is at most one more in all.
LEMMA MoreTraffic ==
  ASSUME NEW n \in Nat, NEW ds \in [1..n -> Nat], NEW u \in UserEntry, NEW k \in 1..n
  PROVE  PeriodTraffic([ds EXCEPT ![k] = @ + 1], u) <= PeriodTraffic(ds, u) + 1
  <1> DEFINE es == [ds EXCEPT ![k] = @ + 1]
             s == DaysFrom(es, Day(u.start))
             t == DaysFrom(ds, Day(u.start))
  <1>0. es \in [1..n -> Nat] /\ es[k] = ds[k] + 1 /\ \A i \in 1..n : i # k => es[i] = ds[i]
    OBVIOUS
  <1> HIDE DEF es
  <1>1. Len(ds) = n /\ Len(es) = n /\ s \in [1..n -> Nat] /\ t \in [1..n -> Nat]
    BY <1>0, TrafficIs
  <1>2. Under(s, t, n, k, 1)
    <2>1. \A i \in 1..n : /\ s[i] = IF i >= Day(u.start) THEN es[i] ELSE 0
                          /\ t[i] = IF i >= Day(u.start) THEN ds[i] ELSE 0
      BY <1>1 DEF DaysFrom
    <2> HIDE DEF s, t
    <2>2. ASSUME NEW i \in 1..n, i # k PROVE s[i] <= t[i]
      <3>1. s[i] = t[i] /\ s[i] \in Nat
        BY <1>0, <1>1, <2>1, <2>2
      <3> QED
        BY <3>1
    <2>3. s[k] = t[k] \/ s[k] = t[k] + 1
      BY <1>0, <2>1
    <2>4. s[k] \in Nat /\ t[k] \in Nat
      BY <1>1
    <2>5. s[k] <= t[k] + 1
      BY <2>3, <2>4
    <2> QED
      BY <2>2, <2>5 DEF Under
  <1> HIDE DEF s, t
  <1>3. Total(s) \in Nat /\ Total(t) \in Nat /\ Total(s) <= Total(t) + 1
    <2> DEFINE one == 1
    <2>1. one \in Int /\ Under(s, t, n, k, one)
      BY <1>2
    <2> HIDE DEF one
    <2>2. Total(s) \in Nat /\ Total(t) \in Nat /\ Total(s) <= Total(t) + one
      BY <1>1, <2>1, TotalDiffers
    <2> QED
      BY <2>2 DEF one
  <1>4. Left(es, u) = Total(s) - u.base /\ Left(ds, u) = Total(t) - u.base /\ u.base \in Nat
    BY DEF Left, s, t, UserEntry
  <1>5. Left(es, u) <= Left(ds, u) + 1 /\ Left(es, u) \in Int /\ Left(ds, u) \in Int
    BY <1>3, <1>4
  <1>6. /\ PeriodTraffic(ds, u) = IF u.start = 0 \/ Left(ds, u) < 0 THEN 0 ELSE Left(ds, u)
        /\ PeriodTraffic(es, u) = IF u.start = 0 \/ Left(es, u) < 0 THEN 0 ELSE Left(es, u)
    BY <1>0, TrafficIs
  <1>7. PeriodTraffic(es, u) <= PeriodTraffic(ds, u) + 1
    BY <1>5, <1>6
  <1> QED
    BY <1>7 DEF es

-----------------------------------------------------------------------------
(* Where what is counted is the user's own                                 *)

\* A scenario in which a period counts days of one user: nothing is imported, as an
\* import keeps the days the file has, and a crash comes at most once.
Owning == "import" \notin conf.ops /\ ("crash" \notin conf.faultKinds \/ conf.faults <= 1)

Making   == {"createPolicies", "createState"}
Deleting == {"deletePolicies", "deleteState"}

\* An entry is of the past and counts no more of its first day than there is, and
\* its traffic is what the user spent, but for what a crash left of one who has gone.
Own(n, u) ==
  /\ u.start # 0 => u.start <= now /\ u.base <= days[n][Day(u.start)]
  /\ \/ PeriodTraffic(days[n], u) <= ghost.spent[n]
     \/ CrashSpent /\ (n \notin Known \/ (at \in Making /\ job.name = n))
  /\ n \in Known \/ u = Unmeasured \/ CrashSpent \/ (at \in Deleting /\ job.name = n)

\* So are the state's entries and those a tick is about to save; no day to come has
\* anything, and who is made has a file.
OwnInv ==
  /\ \A n \in Names : Own(n, state.users[n])
  /\ at = "tickSave" => \A n \in Names : Own(n, job.state.users[n])
  /\ ghost.spent \in [Names -> Nat]
  /\ \A n \in Names : \A d \in 1..Day(conf.end) : d > Day(now) => days[n][d] = 0
  /\ at \in Making => job.name \in spool
  /\ at \notin Importing

\* A user's entry stays their own while nothing of theirs changes.
LEMMA SameOwn ==
  ASSUME NEW n, NEW u, Own(n, u), UNCHANGED <<now, days>>, ghost'.spent[n] = ghost.spent[n],
         n \in Known <=> n \in Known', CrashSpent => CrashSpent',
         at \in Deleting /\ job.name = n => at' \in Deleting /\ job'.name = n,
         at \in Making /\ job.name = n => at' \in Making /\ job'.name = n
  PROVE  Own(n, u)'
  <1>1. PeriodTraffic(days[n], u) = PeriodTraffic(days'[n], u)
    OBVIOUS
  <1> QED
    BY <1>1 DEF Own

\* A crash that has been has been.
LEMMA CrashSpentStays == ConfInv /\ ShapeInv /\ [Next]_vars => (CrashSpent => CrashSpent')
  <1> SUFFICES ASSUME ConfInv, ShapeInv, [Next]_vars, CrashSpent PROVE CrashSpent'
    OBVIOUS
  <1>1. conf'.faults = conf.faults /\ conf'.faultKinds = conf.faultKinds /\ conf.faults \in Nat
    BY ConfStep DEF SameConf, ConfFields, ConfInv
  <1>2. faults' \in {faults, faults + 1} /\ faults \in Nat
    BY FaultsGrow DEF ShapeInv
  <1> QED
    BY <1>1, <1>2 DEF CrashSpent

\* Steps that leave entries, counters and clock alone.
LEMMA AloneOwn ==
  ASSUME OwnInv, UNCHANGED <<now, days, spool>>, conf'.end = conf.end, CrashSpent => CrashSpent',
         state'.users = state.users, ghost'.spent = ghost.spent,
         \/ UNCHANGED <<at, job>>
         \/ at \notin Making \union Deleting /\ at' \notin Making \union Importing \union {"tickSave"}
         \/ at \in Making /\ at' \in Making /\ UNCHANGED job
         \/ at \in Deleting /\ at' \in Deleting /\ UNCHANGED job
  PROVE  OwnInv'
  <1>1. Known' = Known
    BY DEF Known
  <1>2. \A n \in Names : /\ at \in Deleting /\ job.name = n => at' \in Deleting /\ job'.name = n
                         /\ at \in Making /\ job.name = n => at' \in Making /\ job'.name = n
    BY DEF Making, Deleting
  <1>3. ASSUME NEW n \in Names PROVE Own(n, state.users[n])'
    <2>1. PICK u : u = state.users[n]
      OBVIOUS
    <2>2. Own(n, u)'
      BY <1>1, <1>2, <2>1, SameOwn DEF OwnInv
    <2> QED
      BY <2>1, <2>2 DEF Own
  <1>4. ASSUME NEW n \in Names, at' = "tickSave" PROVE Own(n, job.state.users[n])'
    <2>1. at = "tickSave" /\ UNCHANGED <<at, job>>
      BY <1>4 DEF Making, Deleting
    <2>2. PICK u : u = job.state.users[n]
      OBVIOUS
    <2>3. Own(n, u)'
      BY <1>1, <1>2, <2>1, <2>2, SameOwn DEF OwnInv
    <2> QED
      BY <2>1, <2>2, <2>3 DEF Own
  <1>5. at' \notin Importing /\ (at' \in Making => job'.name \in spool')
    BY DEF OwnInv, Making, Deleting, Importing
  <1>6. ghost'.spent \in [Names -> Nat]
    BY DEF OwnInv
  <1>7. \A n \in Names : \A d \in 1..Day(conf'.end) : d > Day(now') => days'[n][d] = 0
    BY DEF OwnInv
  <1> QED
    BY <1>3, <1>4, <1>5, <1>6, <1>7 DEF OwnInv

-----------------------------------------------------------------------------
(* Steps that change entries                                               *)

\* A period of a known user's that begins now is their own.
LEMMA StartOwn ==
  ASSUME ConfInv, EntriesInv, OwnInv, NEW n \in Names, n \in Known', UNCHANGED <<now, days>>, ghost'.spent[n] \in Nat
  PROVE  Own(n, StartPeriod(days[n], now))'
  <1> DEFINE u == StartPeriod(days[n], now)
  <1>1. PeriodTraffic(days[n], u) = 0
    BY StartTraffic DEF OwnInv
  <1>2. u.start = now /\ u.base = days[n][Day(now)]
    BY StartEntry
  <1>3. now \in Nat /\ days[n][Day(now)] \in Nat
    BY TodayCounted DEF EntriesInv
  <1>4. u' = u
    OBVIOUS
  <1> HIDE DEF u
  <1>5. u.start # 0 => u.start <= now /\ u.base <= days[n][Day(u.start)]
    BY <1>2, <1>3
  <1>6. PeriodTraffic(days'[n], u) <= ghost'.spent[n]
    BY <1>1
  <1>7. Own(n, u)'
    BY <1>4, <1>5, <1>6 DEF Own
  <1> QED
    BY <1>7 DEF u

\* A step that sets one entry anew, of a known user.
LEMMA StartsOwn ==
  ASSUME ConfInv, EntriesInv, OwnInv, UNCHANGED <<now, days, spool>>, conf'.end = conf.end, CrashSpent => CrashSpent',
         NEW n, n \in Known, n \in Names, state'.users = [state.users EXCEPT ![n] = StartPeriod(days[n], now)],
         ghost'.spent = ghost.spent, at \notin Deleting, at \in Making => job.name = n,
         at' \notin Making \union Importing \union {"tickSave"}
  PROVE  OwnInv'
  <1>1. Known' = Known
    BY DEF Known
  <1>2. ASSUME NEW m \in Names PROVE Own(m, state.users[m])'
    <2>1. CASE m = n
      <3>1. Own(n, StartPeriod(days[n], now))'
        BY <1>1, StartOwn DEF OwnInv
      <3>2. state'.users[m] = StartPeriod(days'[n], now')
        BY <2>1 DEF EntriesInv
      <3> QED
        BY <2>1, <3>1, <3>2 DEF Own
    <2>2. CASE m # n
      <3>1. PICK u : u = state.users[m]
        OBVIOUS
      <3>2. state'.users[m] = u
        BY <2>2, <3>1 DEF EntriesInv
      <3>3. Own(m, u)'
        BY <1>1, <2>2, <3>1, SameOwn DEF OwnInv
      <3> QED
        BY <3>2, <3>3 DEF Own
    <2> QED
      BY <2>1, <2>2
  <1>3. \A m \in Names : \A d \in 1..Day(conf'.end) : d > Day(now') => days'[m][d] = 0
    BY DEF OwnInv
  <1> QED
    BY <1>2, <1>3 DEF OwnInv

\* A period that begins anew.
LEMMA FreshOwn ==
  ASSUME ConfInv, ShapeInv, EntriesInv, OwnInv, UNCHANGED <<now, days, spool>>, conf'.end = conf.end,
         CrashSpent => CrashSpent', NEW n \in Known, FreshPeriod(n),
         at = "idle", at' \notin Making \union Importing \union {"tickSave"}
  PROVE  OwnInv'
  <1>1. /\ state'.users = [state.users EXCEPT ![n] = StartPeriod(days[n], now)]
        /\ ghost'.spent = ghost.spent
    BY DEF FreshPeriod, ShapeInv, StateFields, GhostFields
  <1>2. n \in Names
    BY DEF Known, Names, ShapeInv
  <1> QED
    BY <1>1, <1>2, StartsOwn DEF Deleting, Making

\* A policy that is set touches no entry.
LEMMA SetOwn ==
  ASSUME ShapeInv, EntriesInv, OwnInv, UNCHANGED <<now, days, spool>>, conf'.end = conf.end,
         CrashSpent => CrashSpent', NEW n, NEW fields, NEW unset, SetPolicy(n, fields, unset), at \in {"idle", "extend"}
  PROVE  OwnInv'
  <1>1. state'.users = state.users /\ at' \in {"setPolicy", "apply"}
    BY SetEntries
  <1>2. ghost'.spent = ghost.spent
    BY DEF SetPolicy, SavePolicy, ShapeInv, GhostFields
  <1> QED
    BY <1>1, <1>2, AloneOwn DEF Making, Deleting, Importing

\* Who is made has nothing of their own yet, nor an entry but what a crash left.
LEMMA CreateOwn ==
  ASSUME ShapeInv, EntriesInv, OwnInv, conf'.end = conf.end, CrashSpent => CrashSpent', NEW n, Create(n)
  PROVE  OwnInv'
  <1>1. /\ at = "idle" /\ at' = "createPolicies" /\ n \in Runtime \ spool /\ job'.name = n
        /\ spool' = spool \union {n} /\ UNCHANGED <<now, days, state>>
    BY DEF Create, Asked, NoJob, outside
  <1>2. ghost'.spent = [ghost.spent EXCEPT ![n] = 0]
    BY DEF Create, ShapeInv, GhostFields
  <1>3. n \in Names /\ n \notin Known /\ Known' = Known \union {n}
    BY <1>1, ManagerAssumption DEF Names, Known
  <1>4. at \notin Making /\ at \notin Deleting /\ at' \in Making /\ at' \notin Deleting
    BY <1>1 DEF Making, Deleting
  <1>5. ASSUME NEW m \in Names PROVE Own(m, state.users[m])'
    <2>1. PICK u : u = state.users[m] /\ u \in UserEntry
      BY DEF EntriesInv
    <2>2. Own(m, u)
      BY <2>1 DEF OwnInv
    <2>3. CASE m = n
      <3>1. u = Unmeasured \/ CrashSpent
        BY <1>3, <1>4, <2>2, <2>3 DEF Own
      <3>2. u = Unmeasured => PeriodTraffic(days[m], u) = 0
        BY DEF PeriodTraffic, Unmeasured
      <3>3. ghost'.spent[m] = 0
        BY <1>2, <1>3, <2>3 DEF OwnInv
      <3>4. PeriodTraffic(days'[m], u) <= ghost'.spent[m] \/ CrashSpent'
        BY <1>1, <3>1, <3>2, <3>3
      <3>5. m \in Known' /\ at' \in Making /\ job'.name = m
        BY <1>1, <1>3, <1>4, <2>3
      <3>6. u.start # 0 => u.start <= now' /\ u.base <= days'[m][Day(u.start)]
        BY <1>1, <2>2 DEF Own
      <3>7. Own(m, u)'
        BY <3>4, <3>5, <3>6 DEF Own
      <3> QED
        BY <1>1, <2>1, <3>7 DEF Own
    <2>4. CASE m # n
      <3>1. m \in Known <=> m \in Known'
        BY <1>3, <2>4
      <3>2. ghost'.spent[m] = ghost.spent[m]
        BY <1>2, <2>4 DEF OwnInv
      <3>3. Own(m, u)'
        BY <1>1, <1>4, <2>2, <3>1, <3>2, SameOwn
      <3> QED
        BY <1>1, <2>1, <3>3 DEF Own
    <2> QED
      BY <2>3, <2>4
  <1>6. ghost'.spent \in [Names -> Nat]
    <2>1. ghost.spent \in [Names -> Nat] /\ 0 \in Nat
      BY DEF OwnInv
    <2> QED
      BY <1>2, <2>1
  <1>7. at' # "tickSave" /\ at' \notin Importing /\ job'.name \in spool'
    BY <1>1 DEF Importing
  <1>8. \A m \in Names : \A d \in 1..Day(conf'.end) : d > Day(now') => days'[m][d] = 0
    BY <1>1 DEF OwnInv
  <1> QED
    BY <1>5, <1>6, <1>7, <1>8 DEF OwnInv

\* Who is deleted keeps their entry until it is forgotten.
LEMMA LeaveOwn ==
  ASSUME ShapeInv, OwnInv, UNCHANGED <<now, days, state, ghost>>, conf'.end = conf.end, CrashSpent => CrashSpent',
         NEW n \in spool, spool' = spool \ {n}, at \in {"idle", "tickPurge"}, at' = "deletePolicies", job'.name = n
  PROVE  OwnInv'
  <1>1. n \in Known /\ Known' = Known \ {n}
    BY ManagerAssumption DEF Known, ShapeInv
  <1>2. at \notin Making /\ at \notin Deleting /\ at' \notin Making /\ at' \in Deleting
    BY DEF Making, Deleting
  <1>3. ASSUME NEW m \in Names PROVE Own(m, state.users[m])'
    <2>1. PICK u : u = state.users[m]
      OBVIOUS
    <2>2. Own(m, u)
      BY <2>1 DEF OwnInv
    <2>3. CASE m = n
      <3>1. Own(m, u)'
        BY <1>1, <1>2, <2>2, <2>3 DEF Own
      <3> QED
        BY <2>1, <3>1 DEF Own
    <2>4. CASE m # n
      <3>1. m \in Known <=> m \in Known'
        BY <1>1, <2>4
      <3>2. Own(m, u)'
        BY <1>2, <2>2, <3>1, SameOwn
      <3> QED
        BY <2>1, <3>2 DEF Own
    <2> QED
      BY <2>3, <2>4
  <1>4. at' \notin Importing /\ at' # "tickSave"
    BY DEF Importing
  <1>5. \A m \in Names : \A d \in 1..Day(conf'.end) : d > Day(now') => days'[m][d] = 0
    BY DEF OwnInv
  <1> QED
    BY <1>2, <1>3, <1>4, <1>5 DEF OwnInv

-----------------------------------------------------------------------------
(* Steps of deletions and ticks                                            *)

\* Who is forgotten has no entry.
LEMMA ForgetOwn ==
  ASSUME ShapeInv, EntriesInv, OwnInv, conf'.end = conf.end, CrashSpent => CrashSpent', DeleteState
  PROVE  OwnInv'
  <1>1. at = "deleteState" /\ at' = "apply" /\ UNCHANGED <<now, days, spool>>
        /\ state'.users = [n \in Names |-> IF n = job.name THEN Unmeasured ELSE state.users[n]]
    BY DEF DeleteState, Forgotten, outside
  <1>2. ghost'.spent = ghost.spent
    BY DEF DeleteState, ShapeInv, GhostFields
  <1>3. Known' = Known
    BY <1>1 DEF Known
  <1>4. at \notin Making /\ at' \notin Making
    BY <1>1 DEF Making
  <1>5. ASSUME NEW m \in Names PROVE Own(m, state.users[m])'
    <2>1. CASE m = job.name
      <3>1. PICK u : u = Unmeasured
        OBVIOUS
      <3>2. u.start = 0 /\ PeriodTraffic(days'[m], u) = 0
        BY <3>1 DEF PeriodTraffic, Unmeasured
      <3>3. ghost'.spent[m] \in Nat
        BY <1>2 DEF OwnInv
      <3>4. PeriodTraffic(days'[m], u) <= ghost'.spent[m]
        BY <3>2, <3>3
      <3>5. Own(m, u)'
        BY <3>1, <3>2, <3>4 DEF Own
      <3>6. state'.users[m] = u
        BY <1>1, <2>1, <3>1
      <3> QED
        BY <3>5, <3>6 DEF Own
    <2>2. CASE m # job.name
      <3>1. PICK u : u = state.users[m]
        OBVIOUS
      <3>2. Own(m, u)'
        BY <1>1, <1>2, <1>3, <1>4, <2>2, <3>1, SameOwn DEF OwnInv
      <3>3. state'.users[m] = u
        BY <1>1, <2>2, <3>1
      <3> QED
        BY <3>2, <3>3 DEF Own
    <2> QED
      BY <2>1, <2>2
  <1>6. at' \notin Importing /\ at' # "tickSave"
    BY <1>1 DEF Importing
  <1>7. \A m \in Names : \A d \in 1..Day(conf'.end) : d > Day(now') => days'[m][d] = 0
    BY <1>1 DEF OwnInv
  <1>8. ghost'.spent \in [Names -> Nat]
    BY <1>2 DEF OwnInv
  <1> QED
    BY <1>4, <1>5, <1>6, <1>7, <1>8 DEF OwnInv

\* What a tick makes of an entry is its user's own.
LEMMA RolledOwn ==
  ASSUME ConfInv, ShapeInv, EntriesInv, OwnInv, at = "idle", NEW n \in Names, n \in Known, NEW v, v = Rolled(n)
  PROVE  /\ v.start # 0 => v.start <= now /\ v.base <= days[n][Day(v.start)]
         /\ PeriodTraffic(days[n], v) <= ghost.spent[n]
  <1> DEFINE N == Day(conf.end)
             k == Day(now)
  <1>1. PICK u : u = state.users[n]
    OBVIOUS
  <1>2. PICK ds : ds = days[n]
    OBVIOUS
  <1>3. u \in UserEntry /\ N \in Nat /\ ds \in [1..N -> Nat] /\ now \in Nat /\ now \in Moments /\ k \in 1..N
    BY <1>1, <1>2, TodayCounted DEF EntriesInv
  <1>4. ghost.spent[n] \in Nat /\ PeriodTraffic(ds, u) <= ghost.spent[n]
    BY <1>1, <1>2 DEF OwnInv, Own, Making
  <1>5. u.start # 0 => u.start <= now /\ u.base <= ds[Day(u.start)]
    BY <1>1, <1>2 DEF OwnInv, Own
  <1>6. v \in UserEntry
    BY RolledEntry
  <1> HIDE DEF N, k
  <1>7. CASE u.start = 0
    <2>1. v = StartPeriod(ds, now)
      BY <1>1, <1>2, <1>7 DEF Rolled
    <2>2. PeriodTraffic(ds, v) = 0
      BY <1>2, <2>1, StartTraffic DEF OwnInv
    <2>3. v.start = now /\ v.base = ds[Day(now)]
      BY <1>2, <2>1, StartEntry
    <2>4. ds[Day(now)] \in Nat
      BY <1>3 DEF k
    <2>5. v.start <= now /\ v.base <= ds[Day(v.start)]
      BY <1>3, <2>3, <2>4
    <2> QED
      BY <1>2, <1>4, <2>2, <2>5
  <1>8. CASE u.start # 0
    <2>1. v = RollPeriod(Eff(n), u, now)
      BY <1>1, <1>8 DEF Rolled
    <2>2. \/ v = u
          \/ /\ v.base = 0 /\ v.start \in Moments /\ v.start > u.start /\ v.start <= now /\ Day(v.start) > Day(u.start)
      BY <1>3, <2>1, RollForward
    <2>3. CASE v = u
      BY <1>2, <1>4, <1>5, <1>8, <2>3
    <2>4. CASE /\ v.base = 0 /\ v.start \in Moments /\ v.start > u.start /\ v.start <= now /\ Day(v.start) > Day(u.start)
      <3>1. u.start \in Moments /\ u.start \in Nat /\ u.start <= now
        <4>1. u.start \in Moments
          BY <1>3, <1>8 DEF UserEntry
        <4> QED
          BY <1>5, <1>8, <4>1, MomentsIn
      <3>2. Day(u.start) \in Nat /\ 1 <= Day(u.start) /\ Day(u.start) <= Day(now)
        BY <1>3, <3>1, MomentsIn, DayOf
      <3>3. Day(u.start) \in 1..N
        BY <1>3, <3>2 DEF k
      <3>4. v.start # 0 /\ v.start \in Nat /\ Day(v.start) \in Nat /\ 1 <= Day(v.start) /\ Day(v.start) <= Day(now)
        BY <1>3, <2>4, MomentsIn, DayOf
      <3>5. PeriodTraffic(ds, v) <= PeriodTraffic(ds, u)
        BY <1>3, <1>5, <1>6, <1>8, <2>4, <3>3, <3>4, LaterTraffic
      <3>6. PeriodTraffic(ds, v) \in Nat /\ PeriodTraffic(ds, u) \in Nat
        BY <1>3, <1>6, TrafficIs
      <3>7. Day(v.start) \in 1..N
        BY <1>3, <3>4 DEF k
      <3>8. ds[Day(v.start)] \in Nat
        BY <1>3, <3>7
      <3>9. v.base <= ds[Day(v.start)]
        BY <2>4, <3>8
      <3>10. PeriodTraffic(ds, v) <= ghost.spent[n]
        BY <1>4, <3>5, <3>6
      <3> QED
        BY <1>2, <2>4, <3>9, <3>10
    <2> QED
      BY <2>2, <2>3, <2>4
  <1> QED
    BY <1>7, <1>8

\* A tick changes no entry, and what it is about to save are users' own.
LEMMA TickOwn ==
  ASSUME ConfInv, ShapeInv, EntriesInv, OwnInv, conf'.end = conf.end, CrashSpent => CrashSpent', TickBegin
  PROVE  OwnInv'
  <1>1. /\ at = "idle" /\ at' = "tickSave" /\ UNCHANGED <<now, days, spool, policies, state>>
        /\ job'.state.users = Measured(now).users
    BY TickSends DEF TickBegin
  <1>2. ghost'.spent = ghost.spent
    BY DEF TickBegin, ShapeInv, GhostFields
  <1>3. Known' = Known
    BY <1>1 DEF Known
  <1>4. at \notin Making /\ at \notin Deleting /\ at' \notin Making /\ at' \notin Importing
    BY <1>1 DEF Making, Deleting, Importing
  <1>5. ASSUME NEW m \in Names PROVE Own(m, state.users[m])'
    <2>1. PICK u : u = state.users[m]
      OBVIOUS
    <2>2. Own(m, u)'
      BY <1>1, <1>2, <1>3, <1>4, <2>1, SameOwn DEF OwnInv
    <2> QED
      BY <1>1, <2>1, <2>2 DEF Own
  <1>6. ASSUME NEW m \in Names PROVE Own(m, job.state.users[m])'
    <2>1. PICK v : v = Measured(now).users[m]
      OBVIOUS
    <2>2. job'.state.users[m] = v
      BY <1>1, <2>1
    <2>3. v = IF m \in Known THEN Rolled(m) ELSE Unmeasured
      BY <2>1, MeasuredEntries
    <2>4. Own(m, v)'
      <3>1. CASE m \in Known
        <4>1. /\ v.start # 0 => v.start <= now /\ v.base <= days[m][Day(v.start)]
              /\ PeriodTraffic(days[m], v) <= ghost.spent[m]
          BY <1>1, <2>3, <3>1, RolledOwn
        <4> QED
          BY <1>1, <1>2, <1>3, <3>1, <4>1 DEF Own
      <3>2. CASE m \notin Known
        <4>1. v = Unmeasured /\ v.start = 0 /\ PeriodTraffic(days'[m], v) = 0
          BY <2>3, <3>2 DEF PeriodTraffic, Unmeasured
        <4>2. ghost'.spent[m] \in Nat
          BY <1>2 DEF OwnInv
        <4>3. PeriodTraffic(days'[m], v) <= ghost'.spent[m]
          BY <4>1, <4>2
        <4> QED
          BY <4>1, <4>3 DEF Own
      <3> QED
        BY <3>1, <3>2
    <2> QED
      BY <2>2, <2>4 DEF Own
  <1>7. \A m \in Names : \A d \in 1..Day(conf'.end) : d > Day(now') => days'[m][d] = 0
    BY <1>1 DEF OwnInv
  <1>8. ghost'.spent \in [Names -> Nat]
    BY <1>2 DEF OwnInv
  <1> QED
    BY <1>4, <1>5, <1>6, <1>7, <1>8 DEF OwnInv

-----------------------------------------------------------------------------
(* Steps that count traffic, move the clock or crash                       *)

\* What a user spends is counted today, and is theirs.
LEMMA SpentOwn ==
  ASSUME ConfInv, EntriesInv, OwnInv, NEW n \in Names, NEW m \in Names, NEW u \in UserEntry, Own(m, u), n \in Known,
         days' = [days EXCEPT ![n][Day(now)] = @ + 1], ghost'.spent = [ghost.spent EXCEPT ![n] = @ + 1],
         UNCHANGED <<now, at, job, spool>>, CrashSpent => CrashSpent'
  PROVE  Own(m, u)'
  <1> DEFINE N == Day(conf.end)
             k == Day(now)
  <1>1. PICK ds : ds = days[m]
    OBVIOUS
  <1>2. N \in Nat /\ k \in 1..N /\ ds \in [1..N -> Nat] /\ ghost.spent \in [Names -> Nat] /\ now \in Nat
    BY <1>1, TodayCounted DEF EntriesInv, OwnInv
  <1>3. Known' = Known
    BY DEF Known
  <1>4. CASE m # n
    <2>1. days'[m] = days[m]
      BY <1>4 DEF EntriesInv
    <2>2. ghost'.spent[m] = ghost.spent[m]
      BY <1>2, <1>4
    <2> QED
      BY <1>3, <2>1, <2>2 DEF Own
  <1>5. CASE m = n
    <2>1. PICK es : es = [ds EXCEPT ![k] = @ + 1]
      OBVIOUS
    <2>2. days'[m] = es
      BY <1>1, <1>5, <2>1 DEF EntriesInv
    <2>3. ghost'.spent[m] = ghost.spent[m] + 1 /\ ghost.spent[m] \in Nat
      BY <1>2, <1>5
    <2> HIDE DEF N, k
    <2>4. PeriodTraffic(es, u) <= PeriodTraffic(ds, u) + 1
      BY <1>2, <2>1, MoreTraffic
    <2>5. PeriodTraffic(ds, u) \in Nat /\ es \in [1..N -> Nat]
      BY <1>2, <2>1, TrafficIs
    <2>6. PeriodTraffic(es, u) \in Nat
      BY <1>2, <2>5, TrafficIs
    <2>7. PeriodTraffic(ds, u) <= ghost.spent[m] \/ (CrashSpent /\ at \in Making /\ job.name = m)
      BY <1>1, <1>5 DEF Own
    <2>8. PeriodTraffic(es, u) <= ghost'.spent[m] \/ (CrashSpent' /\ at' \in Making /\ job'.name = m)
      BY <2>3, <2>4, <2>5, <2>6, <2>7
    <2>9. u.start # 0 => u.start <= now' /\ u.base <= es[Day(u.start)]
      <3> SUFFICES ASSUME u.start # 0 PROVE u.start <= now /\ u.base <= es[Day(u.start)]
        OBVIOUS
      <3>1. u.start <= now /\ u.base <= ds[Day(u.start)] /\ u.base \in Nat /\ u.start \in Moments
        BY <1>1 DEF Own, UserEntry
      <3>2. u.start \in Nat /\ Day(u.start) \in Nat /\ 1 <= Day(u.start) /\ Day(u.start) <= Day(now)
        BY <1>2, <3>1, MomentsIn, DayOf
      <3>3. Day(u.start) \in 1..N
        BY <1>2, <3>2 DEF k
      <3>4. ds[Day(u.start)] \in Nat /\ es[Day(u.start)] \in {ds[Day(u.start)], ds[Day(u.start)] + 1}
        BY <1>2, <2>1, <3>3
      <3> QED
        BY <3>1, <3>4
    <2> QED
      BY <1>3, <1>5, <2>2, <2>8, <2>9 DEF Own
  <1> QED
    BY <1>4, <1>5

\* So with every entry.
LEMMA SpendOwn ==
  ASSUME ConfInv, ShapeInv, EntriesInv, OwnInv, CrashSpent => CrashSpent', conf'.end = conf.end, NEW n \in Names, Spend(n)
  PROVE  OwnInv'
  <1>1. /\ days' = [days EXCEPT ![n][Day(now)] = @ + 1] /\ n \in Known
        /\ UNCHANGED <<now, at, job, spool, state>>
    BY DEF Spend
  <1>2. ghost'.spent = [ghost.spent EXCEPT ![n] = @ + 1]
    BY DEF Spend, ShapeInv, GhostFields
  <1>3. ASSUME NEW m \in Names PROVE Own(m, state.users[m])'
    <2>1. PICK u : u = state.users[m] /\ u \in UserEntry
      BY DEF EntriesInv
    <2>2. Own(m, u)'
      BY <1>1, <1>2, <2>1, SpentOwn DEF OwnInv
    <2> QED
      BY <1>1, <2>1, <2>2 DEF Own
  <1>4. ASSUME NEW m \in Names, at' = "tickSave" PROVE Own(m, job.state.users[m])'
    <2>1. PICK u : u = job.state.users[m] /\ u \in UserEntry
      BY <1>1, <1>4 DEF EntriesInv
    <2>2. Own(m, u)'
      BY <1>1, <1>2, <1>4, <2>1, SpentOwn DEF OwnInv
    <2> QED
      BY <1>1, <2>1, <2>2 DEF Own
  <1>5. ghost'.spent \in [Names -> Nat]
    <2>1. ghost.spent \in [Names -> Nat]
      BY DEF OwnInv
    <2> QED
      BY <1>2, <2>1
  <1>6. ASSUME NEW m \in Names, NEW d \in 1..Day(conf.end), d > Day(now) PROVE days'[m][d] = 0
    <2>1. days[m][d] = 0 /\ d # Day(now)
      BY <1>6, TodayCounted DEF OwnInv
    <2> QED
      BY <1>1, <2>1 DEF EntriesInv
  <1> QED
    BY <1>1, <1>3, <1>4, <1>5, <1>6 DEF OwnInv

\* The clock goes on, and no day is what it was not.
LEMMA ClockOwn ==
  ASSUME ConfInv, EntriesInv, OwnInv, CrashSpent => CrashSpent', conf'.end = conf.end, ToClock
  PROVE  OwnInv'
  <1>1. now' = now + 1 /\ UNCHANGED <<days, at, job, spool, state, ghost>>
    BY DEF ToClock
  <1>2. now \in Nat /\ now + 1 \in Nat /\ now <= now + 1
    BY TodayCounted
  <1>3. Day(now) \in Nat /\ Day(now + 1) \in Nat /\ Day(now) <= Day(now + 1)
    BY <1>2, DayOf
  <1>4. Known' = Known
    BY <1>1 DEF Known
  <1>5. ASSUME NEW m, NEW u \in UserEntry, Own(m, u) PROVE Own(m, u)'
    <2>1. u.start # 0 => u.start <= now' /\ u.base <= days'[m][Day(u.start)]
      <3> SUFFICES ASSUME u.start # 0 PROVE u.start <= now' /\ u.base <= days[m][Day(u.start)]
        BY <1>1
      <3>1. u.start <= now /\ u.base <= days[m][Day(u.start)]
        BY <1>5 DEF Own
      <3>2. u.start \in Nat
        BY MomentsIn DEF UserEntry
      <3> QED
        BY <1>1, <1>2, <3>1, <3>2
    <2>2. PeriodTraffic(days'[m], u) = PeriodTraffic(days[m], u)
      BY <1>1
    <2> QED
      BY <1>1, <1>4, <1>5, <2>1, <2>2 DEF Own
  <1>6. ASSUME NEW m \in Names PROVE Own(m, state.users[m])'
    <2>1. PICK u : u = state.users[m] /\ u \in UserEntry
      BY DEF EntriesInv
    <2>2. Own(m, u)'
      BY <1>5, <2>1 DEF OwnInv
    <2> QED
      BY <1>1, <2>1, <2>2 DEF Own
  <1>7. ASSUME NEW m \in Names, at' = "tickSave" PROVE Own(m, job.state.users[m])'
    <2>1. PICK u : u = job.state.users[m] /\ u \in UserEntry
      BY <1>1, <1>7 DEF EntriesInv
    <2>2. Own(m, u)'
      BY <1>1, <1>5, <1>7, <2>1 DEF OwnInv
    <2> QED
      BY <1>1, <2>1, <2>2 DEF Own
  <1>8. ASSUME NEW m \in Names, NEW d \in 1..Day(conf.end), d > Day(now') PROVE days'[m][d] = 0
    <2>1. d > Day(now)
      BY <1>1, <1>3, <1>8
    <2> QED
      BY <1>1, <2>1 DEF OwnInv
  <1>9. ghost'.spent \in [Names -> Nat]
    BY <1>1 DEF OwnInv
  <1> QED
    BY <1>1, <1>6, <1>7, <1>8, <1>9 DEF OwnInv

\* The one crash leaves the entries of the users there are.
LEMMA CrashOwn ==
  ASSUME ConfInv, ShapeInv, EntriesInv, OwnInv, Owning, conf'.end = conf.end,
         conf'.faults = conf.faults, conf'.faultKinds = conf.faultKinds, Crash
  PROVE  OwnInv'
  <1>1. /\ at' = "idle" /\ UNCHANGED <<now, days, spool, state, ghost>>
        /\ "crash" \in conf.faultKinds /\ faults < conf.faults /\ faults' = faults + 1
    BY DEF Crash, Fault
  <1>2. ~CrashSpent /\ CrashSpent'
    BY <1>1 DEF CrashSpent, Owning, ConfInv, ShapeInv
  <1>3. ASSUME NEW m \in Names PROVE Own(m, state.users[m])'
    <2>1. PICK u : u = state.users[m]
      OBVIOUS
    <2>2. Own(m, u)
      BY <2>1 DEF OwnInv
    <2>3. Own(m, u)'
      BY <1>1, <1>2, <2>2 DEF Own
    <2> QED
      BY <1>1, <2>1, <2>3 DEF Own
  <1>4. at' \notin Making /\ at' \notin Importing /\ at' # "tickSave"
    BY <1>1 DEF Making, Importing
  <1>5. ghost'.spent \in [Names -> Nat]
    BY <1>1 DEF OwnInv
  <1>6. \A m \in Names : \A d \in 1..Day(conf'.end) : d > Day(now') => days'[m][d] = 0
    BY <1>1 DEF OwnInv
  <1> QED
    BY <1>3, <1>4, <1>5, <1>6 DEF OwnInv

-----------------------------------------------------------------------------
(* Every step, and the traffic                                             *)

\* Which scenario it is stays.
LEMMA OwningStep == ConfInv /\ [Next]_vars => (Owning' <=> Owning)
  <1> SUFFICES ASSUME ConfInv, [Next]_vars PROVE Owning' <=> Owning
    OBVIOUS
  <1>1. conf'.faultKinds = conf.faultKinds /\ conf'.faults = conf.faults /\ conf'.ops = conf.ops
    BY ConfStep DEF SameConf, ConfFields
  <1> QED
    BY <1>1 DEF Owning

\* Every step keeps entries their users'.
LEMMA OwnStep == ConfInv /\ ShapeInv /\ EntriesInv /\ Owning /\ OwnInv /\ [Next]_vars => OwnInv'
  <1> SUFFICES ASSUME ConfInv, ShapeInv, EntriesInv, Owning, OwnInv, [Next]_vars PROVE OwnInv'
    OBVIOUS
  <1> USE DEF vars, outside
  <1>0. /\ conf'.end = conf.end /\ conf'.faults = conf.faults /\ conf'.faultKinds = conf.faultKinds
        /\ CrashSpent => CrashSpent'
    BY ConfStep, CrashSpentStays DEF SameConf, ConfFields
  <1>1. CASE UNCHANGED vars
    BY <1>0, <1>1, AloneOwn
  <1>2. ASSUME NEW n \in Names, Request(n) PROVE OwnInv'
    <2>1. CASE Patch(n)
      BY <1>0, <2>1, SetOwn DEF Patch, Asked
    <2>2. CASE Create(n)
      BY <1>0, <2>2, CreateOwn
    <2>3. CASE Delete(n)
      <3>1. at = "idle" /\ at' = "deletePolicies" /\ n \in spool /\ spool' = spool \ {n} /\ job'.name = n
            /\ UNCHANGED <<now, days, state, ghost>>
        BY <2>3 DEF Delete, DeleteFile, Asked, NoJob
      <3> QED
        BY <1>0, <3>1, LeaveOwn
    <2>4. CASE Reset(n)
      <3>1. at = "idle" /\ at' = "apply" /\ FreshPeriod(n) /\ n \in Known /\ UNCHANGED <<now, days, spool>>
        BY <2>4 DEF Reset, Asked
      <3> QED
        BY <1>0, <3>1, FreshOwn DEF Making, Importing
    <2> QED
      BY <1>2, <2>1, <2>2, <2>3, <2>4 DEF Request
  <1>3. ~Import
    BY DEF Import, Asked, Owning
  <1>4. ASSUME NEW c \in Clients, Extending(c) \/ \E n \in Names : ExtendRead(c, n) PROVE OwnInv'
    <2>1. CASE ExtendReset(c)
      <3>1. at = "idle" /\ at' = "extend" /\ FreshPeriod(wanted[c].name) /\ wanted[c].name \in Known
            /\ UNCHANGED <<now, days, spool>>
        BY <2>1 DEF ExtendReset
      <3> QED
        BY <1>0, <3>1, FreshOwn DEF Making, Importing
    <2>2. CASE ExtendWrite(c)
      <3>1. at \in {"idle", "extend"} /\ SetPolicy(wanted[c].name, wanted[c].fields, {}) /\ UNCHANGED <<now, days, spool>>
        BY <2>2 DEF ExtendWrite, Extends
      <3> QED
        BY <1>0, <3>1, SetOwn
    <2>3. CASE ExtendRefused(c)
      <3>1. at \in {"idle", "extend"} /\ at' = "idle" /\ UNCHANGED <<now, days, spool, state, ghost>>
        BY <2>3 DEF ExtendRefused, Extends
      <3> QED
        BY <1>0, <3>1, AloneOwn DEF Making, Deleting, Importing
    <2>4. CASE \E n \in Names : ExtendRead(c, n)
      BY <1>0, <2>4, AloneOwn DEF ExtendRead
    <2> QED
      BY <1>4, <2>1, <2>2, <2>3, <2>4 DEF Extending
  <1>5. CASE Work
    <2>1. CASE SetPolicySave \/ CreatePolicies
      <3>1. ghost'.spent = ghost.spent
        BY <2>1 DEF SetPolicySave, CreatePolicies, SavePolicy, ShapeInv, GhostFields
      <3>2. UNCHANGED <<now, days, spool, state>>
            /\ \/ at = "setPolicy" /\ at' = "apply"
               \/ at = "createPolicies" /\ at' = "createState" /\ job' = job
        BY <2>1 DEF SetPolicySave, CreatePolicies
      <3> QED
        BY <1>0, <3>1, <3>2, AloneOwn DEF Making, Deleting, Importing
    <2>2. CASE CreateState
      <3>1. at = "createState" /\ at' = "apply" /\ UNCHANGED <<now, days, spool>>
        BY <2>2 DEF CreateState
      <3>2. job.name \in spool /\ job.name \in Known /\ job.name \in Names
        BY <3>1 DEF OwnInv, Making, Known, Names, ShapeInv
      <3>3. state'.users = [state.users EXCEPT ![job.name] = StartPeriod(days[job.name], now)] /\ ghost'.spent = ghost.spent
        BY <2>2 DEF CreateState, ShapeInv, StateFields, GhostFields
      <3>4. at \notin Deleting /\ at' \notin Making \union Importing \union {"tickSave"}
        BY <3>1 DEF Making, Deleting, Importing
      <3> QED
        BY <1>0, <3>1, <3>2, <3>3, <3>4, StartsOwn
    <2>3. CASE DeletePolicies
      <3>1. at = "deletePolicies" /\ at' = "deleteState" /\ UNCHANGED <<now, days, spool, state, ghost, job>>
        BY <2>3 DEF DeletePolicies
      <3> QED
        BY <1>0, <3>1, AloneOwn DEF Deleting
    <2>4. CASE DeleteState
      BY <1>0, <2>4, ForgetOwn
    <2>5. ~(ImportPolicies \/ ImportState \/ ImportStats)
      BY DEF ImportPolicies, ImportState, ImportStats, OwnInv, Importing
    <2>6. CASE Apply
      <3>1. at = "apply" /\ at' \in {"tickPurge", "idle"} /\ UNCHANGED <<now, days, spool, state>>
        BY <2>6 DEF Apply
      <3>2. ghost'.spent = ghost.spent
        BY <2>6 DEF Apply, ShapeInv, GhostFields
      <3> QED
        BY <1>0, <3>1, <3>2, AloneOwn DEF Making, Deleting, Importing
    <2>7. CASE TickSave
      <3>1. at = "tickSave" /\ at' = "tickActivate" /\ state' = job.state /\ UNCHANGED <<now, days, spool, ghost>>
        BY <2>7 DEF TickSave
      <3>2. Known' = Known
        BY <3>1 DEF Known
      <3>3. at \notin Making /\ at \notin Deleting /\ at' \notin Making /\ at' \notin Importing /\ at' # "tickSave"
        BY <3>1 DEF Making, Deleting, Importing
      <3>4. ASSUME NEW m \in Names PROVE Own(m, state.users[m])'
        <4>1. PICK u : u = job.state.users[m]
          OBVIOUS
        <4>2. Own(m, u)'
          BY <3>1, <3>2, <3>3, <1>0, <4>1, SameOwn DEF OwnInv
        <4> QED
          BY <3>1, <4>1, <4>2 DEF Own
      <3>5. \A m \in Names : \A d \in 1..Day(conf'.end) : d > Day(now') => days'[m][d] = 0
        BY <1>0, <3>1 DEF OwnInv
      <3>6. ghost'.spent \in [Names -> Nat]
        BY <3>1 DEF OwnInv
      <3> QED
        BY <3>3, <3>4, <3>5, <3>6 DEF OwnInv
    <2>8. CASE TickActivate \/ TickEnd
      <3>1. at \in {"tickActivate", "tickPurge"} /\ at' \in {"tickPurge", "apply", "idle"}
            /\ UNCHANGED <<now, days, spool, state, ghost>>
        BY <2>8 DEF TickActivate, TickEnd
      <3> QED
        BY <1>0, <3>1, AloneOwn DEF Making, Deleting, Importing
    <2>9. CASE TickPurge
      <3>1. PICK n \in spool : at = "tickPurge" /\ at' = "deletePolicies" /\ job' = [job EXCEPT !.name = n]
                               /\ spool' = spool \ {n} /\ UNCHANGED <<now, days, state, ghost>>
        BY <2>9 DEF TickPurge, DeleteFile
      <3>2. job'.name = n
        BY <3>1 DEF ShapeInv
      <3> QED
        BY <1>0, <3>1, <3>2, LeaveOwn
    <2> QED
      BY <1>5, <2>1, <2>2, <2>3, <2>4, <2>5, <2>6, <2>7, <2>8, <2>9 DEF Work
  <1>6. CASE ApplyFails
    <2>1. at = "apply" /\ at' = "idle" /\ UNCHANGED <<now, days, spool, state, ghost>>
      BY <1>6 DEF ApplyFails
    <2> QED
      BY <1>0, <2>1, AloneOwn DEF Making, Deleting, Importing
  <1>7. CASE TickBegin
    BY <1>0, <1>7, TickOwn
  <1>8. CASE ToClock
    BY <1>0, <1>8, ClockOwn
  <1>9. CASE Unban
    BY <1>0, <1>9, AloneOwn DEF Unban
  <1>10. ASSUME NEW n \in Names, Spend(n) PROVE OwnInv'
    BY <1>0, <1>10, SpendOwn
  <1>11. ASSUME NEW n \in Names, \E ip \in Ips : Connect(n, ip) \/ Disconnect(n, ip) PROVE OwnInv'
    <2>1. UNCHANGED <<now, days, spool, state, ghost, at, job>>
      BY <1>11 DEF Connect, Disconnect
    <2> QED
      BY <1>0, <2>1, AloneOwn
  <1>12. CASE Crash
    BY <1>0, <1>12, CrashOwn
  <1> QED
    BY <1>1, <1>2, <1>3, <1>4, <1>5, <1>6, <1>7, <1>8, <1>9, <1>10, <1>11, <1>12 DEF Next

\* Whatever the requests, the clock and the traffic, where nothing is imported and at most
\* one crash comes, a user's traffic is what they spent themselves since they were made.
THEOREM UsedKept == Spec => [](Owning => UsedIsOwn)
  <1> DEFINE Inv == ConfInv /\ ShapeInv /\ EntriesInv /\ (Owning => OwnInv)
  <1>1. Init => Inv
    <2>1. Init => OwnInv
      <3> SUFFICES ASSUME Init PROVE OwnInv
        OBVIOUS
      <3>1. \A n \in Names : /\ state.users[n] = Unmeasured
                             /\ ghost.spent[n] = 0
                             /\ PeriodTraffic(days[n], Unmeasured) = 0
        BY DEF Init, PeriodTraffic, Unmeasured
      <3>2. at = "idle" /\ ghost.spent \in [Names -> Nat]
            /\ \A n \in Names : \A d \in 1..Day(conf.end) : days[n][d] = 0
        BY DEF Init
      <3>3. \A n \in Names : Own(n, state.users[n])
        BY <3>1 DEF Own, Unmeasured
      <3> QED
        BY <3>2, <3>3 DEF OwnInv, Making, Importing
    <2> QED
      BY <2>1, ConfInit, ShapeInit, EntriesInit
  <1>2. Inv /\ [Next]_vars => Inv'
    BY ConfStep, ShapeStep, EntriesStep, OwningStep, OwnStep
  <1>3. Inv => (Owning => UsedIsOwn)
    <2> SUFFICES ASSUME Inv, Owning, at = "idle", NEW n \in spool PROVE PeriodTraffic(days[n], state.users[n]) <= ghost.spent[n]
      BY DEF UsedIsOwn
    <2>1. n \in Names /\ n \in Known
      BY DEF ShapeInv, Names, Known
    <2>2. Own(n, state.users[n])
      BY <2>1 DEF OwnInv
    <2> QED
      BY <2>1, <2>2 DEF Own, Making
  <1> QED
    BY <1>1, <1>2, <1>3, PTL DEF Spec

-----------------------------------------------------------------------------
(* What the policy file keeps                                              *)

\* What comes from outside is written in the forms that normalize() knows.
ComesInv ==
  /\ conf.spans \subseteq Nat
  /\ \A fields \in conf.patches : \A f \in DOMAIN fields : fields[f] \in Written
  /\ \A b \in conf.bundles : \A n \in Names : \A f \in DOMAIN b.policies[n] \intersect Fields :
       AsRaw(f, ZeroLimits(b.policies[n])[f]) \in Written

\* The steps that write what the job keeps.
Saving == {"setPolicy", "createPolicies"}

\* What an extension to be written has.
WishFields == {"name", "fields", "span", "reset"}

\* Every entry is one that the file may keep, and so is one about to be saved; whose
\* term is about to start is on hold still; what an extension writes has a known form.
PoliciesInv ==
  /\ \A n \in Names : StoredEntry(policies[n])
  /\ at \in Saving => StoredEntry(job.fields)
  /\ at \in {"tickSave", "tickActivate"} => job.time \in Nat /\ \A n \in job.came : OnHold(Eff(n))
  /\ DOMAIN wanted = Clients
  /\ \A c \in Clients : DOMAIN wanted[c] = WishFields /\ \A f \in DOMAIN wanted[c].fields : wanted[c].fields[f] \in Written

\* Nobody changes what comes.
LEMMA ComesStep == ConfInv /\ ComesInv /\ [Next]_vars => ComesInv'
  <1> SUFFICES ASSUME ConfInv, ComesInv, [Next]_vars PROVE ComesInv'
    OBVIOUS
  <1>1. conf'.spans = conf.spans /\ conf'.patches = conf.patches /\ conf'.bundles = conf.bundles
    BY ConfStep DEF SameConf, ConfFields
  <1> QED
    BY <1>1 DEF ComesInv

\* No entry at all may be kept.
LEMMA NoEntry == StoredEntry(<<>>)
  BY DEF StoredEntry

\* The policy in force has, field by field, what the file may keep.
LEMMA EffStored ==
  ASSUME NEW n, StoredEntry(policies[n]), NEW f \in Fields
  PROVE  Eff(n)[f] \in Stored(f)
  <1>1. DefaultPolicy[f] \in Stored(f)
    BY DEF DefaultPolicy, Stored, Fields, Amount
  <1>2. StoredEntry(DeclaredOf(n))
    BY ManagerAssumption, NoEntry DEF DeclaredOf
  <1> DEFINE declared == DeclaredOf(n)
  <1>3. Eff(n)[f] = IF f \in DOMAIN policies[n] THEN policies[n][f]
                    ELSE IF f \in DOMAIN declared THEN declared[f] ELSE DefaultPolicy[f]
    BY DEF Eff, Effective
  <1> HIDE DEF declared
  <1>4. f \in DOMAIN declared => declared[f] \in Stored(f)
    BY <1>2 DEF StoredEntry, declared
  <1>5. f \in DOMAIN policies[n] => policies[n][f] \in Stored(f)
    BY DEF StoredEntry
  <1> QED
    BY <1>1, <1>3, <1>4, <1>5

\* A change of some fields leaves an entry that may be kept.
LEMMA EntryStored ==
  ASSUME NEW n, NEW norm, NEW unset, StoredEntry(policies[n]), StoredEntry(norm)
  PROVE  StoredEntry(Entry(n, norm, unset))
  <1> DEFINE entry == Entry(n, norm, unset)
             kept  == (DOMAIN norm \union DOMAIN policies[n]) \ unset
  <1>1. entry = [f \in kept |-> IF f \in DOMAIN norm THEN norm[f] ELSE policies[n][f]]
    BY DEF Entry
  <1>2. kept \subseteq Fields /\ \A f \in kept : (f \in DOMAIN norm \/ f \in DOMAIN policies[n])
    BY DEF StoredEntry
  <1> HIDE DEF entry, kept
  <1>3. DOMAIN entry = kept
    BY <1>1
  <1>4. \A f \in kept : entry[f] = IF f \in DOMAIN norm THEN norm[f] ELSE policies[n][f]
    BY <1>1
  <1>5. \A f \in kept : entry[f] \in Stored(f)
    BY <1>2, <1>4 DEF StoredEntry
  <1>6. entry = [f \in DOMAIN entry |-> entry[f]]
    BY <1>1
  <1>7. StoredEntry(entry)
    BY <1>2, <1>3, <1>5, <1>6 DEF StoredEntry
  <1> QED
    BY <1>7 DEF entry

\* So does a term that starts: it ends before the time that load_policies refuses.
LEMMA StartedStored ==
  ASSUME NEW n, StoredEntry(policies[n]), job.time \in Nat, OnHold(Eff(n)),
         NEW entry, entry = [f \in DOMAIN policies[n] \union {"expiresAt"} |->
                              IF f = "expiresAt" THEN Started(n) ELSE policies[n][f]]
  PROVE  StoredEntry(entry)
  <1> DEFINE after == Eff(n)["expiresAfter"]
             both  == {job.time + after, MaxTime - 1}
  <1>1. after \in Nat /\ 0 < after
    <2>1. after \in Stored("expiresAfter") /\ after # Null
      BY EffStored DEF OnHold, Fields
    <2> QED
      BY <2>1 DEF Stored
  <1>2. MaxTime \in Nat /\ MaxTime - 1 \in Nat /\ MaxTime - 1 > 0
    BY PolicyAssumption
  <1> HIDE DEF after
  <1>3. both \subseteq Nat /\ both # {}
    BY <1>1, <1>2
  <1>4. Started(n) = Min(both)
    BY DEF Started, after
  <1>5. Started(n) \in both /\ Started(n) <= MaxTime - 1
    BY <1>3, <1>4, MinIn
  <1>6. Started(n) \in Nat /\ 0 < Started(n) /\ Started(n) < MaxTime
    BY <1>1, <1>2, <1>5
  <1>7. Started(n) \in Stored("expiresAt")
    BY <1>6 DEF Stored
  <1>8. DOMAIN entry = DOMAIN policies[n] \union {"expiresAt"} /\ entry = [f \in DOMAIN entry |-> entry[f]]
    OBVIOUS
  <1>9. \A f \in DOMAIN entry : entry[f] = IF f = "expiresAt" THEN Started(n) ELSE policies[n][f]
    OBVIOUS
  <1>10. \A f \in DOMAIN policies[n] : f \in Fields /\ policies[n][f] \in Stored(f)
    BY DEF StoredEntry
  <1>11. \A f \in DOMAIN entry : f \in Fields /\ entry[f] \in Stored(f)
    BY <1>7, <1>8, <1>9, <1>10 DEF Fields
  <1> QED
    BY <1>8, <1>11 DEF StoredEntry

\* A number is a form that normalize() knows.
LEMMA NumberWritten == ASSUME NEW x \in Int PROVE [form |-> "number", n |-> x] \in Written
  BY DEF Written, Raw

-----------------------------------------------------------------------------
(* Every step, and the policy file                                         *)

\* Steps that write no policy and leave nothing to be written.
LEMMA ElsewherePolicies ==
  ASSUME PoliciesInv, UNCHANGED <<policies, wanted>>,
         at' \in Saving \union {"tickSave", "tickActivate"} => UNCHANGED <<at, job>> \/ (at = "tickSave" /\ job'.time = job.time /\ job'.came = job.came /\ at' = "tickActivate")
  PROVE  PoliciesInv'
  BY DEF PoliciesInv, Eff, Saving

\* Saving an entry that may be kept.
LEMMA SavePolicies ==
  ASSUME PoliciesInv, NEW n, NEW entry, StoredEntry(entry), SavePolicy(n, entry)
  PROVE  \A m \in Names : StoredEntry(policies'[m])
  <1>1. policies' = [policies EXCEPT ![n] = entry]
    BY DEF SavePolicy
  <1>2. \A m \in Names : policies'[m] = entry \/ policies'[m] = policies[m]
    BY <1>1
  <1> QED
    BY <1>2 DEF PoliciesInv

\* A request to set some fields writes, now or next, an entry that may be kept.
LEMMA SetPolicies ==
  ASSUME ConfInv, ShapeInv, EntriesInv, PoliciesInv, NEW n, NEW fields, NEW unset, SetPolicy(n, fields, unset),
         \A f \in DOMAIN fields : fields[f] \in Written
  PROVE  /\ \A m \in Names : StoredEntry(policies'[m])
         /\ at' \in {"setPolicy", "apply"}
         /\ at' \in Saving => StoredEntry(job'.fields)
  <1> DEFINE norm  == Normalize(fields, now)
             entry == Entry(n, norm, unset)
  <1>1. n \in Names /\ norm # Bad
    BY DEF SetPolicy, Accepts, Known, Names, ShapeInv
  <1>2. now \in Nat
    BY TodayCounted
  <1>3. StoredEntry(norm)
    BY <1>1, <1>2, NormalStored
  <1>4. StoredEntry(policies[n])
    BY <1>1 DEF PoliciesInv
  <1> HIDE DEF norm
  <1>5. StoredEntry(entry)
    BY <1>3, <1>4, EntryStored
  <1>6. \/ at' = "setPolicy" /\ job' = [NoJob EXCEPT !.name = n, !.fields = entry] /\ UNCHANGED policies
        \/ at' = "apply" /\ SavePolicy(n, entry)
    BY DEF SetPolicy, norm
  <1> HIDE DEF entry
  <1>7. CASE at' = "setPolicy" /\ job' = [NoJob EXCEPT !.name = n, !.fields = entry] /\ UNCHANGED policies
    BY <1>5, <1>7 DEF NoJob, PoliciesInv
  <1>8. CASE at' = "apply" /\ SavePolicy(n, entry)
    BY <1>5, <1>8, SavePolicies DEF Saving
  <1> QED
    BY <1>6, <1>7, <1>8

\* An extension is a number.
LEMMA ReadPolicies ==
  ASSUME ConfInv, ShapeInv, EntriesInv, ComesInv, PoliciesInv, NEW c \in Clients, NEW n \in Names, ExtendRead(c, n)
  PROVE  /\ DOMAIN wanted' = Clients
         /\ \A k \in Clients : /\ DOMAIN wanted'[k] = WishFields
                               /\ \A f \in DOMAIN wanted'[k].fields : wanted'[k].fields[f] \in Written
  <1> DEFINE policy    == Eff(n)
             current   == IF policy["expiresAt"] = Null THEN now ELSE Max({now, policy["expiresAt"]})
             Number(x) == [form |-> "number", n |-> x]
             Wished(span) == IF OnHold(policy) THEN [expiresAfter |-> Number(policy["expiresAfter"] + span)]
                              ELSE [expiresAt |-> Number(current + span)]
  <1>1. PICK span \in conf.spans, reset \in conf.resets :
          wanted' = [wanted EXCEPT ![c] = [name |-> n, span |-> span, reset |-> reset, fields |-> Wished(span)]]
    BY DEF ExtendRead
  <1>2. span \in Nat
    BY <1>1 DEF ComesInv
  <1>3. now \in Nat
    BY TodayCounted
  <1>4. policy["expiresAt"] \in Stored("expiresAt") /\ policy["expiresAfter"] \in Stored("expiresAfter")
    BY EffStored DEF PoliciesInv, Fields
  <1>5. \/ policy["expiresAt"] = Null
        \/ policy["expiresAt"] \in Nat
    BY <1>4 DEF Stored
  <1>6. current \in Int
    <2>1. CASE policy["expiresAt"] = Null
      BY <1>3, <2>1
    <2>2. CASE policy["expiresAt"] # Null
      <3> DEFINE t == policy["expiresAt"]
      <3>1. t \in Nat
        BY <1>5, <2>2
      <3>2. current = Max({now, t})
        BY <2>2
      <3> HIDE DEF t
      <3>3. PICK top \in {now, t} : \A x \in {now, t} : x <= top
        BY <1>3, <3>1
      <3>4. Max({now, t}) \in {now, t}
        BY <1>3, <3>1, <3>3 DEF Max
      <3> QED
        BY <1>3, <3>1, <3>2, <3>4
    <2> QED
      BY <2>1, <2>2
  <1>7. OnHold(policy) => policy["expiresAfter"] \in Nat
    BY <1>4 DEF Stored, OnHold
  <1> HIDE DEF policy, current
  <1>8. \A f \in DOMAIN Wished(span) : Wished(span)[f] \in Written
    <2>1. CASE OnHold(policy)
      <3>1. policy["expiresAfter"] + span \in Int
        BY <1>2, <1>7, <2>1
      <3>2. Number(policy["expiresAfter"] + span) \in Written
        BY <3>1, NumberWritten
      <3> HIDE DEF Number
      <3> QED
        BY <2>1, <3>2
    <2>2. CASE ~OnHold(policy)
      <3>1. current + span \in Int
        BY <1>2, <1>6
      <3>2. Number(current + span) \in Written
        BY <3>1, NumberWritten
      <3> HIDE DEF Number
      <3> QED
        BY <2>2, <3>2
    <2> QED
      BY <2>1, <2>2
  <1> HIDE DEF Wished
  <1>9. DOMAIN wanted' = Clients
        /\ \A k \in Clients : wanted'[k] = IF k = c THEN [name |-> n, span |-> span, reset |-> reset, fields |-> Wished(span)]
                                                    ELSE wanted[k]
    BY <1>1 DEF PoliciesInv
  <1> QED
    BY <1>8, <1>9 DEF PoliciesInv, WishFields

\* Every step keeps the policies.
LEMMA PoliciesStep ==
  ConfInv /\ ShapeInv /\ EntriesInv /\ ComesInv /\ PoliciesInv /\ [Next]_vars => PoliciesInv'
  <1> SUFFICES ASSUME ConfInv, ShapeInv, EntriesInv, ComesInv, PoliciesInv, [Next]_vars PROVE PoliciesInv'
    OBVIOUS
  <1> USE DEF vars, outside
  <1>1. CASE UNCHANGED vars
    BY <1>1, ElsewherePolicies
  <1>2. ASSUME NEW n \in Names, Request(n) PROVE PoliciesInv'
    <2>1. CASE Patch(n)
      <3>1. PICK fields \in conf.patches, unset \in conf.unsets : SetPolicy(n, fields, unset)
        BY <2>1 DEF Patch
      <3>2. \A f \in DOMAIN fields : fields[f] \in Written
        BY <3>1 DEF ComesInv
      <3>3. /\ \A m \in Names : StoredEntry(policies'[m])
            /\ at' \in {"setPolicy", "apply"}
            /\ at' \in Saving => StoredEntry(job'.fields)
        BY <3>1, <3>2, SetPolicies
      <3>4. UNCHANGED wanted
        BY <2>1 DEF Patch
      <3> QED
        BY <3>3, <3>4 DEF PoliciesInv
    <2>2. CASE Create(n)
      <3>1. PICK fields \in conf.patches : /\ Normalize(fields, now) # Bad
                                           /\ job' = [NoJob EXCEPT !.name = n, !.fields = Normalize(fields, now)]
        BY <2>2 DEF Create
      <3>2. \A f \in DOMAIN fields : fields[f] \in Written
        BY <3>1 DEF ComesInv
      <3>3. StoredEntry(Normalize(fields, now))
        BY <3>1, <3>2, NormalStored, TodayCounted
      <3>4. job'.fields = Normalize(fields, now)
        BY <3>1 DEF NoJob
      <3>5. at' = "createPolicies" /\ UNCHANGED <<policies, wanted>>
        BY <2>2 DEF Create
      <3> QED
        BY <3>3, <3>4, <3>5 DEF PoliciesInv
    <2>3. CASE Delete(n)
      BY <2>3, ElsewherePolicies DEF Delete, DeleteFile, Saving
    <2>4. CASE Reset(n)
      BY <2>4, ElsewherePolicies DEF Reset, Saving
    <2> QED
      BY <1>2, <2>1, <2>2, <2>3, <2>4 DEF Request
  <1>3. CASE Import
    BY <1>3, ElsewherePolicies DEF Import, Saving
  <1>4. ASSUME NEW c \in Clients, Extending(c) \/ \E n \in Names : ExtendRead(c, n) PROVE PoliciesInv'
    <2>1. CASE ExtendReset(c)
      <3>1. wanted' = [wanted EXCEPT ![c].reset = FALSE] /\ UNCHANGED policies /\ at' = "extend"
        BY <2>1 DEF ExtendReset
      <3>2. DOMAIN wanted' = Clients
            /\ \A k \in Clients : DOMAIN wanted'[k] = WishFields /\ wanted'[k].fields = wanted[k].fields
        BY <3>1 DEF PoliciesInv, WishFields
      <3> QED
        BY <3>1, <3>2 DEF PoliciesInv, Saving
    <2>2. CASE ExtendWrite(c)
      <3>1. SetPolicy(wanted[c].name, wanted[c].fields, {}) /\ wanted' = [wanted EXCEPT ![c] = NoWish]
        BY <2>2 DEF ExtendWrite
      <3>2. \A f \in DOMAIN wanted[c].fields : wanted[c].fields[f] \in Written
        BY DEF PoliciesInv
      <3>3. /\ \A m \in Names : StoredEntry(policies'[m])
            /\ at' \in {"setPolicy", "apply"}
            /\ at' \in Saving => StoredEntry(job'.fields)
        BY <3>1, <3>2, SetPolicies
      <3>4. DOMAIN wanted' = Clients
            /\ \A k \in Clients : wanted'[k] = NoWish \/ wanted'[k] = wanted[k]
        BY <3>1 DEF PoliciesInv
      <3>5. DOMAIN NoWish = WishFields /\ DOMAIN NoWish.fields = {}
        BY DEF NoWish, WishFields
      <3> QED
        BY <3>3, <3>4, <3>5 DEF PoliciesInv
    <2>3. CASE ExtendRefused(c)
      <3>1. wanted' = [wanted EXCEPT ![c] = NoWish] /\ UNCHANGED policies /\ at' = "idle"
        BY <2>3 DEF ExtendRefused
      <3>2. DOMAIN wanted' = Clients
            /\ \A k \in Clients : wanted'[k] = NoWish \/ wanted'[k] = wanted[k]
        BY <3>1 DEF PoliciesInv
      <3>3. DOMAIN NoWish = WishFields /\ DOMAIN NoWish.fields = {}
        BY DEF NoWish, WishFields
      <3> QED
        BY <3>1, <3>2, <3>3 DEF PoliciesInv, Saving
    <2>4. ASSUME NEW n \in Names, ExtendRead(c, n) PROVE PoliciesInv'
      <3>1. UNCHANGED <<policies, at, job>>
        BY <2>4 DEF ExtendRead
      <3>2. /\ DOMAIN wanted' = Clients
            /\ \A k \in Clients : /\ DOMAIN wanted'[k] = WishFields
                                  /\ \A f \in DOMAIN wanted'[k].fields : wanted'[k].fields[f] \in Written
        BY <2>4, ReadPolicies
      <3> QED
        BY <3>1, <3>2 DEF PoliciesInv, Eff
    <2> QED
      BY <1>4, <2>1, <2>2, <2>3, <2>4 DEF Extending
  <1>5. CASE Work
    <2>1. CASE SetPolicySave \/ CreatePolicies
      <3>1. at \in Saving /\ SavePolicy(job.name, job.fields) /\ at' \in {"apply", "createState"} /\ UNCHANGED wanted
        BY <2>1 DEF SetPolicySave, CreatePolicies, Saving
      <3>2. \A m \in Names : StoredEntry(policies'[m])
        BY <3>1, SavePolicies DEF PoliciesInv
      <3> QED
        BY <3>1, <3>2 DEF PoliciesInv, Saving
    <2>2. CASE CreateState
      BY <2>2, ElsewherePolicies DEF CreateState, Saving
    <2>3. CASE DeletePolicies
      <3>1. policies' = [policies EXCEPT ![job.name] = <<>>] /\ at' = "deleteState" /\ UNCHANGED wanted
        BY <2>3 DEF DeletePolicies
      <3>2. \A m \in Names : policies'[m] = <<>> \/ policies'[m] = policies[m]
        BY <3>1
      <3>3. \A m \in Names : StoredEntry(policies'[m])
        BY <3>2, NoEntry DEF PoliciesInv
      <3> QED
        BY <3>1, <3>3 DEF PoliciesInv, Saving
    <2>4. CASE DeleteState
      BY <2>4, ElsewherePolicies DEF DeleteState, Saving
    <2>5. CASE ImportPolicies
      <3> DEFINE bundle == job.bundle
                 taken == {n \in Names : /\ DOMAIN bundle.policies[n] # {}
                                         /\ CheckStored(bundle.policies[n], now) # Bad
                                         /\ DOMAIN policies[n] = {} \/ job.replace}
      <3>1. /\ at = "importPolicies"
            /\ policies' = [n \in Names |-> IF n \in taken THEN ZeroLimits(bundle.policies[n]) ELSE policies[n]]
            /\ at' = "importState" /\ UNCHANGED wanted
        BY <2>5 DEF ImportPolicies
      <3>2. bundle \in conf.bundles
        BY <3>1 DEF EntriesInv, Importing
      <3>3. ASSUME NEW n \in taken PROVE StoredEntry(ZeroLimits(bundle.policies[n]))
        <4> DEFINE entry == bundle.policies[n]
                   zeros == ZeroLimits(entry)
                   raws  == [f \in DOMAIN zeros |-> AsRaw(f, zeros[f])]
        <4>1. Normalize(raws, now) = zeros /\ zeros # Bad
          BY <3>3 DEF CheckStored
        <4>2. DOMAIN zeros = DOMAIN entry /\ DOMAIN raws = DOMAIN entry
          BY DEF ZeroLimits
        <4>3. DOMAIN raws \subseteq Fields
          BY <4>1 DEF Normalize
        <4>4. \A f \in DOMAIN raws : raws[f] = AsRaw(f, zeros[f])
          OBVIOUS
        <4>5. \A f \in DOMAIN entry \intersect Fields : AsRaw(f, zeros[f]) \in Written
          BY <3>2, <3>3 DEF ComesInv
        <4> HIDE DEF raws, zeros
        <4>6. \A f \in DOMAIN raws : raws[f] \in Written
          BY <4>2, <4>3, <4>4, <4>5
        <4>7. StoredEntry(zeros)
          BY <4>1, <4>6, NormalStored, TodayCounted
        <4> QED
          BY <4>7 DEF zeros
      <3> HIDE DEF taken, bundle
      <3>4. \A n \in Names : StoredEntry(policies'[n])
        BY <3>1, <3>3 DEF PoliciesInv
      <3> QED
        BY <3>1, <3>4 DEF PoliciesInv, Saving
    <2>6. CASE ImportState \/ ImportStats
      BY <2>6, ElsewherePolicies DEF ImportState, ImportStats, Saving
    <2>7. CASE Apply
      BY <2>7, ElsewherePolicies DEF Apply, Saving
    <2>8. CASE TickSave
      <3>1. job'.time = job.time /\ job'.came = job.came
        BY <2>8 DEF TickSave
      <3> QED
        BY <2>8, <3>1, ElsewherePolicies DEF TickSave, Saving
    <2>9. CASE TickActivate
      <3>1. /\ at = "tickActivate"
            /\ policies' = [n \in Names |->
                 IF n \in job.came
                 THEN [f \in DOMAIN policies[n] \union {"expiresAt"} |-> IF f = "expiresAt" THEN Started(n) ELSE policies[n][f]]
                 ELSE policies[n]]
            /\ at' = "tickPurge" /\ UNCHANGED wanted
        BY <2>9 DEF TickActivate
      <3>2. job.time \in Nat /\ \A n \in job.came : OnHold(Eff(n))
        BY <3>1 DEF PoliciesInv
      <3>3. ASSUME NEW n \in Names PROVE StoredEntry(policies'[n])
        <4>1. StoredEntry(policies[n])
          BY DEF PoliciesInv
        <4>2. CASE n \in job.came
          <5>1. policies'[n] = [f \in DOMAIN policies[n] \union {"expiresAt"} |->
                                 IF f = "expiresAt" THEN Started(n) ELSE policies[n][f]]
            BY <3>1, <4>2
          <5> QED
            BY <3>2, <4>1, <4>2, <5>1, StartedStored
        <4>3. CASE n \notin job.came
          BY <3>1, <4>1, <4>3
        <4> QED
          BY <4>2, <4>3
      <3> QED
        BY <3>1, <3>3 DEF PoliciesInv, Saving
    <2>10. CASE TickPurge \/ TickEnd
      BY <2>10, ElsewherePolicies DEF TickPurge, TickEnd, DeleteFile, Saving
    <2> QED
      BY <1>5, <2>1, <2>2, <2>3, <2>4, <2>5, <2>6, <2>7, <2>8, <2>9, <2>10 DEF Work
  <1>6. CASE ApplyFails
    BY <1>6, ElsewherePolicies DEF ApplyFails, Saving
  <1>7. CASE TickBegin
    <2>1. job'.time = now /\ at' = "tickSave" /\ UNCHANGED <<policies, wanted>>
      BY <1>7 DEF TickBegin, NoJob
    <2>2. \A n \in job'.came : OnHold(Eff(n))
      BY <1>7, TickJob
    <2>3. \A n : Eff(n)' = Eff(n)
      BY <2>1 DEF Eff
    <2> QED
      BY <2>1, <2>2, <2>3, TodayCounted DEF PoliciesInv, Saving
  <1>8. CASE ToClock \/ Unban
    BY <1>8, ElsewherePolicies DEF ToClock, Unban
  <1>9. ASSUME NEW n \in Names, Spend(n) \/ \E ip \in Ips : Connect(n, ip) \/ Disconnect(n, ip) PROVE PoliciesInv'
    BY <1>9, ElsewherePolicies DEF Spend, Connect, Disconnect
  <1>10. CASE Crash
    <2>1. at' = "idle" /\ UNCHANGED policies /\ wanted' = [c \in Clients |-> NoWish]
      BY <1>10 DEF Crash
    <2>2. DOMAIN NoWish = WishFields /\ DOMAIN NoWish.fields = {}
      BY DEF NoWish, WishFields
    <2> QED
      BY <2>1, <2>2 DEF PoliciesInv, Saving
  <1> QED
    BY <1>1, <1>2, <1>3, <1>4, <1>5, <1>6, <1>7, <1>8, <1>9, <1>10 DEF Next

\* So are the first ones.
LEMMA PoliciesInit == Init => ComesInv /\ PoliciesInv
  <1> SUFFICES ASSUME Init PROVE ComesInv /\ PoliciesInv
    OBVIOUS
  <1>1. ComesInv
    BY ManagerAssumption DEF Init, ComesInv
  <1>2. \A n \in Names : policies[n] = <<>> \/ (n \in DOMAIN conf.policies /\ policies[n] = conf.policies[n])
    BY DEF Init
  <1>3. \A n \in DOMAIN conf.policies : StoredEntry(conf.policies[n])
    BY ManagerAssumption DEF Init
  <1>4. \A n \in Names : StoredEntry(policies[n])
    BY <1>2, <1>3, NoEntry
  <1>5. at = "idle" /\ wanted = [c \in Clients |-> NoWish]
    BY DEF Init
  <1>6. DOMAIN NoWish = WishFields /\ DOMAIN NoWish.fields = {}
    BY DEF NoWish, WishFields
  <1> QED
    BY <1>1, <1>4, <1>5, <1>6 DEF PoliciesInv, Saving

\* load_policies never drops an entry of the manager's own file, whenever it reads it, in
\* the middle of a request or after a crash: what set_policy, create_user, extend and
\* import write is normal already, and a term that starts ends short of the time that
\* would be refused (activate, inbound_manager.py:570).
THEOREM ReadBack == Spec => [](\A n \in Names : \A t \in Nat : LoadPolicy(policies[n], t) = policies[n])
  <1> DEFINE Inv == ConfInv /\ ShapeInv /\ EntriesInv /\ ComesInv /\ PoliciesInv
  <1>1. Init => Inv
    BY ConfInit, ShapeInit, EntriesInit, PoliciesInit
  <1>2. Inv /\ [Next]_vars => Inv'
    BY ConfStep, ShapeStep, EntriesStep, ComesStep, PoliciesStep
  <1>3. Inv => \A n \in Names : \A t \in Nat : LoadPolicy(policies[n], t) = policies[n]
    BY EntryComesBack DEF PoliciesInv
  <1> QED
    BY <1>1, <1>2, <1>3, PTL DEF Spec

-----------------------------------------------------------------------------
(* Who was there earlier                                                   *)

\* Whoever is seen has a rank, and who came since the last tick is behind all others.
LEMMA SeenIs ==
  ASSUME NEW st, NEW n, IsFiniteSet(online[n])
  PROVE  /\ DOMAIN Seen(st, n) = online[n]
         /\ \A ip \in online[n] : Seen(st, n)[ip] \in Nat
         /\ \A early, late \in online[n] :
              early \in DOMAIN st.seen[n] /\ late \notin DOMAIN st.seen[n]
              => Seen(st, n)[early] < Seen(st, n)[late]
  <1> DEFINE old      == RestrictDomain(st.seen[n], LAMBDA ip : ip \in online[n])
             size     == Cardinality(DOMAIN old)
             Rank(ip) == Cardinality({old[o] : o \in {o \in DOMAIN old : old[o] <= old[ip]}})
             ranks    == {Rank(ip) : ip \in DOMAIN old}
             top      == Max(ranks \union {0})
  <1>1. DOMAIN old = {ip \in DOMAIN st.seen[n] : ip \in online[n]}
    BY DEF RestrictDomain, Restrict
  <1>2. Seen(st, n) = [ip \in online[n] |-> IF ip \in DOMAIN old THEN Rank(ip) ELSE top + 1]
    BY DEF Seen
  <1> HIDE DEF old
  <1>3. IsFiniteSet(DOMAIN old)
    BY <1>1, PartIsFinite
  <1>4. size \in Nat
    BY <1>3, PartIsFinite
  <1>5. ASSUME NEW ip PROVE Rank(ip) \in 0..size
    <2> DEFINE part == {o \in DOMAIN old : old[o] <= old[ip]}
    <2>1. part \in SUBSET DOMAIN old
      OBVIOUS
    <2> HIDE DEF part
    <2>2. Cardinality({old[o] : o \in part}) \in Nat /\ Cardinality({old[o] : o \in part}) <= size
      BY <1>3, <2>1, ImageIsFinite
    <2> QED
      BY <1>4, <2>2 DEF part
  <1> HIDE DEF size, Rank
  <1>6. ranks \union {0} \in SUBSET (0..size)
    BY <1>4, <1>5
  <1>7. top \in 0..size /\ \A r \in ranks : r <= top
    <2> DEFINE all == ranks \union {0}
    <2>1. all # {} /\ ranks \subseteq all /\ all \in SUBSET (0..size)
      BY <1>6
    <2> HIDE DEF all, ranks
    <2>2. Max(all) \in all /\ \A r \in all : Max(all) >= r
      BY <1>4, <2>1, MaxUpTo
    <2>3. top = Max(all)
      BY DEF all
    <2> HIDE DEF top
    <2>4. \A r \in ranks : r \in 0..size /\ Max(all) >= r
      BY <2>1, <2>2
    <2>5. Max(all) \in 0..size
      BY <2>1, <2>2
    <2> QED
      BY <1>4, <2>3, <2>4, <2>5
  <1> HIDE DEF top
  <1>8. \A ip \in DOMAIN old : Rank(ip) \in 0..size /\ Rank(ip) <= top
    BY <1>5, <1>7
  <1>9. DOMAIN Seen(st, n) = online[n]
    BY <1>2
  <1>10. \A ip \in online[n] : Seen(st, n)[ip] = IF ip \in DOMAIN old THEN Rank(ip) ELSE top + 1
    BY <1>2
  <1>11. ASSUME NEW early \in online[n], NEW late \in online[n], early \in DOMAIN st.seen[n], late \notin DOMAIN st.seen[n]
         PROVE  Seen(st, n)[early] < Seen(st, n)[late]
    <2>1. early \in DOMAIN old /\ late \notin DOMAIN old
      BY <1>1, <1>11
    <2>2. Seen(st, n)[early] = Rank(early) /\ Seen(st, n)[late] = top + 1
      BY <1>10, <2>1
    <2>3. Rank(early) \in Nat /\ top \in Nat /\ Rank(early) <= top
      BY <1>4, <1>7, <1>8, <2>1
    <2> QED
      BY <2>2, <2>3
  <1>12. \A ip \in online[n] : Seen(st, n)[ip] \in Nat
    <2>1. top + 1 \in Nat /\ \A ip \in DOMAIN old : Rank(ip) \in Nat
      BY <1>4, <1>7, <1>8
    <2> QED
      BY <1>10, <2>1
  <1> QED
    BY <1>9, <1>11, <1>12

\* A limit that one who was there at the last tick is past, who came since is past too.
LEMMA LaterIsPast ==
  ASSUME NEW st, NEW n, IsFiniteSet(online[n]), StoredEntry(policies[n]), NEW early, NEW late \in online[n],
         early \in DOMAIN st.seen[n], late \notin DOMAIN st.seen[n], early \in PastLimit(st, n)
  PROVE  late \in PastLimit(st, n)
  <1> DEFINE limit == Eff(n)["ipLimit"]
             seen  == Seen(st, n)
             Upto(x) == {o \in DOMAIN seen : seen[o] < seen[x] \/ (seen[o] = seen[x] /\ o <= x)}
  <1>1. PastLimit(st, n) = IF limit = Null \/ Cardinality(online[n]) <= limit \/ ~conf.nft \/ n \notin conf.bannable
                           THEN {} ELSE {ip \in DOMAIN seen : Cardinality(Upto(ip)) > limit}
    BY DEF PastLimit
  <1>2. limit \in Amount
    <2>1. "ipLimit" \in Fields
      BY DEF Fields
    <2>2. Eff(n)["ipLimit"] \in Stored("ipLimit")
      BY <2>1, EffStored
    <2> QED
      BY <2>2 DEF Stored
  <1>3. DOMAIN seen = online[n]
    BY SeenIs
  <1> HIDE DEF limit, seen
  <1>4. early \in online[n] /\ Cardinality(Upto(early)) > limit /\ limit # Null
        /\ ~(limit = Null \/ Cardinality(online[n]) <= limit \/ ~conf.nft \/ n \notin conf.bannable)
    BY <1>1, <1>3
  <1>5. limit \in Nat
    BY <1>2, <1>4 DEF Amount
  <1>6. seen[early] \in Nat /\ seen[late] \in Nat /\ seen[early] < seen[late]
    BY <1>4, SeenIs DEF seen
  <1>7. Upto(early) \subseteq Upto(late)
    <2> SUFFICES ASSUME NEW o \in Upto(early) PROVE o \in Upto(late)
      OBVIOUS
    <2>1. CASE seen[o] = seen[early]
      BY <1>6, <2>1
    <2>2. CASE seen[o] < seen[early]
      <3>1. seen[o] \in Nat
        BY <1>3, SeenIs DEF seen
      <3> QED
        BY <1>6, <2>2, <3>1
    <2> QED
      BY <2>1, <2>2
  <1>8. Upto(late) \in SUBSET online[n]
    BY <1>3
  <1> HIDE DEF Upto
  <1>9. IsFiniteSet(Upto(late))
    BY <1>8, PartIsFinite
  <1>10. /\ Cardinality(Upto(early)) \in Nat /\ Cardinality(Upto(late)) \in Nat
         /\ Cardinality(Upto(early)) <= Cardinality(Upto(late))
    BY <1>7, <1>9, PartIsFinite
  <1>11. Cardinality(Upto(late)) > limit
    BY <1>4, <1>5, <1>10
  <1> QED
    BY <1>1, <1>3, <1>4, <1>11 DEF Upto

-----------------------------------------------------------------------------
(* What the last tick found, and the state in force                        *)

\* Users are connected from finitely many addresses.
OnlineInv == online \in [Names -> SUBSET Ips] /\ \A n \in Names : IsFiniteSet(online[n])

\* The addresses that the last tick found and did not ban are those the state in force
\* has of a user, or there are none; a user who has some is known, or being deleted.
LatelyInv ==
  /\ DOMAIN ghost.lately = Names
  /\ \A n \in Names : ghost.lately[n] # {} =>
       /\ ghost.lately[n] = DOMAIN InForce.seen[n]
       /\ n \in Known \/ (at \in Deleting /\ job.name = n)

\* At first there are none.
LEMMA OnlineInit == Init => OnlineInv
  <1>1. F!IsFiniteSet({}) => IsFiniteSet({})
    BY DEF IsFiniteSet, F!IsFiniteSet
  <1>2. IsFiniteSet({})
    BY <1>1, F!FS_EmptySet
  <1> QED
    BY <1>2 DEF Init, OnlineInv

\* A connection more or less.
LEMMA OnlineStep == OnlineInv /\ [Next]_vars => OnlineInv'
  <1> SUFFICES ASSUME OnlineInv, [Next]_vars PROVE OnlineInv'
    OBVIOUS
  <1>1. CASE UNCHANGED online
    BY <1>1 DEF OnlineInv
  <1>2. ASSUME NEW n \in Names, NEW ip \in Ips, Connect(n, ip) \/ Disconnect(n, ip) PROVE OnlineInv'
    <2>1. online' = [online EXCEPT ![n] = @ \union {ip}] \/ online' = [online EXCEPT ![n] = @ \ {ip}]
      BY <1>2 DEF Connect, Disconnect
    <2>2. IsFiniteSet(online[n]) /\ online[n] \subseteq Ips
      BY DEF OnlineInv
    <2>3. IsFiniteSet(online[n] \union {ip}) /\ IsFiniteSet(online[n] \ {ip})
      BY <2>2, OneMoreIsFinite, PartIsFinite
    <2>4. \A m \in Names : \/ online'[m] = online[m]
                           \/ online'[m] = online[n] \union {ip}
                           \/ online'[m] = online[n] \ {ip}
      BY <2>1 DEF OnlineInv
    <2>5. DOMAIN online' = Names /\ online' = [m \in Names |-> online'[m]]
      BY <2>1 DEF OnlineInv
    <2>6. \A m \in Names : IsFiniteSet(online'[m]) /\ online'[m] \subseteq Ips
      BY <2>2, <2>3, <2>4 DEF OnlineInv
    <2>7. online' \in [Names -> SUBSET Ips]
      BY <2>5, <2>6
    <2> QED
      BY <2>6, <2>7 DEF OnlineInv
  <1> USE DEF outside
  <1>3. ASSUME NEW n \in Names, Request(n) PROVE OnlineInv'
    <2>1. Patch(n) \/ Delete(n) \/ Reset(n) => UNCHANGED online
      BY DEF Patch, Delete, Reset
    <2>2. Create(n) => UNCHANGED online
      BY DEF Create
    <2> QED
      BY <1>1, <1>3, <2>1, <2>2 DEF Request
  <1>4. CASE Import
    BY <1>1, <1>4 DEF Import
  <1>5. ASSUME NEW c \in Clients, Extending(c) \/ \E n \in Names : ExtendRead(c, n) PROVE OnlineInv'
    <2>1. Extending(c) => UNCHANGED online
      BY DEF Extending, ExtendReset, ExtendWrite, ExtendRefused
    <2>2. ASSUME NEW n \in Names, ExtendRead(c, n) PROVE UNCHANGED online
      BY <2>2 DEF ExtendRead
    <2> QED
      BY <1>1, <1>5, <2>1, <2>2
  <1>6. CASE Work
    <2>1. CASE SetPolicySave \/ CreatePolicies \/ CreateState \/ DeletePolicies \/ DeleteState
      BY <1>1, <2>1 DEF SetPolicySave, CreatePolicies, CreateState, DeletePolicies, DeleteState
    <2>2. CASE ImportPolicies \/ ImportState \/ ImportStats \/ Apply
      BY <1>1, <2>2 DEF ImportPolicies, ImportState, ImportStats, Apply
    <2>3. CASE TickSave \/ TickActivate \/ TickPurge \/ TickEnd
      BY <1>1, <2>3 DEF TickSave, TickActivate, TickPurge, TickEnd
    <2> QED
      BY <1>6, <2>1, <2>2, <2>3 DEF Work
  <1>7. CASE ApplyFails
    BY <1>1, <1>7 DEF ApplyFails
  <1>8. CASE TickBegin
    BY <1>1, <1>8 DEF TickBegin
  <1>9. CASE ToClock \/ Unban \/ Crash
    BY <1>1, <1>9 DEF ToClock, Unban, Crash
  <1>10. ASSUME NEW n \in Names, Spend(n) PROVE OnlineInv'
    BY <1>1, <1>10 DEF Spend
  <1>11. CASE UNCHANGED vars
    BY <1>1, <1>11 DEF vars
  <1> QED
    BY <1>2, <1>3, <1>4, <1>5, <1>6, <1>7, <1>8, <1>9, <1>10, <1>11 DEF Next

\* Who a tick finds past the limits.
Past == {x \in Ips \X Names : x[1] \in PastLimit(Measured(now), x[2])}

\* What a tick bans and what it notes of it.
LEMMA TickSees ==
  ASSUME TickBegin, ShapeInv
  PROVE  /\ \E failed \in SUBSET Past :
              /\ failed # {} => faults' = faults + 1
              /\ bans' = bans \union (Past \ failed)
              /\ job'.state = Ticked(Measured(now), [n \in Names |-> Sent(n)], Past \ failed)
              /\ ghost'.lately = [n \in Names |-> {ip \in online[n] : n \in Known /\ <<ip, n>> \notin Past \ failed}]
         /\ at = "idle" /\ at' = "tickSave" /\ UNCHANGED <<conf, spool, policies, state, online>>
  <1> DEFINE notices == [n \in Names |-> IF n \in Known THEN Notices(Measured(now), n, now) ELSE {}]
             came == {n \in Known : /\ OnHold(Eff(n))
                                    /\ online[n] # {} \/ PeriodTraffic(days[n], Measured(now).users[n]) > 0}
  <1>1. PICK failed \in SUBSET Past :
          /\ IF failed = {} THEN UNCHANGED faults ELSE Fault("ban")
          /\ bans' = bans \union (Past \ failed)
          /\ job' = [NoJob EXCEPT !.ticking = TRUE, !.time = now,
                                  !.state = Ticked(Measured(now), notices, Past \ failed), !.came = came]
          /\ ghost' = [ghost EXCEPT
               !.noticed = [n \in Names |-> @[n] \union notices[n]],
               !.again   = @ \/ \E n \in Names : notices[n] \intersect ghost.noticed[n] # {},
               !.lately  = [n \in Names |-> {ip \in online[n] : n \in Known /\ <<ip, n>> \notin Past \ failed}]]
    BY Zenon DEF TickBegin, Past
  <1>2. at = "idle" /\ at' = "tickSave" /\ UNCHANGED <<conf, spool, policies, state, online>>
    BY DEF TickBegin
  <1>3. notices = [n \in Names |-> Sent(n)]
    BY DEF Sent
  <1> HIDE DEF notices, came
  <1>4. failed # {} => faults' = faults + 1
    BY <1>1 DEF Fault
  <1>5. job'.state = Ticked(Measured(now), notices, Past \ failed)
    BY <1>1 DEF NoJob
  <1>6. ghost'.lately = [n \in Names |-> {ip \in online[n] : n \in Known /\ <<ip, n>> \notin Past \ failed}]
    BY <1>1 DEF ShapeInv, GhostFields
  <1>7. job'.state = Ticked(Measured(now), [n \in Names |-> Sent(n)], Past \ failed)
    BY <1>3, <1>5
  <1> QED
    BY <1>1, <1>2, <1>4, <1>6, <1>7

\* A tick leaves the addresses of who is known as they were seen, until it has seen who is there.
LEMMA MeasuredSeen ==
  ASSUME ShapeInv, NEW n \in Known, n \in Names
  PROVE  Measured(now).seen[n] = state.seen[n]
  <1> DEFINE limited == {m \in Known : Limited(Eff(m))}
             st == [state EXCEPT
                      !.users    = [m \in Names |-> IF m \in Known THEN Rolled(m) ELSE @[m]],
                      !.notified = [m \in Names |-> IF m \in Known /\ Rolled(m) # state.users[m]
                                      THEN RestrictDomain(@[m], LAMBDA k : k[1] # "traffic") ELSE @[m]],
                      !.slots    = Assign(@, limited, Known \ limited)]
  <1>1. Measured(now) = Forgotten(st, Names \ Known)
    BY DEF Measured, Rolled
  <1>2. st.seen = state.seen
    BY DEF ShapeInv, StateFields
  <1> HIDE DEF st
  <1>3. Measured(now).seen = [m \in Names |-> IF m \in Names \ Known THEN NoKeys ELSE st.seen[m]]
    BY <1>1 DEF Forgotten
  <1> QED
    BY <1>2, <1>3

\* Steps that leave what was seen.
LEMMA SeenAlone ==
  ASSUME LatelyInv, ghost'.lately = ghost.lately, InForce.seen = InForce'.seen,
         \A n \in Names : n \in Known \/ (at \in Deleting /\ job.name = n)
                          => n \in Known' \/ (at' \in Deleting /\ job'.name = n)
  PROVE  LatelyInv'
  BY DEF LatelyInv

\* A policy that is set leaves what was seen.
LEMMA SetSeen ==
  ASSUME ShapeInv, NEW n, NEW fields, NEW unset, SetPolicy(n, fields, unset)
  PROVE  state'.seen = state.seen /\ ghost'.lately = ghost.lately /\ at' \in {"setPolicy", "apply"}
  BY DEF SetPolicy, SavePolicy, ShapeInv, StateFields, GhostFields

\* So does a period that begins anew.
LEMMA FreshSeen ==
  ASSUME ShapeInv, NEW n, FreshPeriod(n)
  PROVE  state'.seen = state.seen /\ ghost'.lately = ghost.lately
  BY DEF FreshPeriod, ShapeInv, StateFields, GhostFields

\* Every step but a crash keeps what the last tick found in the state in force.
LEMMA LatelyStep ==
  ASSUME ConfInv, ShapeInv, LatelyInv, "crash" \notin conf.faultKinds, [Next]_vars
  PROVE  LatelyInv'
  <1> USE DEF vars, outside
  <1>1. CASE UNCHANGED vars
    BY <1>1, SeenAlone DEF InForce, Known
  <1>2. ASSUME NEW n \in Names, Request(n) PROVE LatelyInv'
    <2>1. CASE Patch(n)
      <3>1. UNCHANGED spool /\ at = "idle" /\ \E fields, unset : SetPolicy(n, fields, unset)
        BY <2>1 DEF Patch, Asked
      <3> QED
        BY <3>1, SetSeen, SeenAlone DEF InForce, Known, Deleting
    <2>2. CASE Create(n)
      <3>1. ghost'.lately = ghost.lately
        BY <2>2 DEF Create, ShapeInv, GhostFields
      <3>2. spool \subseteq spool' /\ UNCHANGED state /\ at = "idle" /\ at' = "createPolicies"
        BY <2>2 DEF Create, Asked
      <3> QED
        BY <3>1, <3>2, SeenAlone DEF InForce, Known, Deleting
    <2>3. CASE Delete(n)
      <3>1. spool' = spool \ {n} /\ UNCHANGED <<state, ghost>> /\ at = "idle" /\ at' = "deletePolicies" /\ job'.name = n
        BY <2>3 DEF Delete, DeleteFile, Asked, NoJob
      <3> QED
        BY <3>1, SeenAlone DEF InForce, Known, Deleting
    <2>4. CASE Reset(n)
      <3>1. UNCHANGED spool /\ at = "idle" /\ at' = "apply" /\ FreshPeriod(n)
        BY <2>4 DEF Reset, Asked
      <3> QED
        BY <3>1, FreshSeen, SeenAlone DEF InForce, Known, Deleting
    <2> QED
      BY <1>2, <2>1, <2>2, <2>3, <2>4 DEF Request
  <1>3. CASE Import
    <2>1. ghost'.lately = ghost.lately
      BY <1>3 DEF Import, ShapeInv, GhostFields
    <2>2. spool \subseteq spool' /\ UNCHANGED state /\ at = "idle" /\ at' = "importPolicies"
      BY <1>3 DEF Import, Asked
    <2> QED
      BY <2>1, <2>2, SeenAlone DEF InForce, Known, Deleting
  <1>4. ASSUME NEW c \in Clients, Extending(c) \/ \E n \in Names : ExtendRead(c, n) PROVE LatelyInv'
    <2>1. CASE ExtendReset(c)
      <3>1. UNCHANGED spool /\ at = "idle" /\ at' = "extend" /\ FreshPeriod(wanted[c].name)
        BY <2>1 DEF ExtendReset
      <3> QED
        BY <3>1, FreshSeen, SeenAlone DEF InForce, Known, Deleting
    <2>2. CASE ExtendWrite(c)
      <3>1. UNCHANGED spool /\ at \in {"idle", "extend"} /\ SetPolicy(wanted[c].name, wanted[c].fields, {})
        BY <2>2 DEF ExtendWrite, Extends
      <3> QED
        BY <3>1, SetSeen, SeenAlone DEF InForce, Known, Deleting
    <2>3. CASE ExtendRefused(c)
      <3>1. UNCHANGED <<spool, state, ghost>> /\ at \in {"idle", "extend"} /\ at' = "idle"
        BY <2>3 DEF ExtendRefused, Extends
      <3> QED
        BY <3>1, SeenAlone DEF InForce, Known, Deleting
    <2>4. CASE \E n \in Names : ExtendRead(c, n)
      BY <2>4, SeenAlone DEF ExtendRead, InForce, Known
    <2> QED
      BY <1>4, <2>1, <2>2, <2>3, <2>4 DEF Extending
  <1>5. CASE Work
    <2>1. CASE SetPolicySave \/ CreatePolicies
      <3>1. ghost'.lately = ghost.lately
        BY <2>1 DEF SetPolicySave, CreatePolicies, SavePolicy, ShapeInv, GhostFields
      <3>2. UNCHANGED <<spool, state>> /\ at \in {"setPolicy", "createPolicies"} /\ at' \in {"apply", "createState"}
        BY <2>1 DEF SetPolicySave, CreatePolicies
      <3> QED
        BY <3>1, <3>2, SeenAlone DEF InForce, Known, Deleting
    <2>2. CASE CreateState
      <3>1. state'.seen = state.seen /\ ghost'.lately = ghost.lately
        BY <2>2 DEF CreateState, ShapeInv, StateFields, GhostFields
      <3>2. UNCHANGED spool /\ at = "createState" /\ at' = "apply"
        BY <2>2 DEF CreateState
      <3> QED
        BY <3>1, <3>2, SeenAlone DEF InForce, Known, Deleting
    <2>3. CASE DeletePolicies
      <3>1. UNCHANGED <<spool, state, ghost, job>> /\ at = "deletePolicies" /\ at' = "deleteState"
        BY <2>3 DEF DeletePolicies
      <3> QED
        BY <3>1, SeenAlone DEF InForce, Known, Deleting
    <2>4. CASE DeleteState
      <3>1. at = "deleteState" /\ at' = "apply" /\ UNCHANGED <<spool, job>>
        BY <2>4 DEF DeleteState
      <3>2. ghost'.lately = [ghost.lately EXCEPT ![job.name] = {}]
        BY <2>4 DEF DeleteState, ShapeInv, GhostFields
      <3>3. state'.seen = [n \in Names |-> IF n \in {job.name} THEN NoKeys ELSE state.seen[n]]
        BY <2>4 DEF DeleteState, Forgotten
      <3>4. ASSUME NEW n \in Names, ghost'.lately[n] # {}
            PROVE  ghost'.lately[n] = DOMAIN state'.seen[n] /\ n \in Known'
        <4>1. n # job.name /\ ghost'.lately[n] = ghost.lately[n]
          BY <3>2, <3>4 DEF LatelyInv
        <4>2. state'.seen[n] = state.seen[n]
          BY <3>3, <4>1
        <4>3. ghost.lately[n] = DOMAIN state.seen[n] /\ n \in Known
          BY <3>1, <3>4, <4>1 DEF LatelyInv, InForce
        <4> QED
          BY <3>1, <4>1, <4>2, <4>3 DEF Known
      <3> QED
        BY <3>1, <3>2, <3>4 DEF LatelyInv, InForce
    <2>5. CASE ImportPolicies
      <3>1. ghost'.lately = ghost.lately
        BY <2>5 DEF ImportPolicies, ShapeInv, GhostFields
      <3>2. UNCHANGED <<spool, state>> /\ at = "importPolicies" /\ at' = "importState"
        BY <2>5 DEF ImportPolicies
      <3> QED
        BY <3>1, <3>2, SeenAlone DEF InForce, Known, Deleting
    <2>6. CASE ImportState
      <3>1. state'.seen = state.seen /\ ghost'.lately = ghost.lately
        BY <2>6 DEF ImportState, ShapeInv, StateFields, GhostFields
      <3>2. UNCHANGED spool /\ at = "importState" /\ at' \in {"importStats", "idle"}
        BY <2>6 DEF ImportState
      <3> QED
        BY <3>1, <3>2, SeenAlone DEF InForce, Known, Deleting
    <2>7. CASE ImportStats
      BY <2>7, SeenAlone DEF ImportStats, InForce, Known, Deleting
    <2>8. CASE Apply
      <3>1. ghost'.lately = ghost.lately
        BY <2>8 DEF Apply, ShapeInv, GhostFields
      <3>2. UNCHANGED <<spool, state>> /\ at = "apply" /\ at' \in {"tickPurge", "idle"}
        BY <2>8 DEF Apply
      <3> QED
        BY <3>1, <3>2, SeenAlone DEF InForce, Known, Deleting
    <2>9. CASE TickSave
      <3>1. at = "tickSave" /\ at' = "tickActivate" /\ state' = job.state /\ UNCHANGED <<spool, ghost>>
        BY <2>9 DEF TickSave
      <3> QED
        BY <3>1, SeenAlone DEF InForce, Known, Deleting
    <2>10. CASE TickActivate \/ TickEnd
      <3>1. UNCHANGED <<spool, state, ghost>> /\ at \in {"tickActivate", "tickPurge"} /\ at' \in {"tickPurge", "apply", "idle"}
        BY <2>10 DEF TickActivate, TickEnd
      <3> QED
        BY <3>1, SeenAlone DEF InForce, Known, Deleting
    <2>11. CASE TickPurge
      <3>1. PICK n : spool' = spool \ {n} /\ job' = [job EXCEPT !.name = n]
        BY <2>11 DEF TickPurge, DeleteFile
      <3>2. UNCHANGED <<state, ghost>> /\ at = "tickPurge" /\ at' = "deletePolicies"
        BY <2>11 DEF TickPurge, DeleteFile
      <3>3. job'.name = n
        BY <3>1 DEF ShapeInv
      <3> QED
        BY <3>1, <3>2, <3>3, SeenAlone DEF InForce, Known, Deleting
    <2> QED
      BY <1>5, <2>1, <2>2, <2>3, <2>4, <2>5, <2>6, <2>7, <2>8, <2>9, <2>10, <2>11 DEF Work
  <1>6. CASE ApplyFails
    BY <1>6, SeenAlone DEF ApplyFails, InForce, Known, Deleting
  <1>7. CASE TickBegin
    <2>1. PICK failed \in SUBSET Past :
            /\ job'.state = Ticked(Measured(now), [n \in Names |-> Sent(n)], Past \ failed)
            /\ ghost'.lately = [n \in Names |-> {ip \in online[n] : n \in Known /\ <<ip, n>> \notin Past \ failed}]
      BY <1>7, TickSees
    <2>2. at' = "tickSave" /\ UNCHANGED <<spool, online>>
      BY <1>7, TickSees
    <2>3. "seen" \in DOMAIN Measured(now)
      BY DEF Measured, Forgotten
    <2>4. job'.state.seen = [n \in Names |-> RestrictDomain(Seen(Measured(now), n), LAMBDA ip : <<ip, n>> \notin Past \ failed)]
      BY <2>1, <2>3 DEF Ticked
    <2>5. ASSUME NEW n \in Names, ghost'.lately[n] # {}
          PROVE  ghost'.lately[n] = DOMAIN job'.state.seen[n] /\ n \in Known
      <3>1. n \in Known /\ ghost'.lately[n] = {ip \in online[n] : <<ip, n>> \notin Past \ failed}
        BY <2>1, <2>5
      <3>2. DOMAIN Seen(Measured(now), n) = online[n]
        BY DEF Seen
      <3>3. job'.state.seen[n] = RestrictDomain(Seen(Measured(now), n), LAMBDA ip : <<ip, n>> \notin Past \ failed)
        BY <2>4
      <3>4. DOMAIN job'.state.seen[n] = {ip \in online[n] : <<ip, n>> \notin Past \ failed}
        BY <3>2, <3>3 DEF RestrictDomain, Restrict
      <3> QED
        BY <3>1, <3>4
    <2> QED
      BY <2>1, <2>2, <2>5 DEF LatelyInv, InForce, Known
  <1>8. CASE ToClock \/ Unban
    BY <1>8, SeenAlone DEF ToClock, Unban, InForce, Known
  <1>9. ASSUME NEW n \in Names, Spend(n) \/ \E ip \in Ips : Connect(n, ip) \/ Disconnect(n, ip) PROVE LatelyInv'
    <2>1. ghost'.lately = ghost.lately
      BY <1>9 DEF Spend, Connect, Disconnect, ShapeInv, GhostFields
    <2>2. UNCHANGED <<spool, state, at, job>>
      BY <1>9 DEF Spend, Connect, Disconnect
    <2> QED
      BY <2>1, <2>2, SeenAlone DEF InForce, Known
  <1>10. CASE Crash
    BY <1>10 DEF Crash, Fault
  <1> QED
    BY <1>1, <1>2, <1>3, <1>4, <1>5, <1>6, <1>7, <1>8, <1>9, <1>10 DEF Next

\* A tick that could ban all it had to bans nobody who was there at the last one while it
\* keeps one who has come since, whatever ticks, requests, limits and bans there were before.
THEOREM EarliestKept == Spec => EarlierKept
  <1> DEFINE Inv == /\ ConfInv /\ ShapeInv /\ EntriesInv /\ ComesInv /\ PoliciesInv /\ OnlineInv
                    /\ "crash" \notin conf.faultKinds => LatelyInv
  <1>1. Init => Inv
    <2>1. Init => LatelyInv
      BY DEF Init, LatelyInv
    <2> QED
      BY <2>1, ConfInit, ShapeInit, EntriesInit, PoliciesInit, OnlineInit
  <1>2. Inv /\ [Next]_vars => Inv'
    <2> SUFFICES ASSUME Inv, [Next]_vars PROVE Inv'
      OBVIOUS
    <2>1. ConfInv' /\ ShapeInv' /\ EntriesInv' /\ ComesInv' /\ PoliciesInv' /\ OnlineInv'
      BY ConfStep, ShapeStep, EntriesStep, ComesStep, PoliciesStep, OnlineStep
    <2>2. conf'.faultKinds = conf.faultKinds
      BY ConfStep DEF SameConf, ConfFields
    <2>3. "crash" \notin conf'.faultKinds => LatelyInv'
      BY <2>2, LatelyStep
    <2> QED
      BY <2>1, <2>3
  <1>3. Inv /\ [Next]_vars => [BannedLast]_vars
    <2> SUFFICES ASSUME Inv, [Next]_vars, ~UNCHANGED vars, NEW n \in Names, NEW early \in Ips, NEW late \in Ips,
                        at = "idle", at' = "tickSave", UNCHANGED faults, "crash" \notin conf.faultKinds,
                        early \in online[n], late \in online[n],
                        early \in ghost.lately[n], late \notin ghost.lately[n], <<early, n>> \in bans' \ bans
                 PROVE  <<late, n>> \in bans'
      BY DEF BannedLast
    <2>1. TickBegin
      BY DEF Next, Request, Patch, Create, Delete, DeleteFile, Reset, SetPolicy, Import, Extending, ExtendReset, ExtendWrite,
             ExtendRefused, ExtendRead, Work, SetPolicySave, CreatePolicies, CreateState, DeletePolicies, DeleteState,
             ImportPolicies, ImportState, ImportStats, Apply, TickSave, TickActivate, TickPurge, TickEnd, ApplyFails,
             ToClock, Spend, Connect, Disconnect, Unban, Crash
    <2>2. PICK failed \in SUBSET Past : (failed # {} => faults' = faults + 1) /\ bans' = bans \union (Past \ failed)
      BY <2>1, TickSees
    <2>3. failed = {}
      BY <2>2 DEF ShapeInv
    <2>4. early \in PastLimit(Measured(now), n)
      BY <2>2 DEF Past
    <2>5. ghost.lately[n] = DOMAIN state.seen[n] /\ n \in Known
      BY DEF LatelyInv, InForce, Deleting
    <2>6. Measured(now).seen[n] = state.seen[n]
      BY <2>5, MeasuredSeen
    <2>7. IsFiniteSet(online[n]) /\ StoredEntry(policies[n])
      BY DEF OnlineInv, PoliciesInv
    <2>8. late \in PastLimit(Measured(now), n)
      BY <2>4, <2>5, <2>6, <2>7, LaterIsPast
    <2> QED
      BY <2>2, <2>3, <2>8 DEF Past
  <1> QED
    BY <1>1, <1>2, <1>3, PTL DEF Spec, EarlierKept

-----------------------------------------------------------------------------
(* Types                                                                   *)

\* The steps that who has the lock may take next.
Steps == {"idle", "setPolicy", "createPolicies", "createState", "deletePolicies", "deleteState",
          "importPolicies", "importState", "importStats", "extend", "apply",
          "tickSave", "tickActivate", "tickPurge"}

\* What the other invariants do not say of the variables' shapes.
RestInv ==
  /\ asked \in Nat /\ at \in Steps
  /\ \A n \in Names : DOMAIN state.seen[n] \subseteq Ips
  /\ at = "tickSave" => \A n \in Names : DOMAIN job.state.seen[n] \subseteq Ips
  /\ bans \subseteq Ips \X Names
  /\ applied = Null \/ DOMAIN applied \subseteq Names
  /\ \A c \in Clients : wanted[c].name \in Names \union {Null}

\* Steps that ban nobody, apply nothing and read no overview.
LEMMA RestAlone ==
  ASSUME RestInv, asked' \in {asked, asked + 1}, at' \in Steps,
         \A n \in Names : DOMAIN state'.seen[n] \in {DOMAIN state.seen[n], {}},
         at' = "tickSave" => at = "tickSave" /\ UNCHANGED job,
         bans' \subseteq bans, applied' \in {applied, Null},
         \A c \in Clients : wanted'[c].name \in {wanted[c].name, Null}
  PROVE  RestInv'
  <1>1. asked' \in Nat
    BY DEF RestInv
  <1>2. \A n \in Names : DOMAIN state'.seen[n] \subseteq Ips
    BY DEF RestInv
  <1>3. at' = "tickSave" => \A n \in Names : DOMAIN job'.state.seen[n] \subseteq Ips
    BY DEF RestInv
  <1>4. bans' \subseteq Ips \X Names /\ (applied' = Null \/ DOMAIN applied' \subseteq Names)
    BY DEF RestInv
  <1>5. \A c \in Clients : wanted'[c].name \in Names \union {Null}
    BY DEF RestInv
  <1> QED
    BY <1>1, <1>2, <1>3, <1>4, <1>5 DEF RestInv

\* Every step keeps the types.
LEMMA RestStep == ConfInv /\ ShapeInv /\ PoliciesInv /\ OnlineInv /\ RestInv /\ [Next]_vars => RestInv'
  <1> SUFFICES ASSUME ConfInv, ShapeInv, PoliciesInv, OnlineInv, RestInv, [Next]_vars PROVE RestInv'
    OBVIOUS
  <1> USE DEF vars, outside
  <1>0. at \in Steps
    BY DEF RestInv
  <1>1. CASE UNCHANGED vars
    BY <1>0, <1>1, RestAlone
  <1>2. ASSUME NEW n \in Names, Request(n) PROVE RestInv'
    <2>1. CASE Patch(n)
      <3>1. /\ asked' = asked + 1 /\ UNCHANGED <<bans, applied, wanted>>
            /\ \E fields, unset : SetPolicy(n, fields, unset)
        BY <2>1 DEF Patch, Asked
      <3>2. state'.seen = state.seen /\ at' \in {"setPolicy", "apply"}
        BY <3>1, SetSeen
      <3> QED
        BY <3>1, <3>2, RestAlone DEF Steps
    <2>2. CASE Create(n)
      BY <2>2, RestAlone DEF Create, Asked, Steps
    <2>3. CASE Delete(n)
      BY <2>3, RestAlone DEF Delete, DeleteFile, Asked, Steps
    <2>4. CASE Reset(n)
      <3>1. asked' = asked + 1 /\ UNCHANGED <<bans, applied, wanted>> /\ at' = "apply" /\ FreshPeriod(n)
        BY <2>4 DEF Reset, Asked
      <3> QED
        BY <3>1, FreshSeen, RestAlone DEF Steps
    <2> QED
      BY <1>2, <2>1, <2>2, <2>3, <2>4 DEF Request
  <1>3. CASE Import
    BY <1>3, RestAlone DEF Import, Asked, Steps
  <1>4. ASSUME NEW c \in Clients, Extending(c) \/ \E n \in Names : ExtendRead(c, n) PROVE RestInv'
    <2>1. CASE ExtendReset(c)
      <3>1. /\ UNCHANGED <<asked, bans, applied>> /\ at' = "extend" /\ FreshPeriod(wanted[c].name)
            /\ wanted' = [wanted EXCEPT ![c].reset = FALSE]
        BY <2>1 DEF ExtendReset
      <3>2. \A k \in Clients : wanted'[k].name = wanted[k].name
        BY <3>1 DEF PoliciesInv, WishFields
      <3> QED
        BY <3>1, <3>2, FreshSeen, RestAlone DEF Steps
    <2>2. CASE ExtendWrite(c)
      <3>1. /\ UNCHANGED <<asked, bans, applied>> /\ SetPolicy(wanted[c].name, wanted[c].fields, {})
            /\ wanted' = [wanted EXCEPT ![c] = NoWish]
        BY <2>2 DEF ExtendWrite
      <3>2. \A k \in Clients : wanted'[k].name \in {wanted[k].name, Null}
        BY <3>1 DEF PoliciesInv, NoWish
      <3>3. state'.seen = state.seen /\ at' \in {"setPolicy", "apply"}
        BY <3>1, SetSeen
      <3> QED
        BY <3>1, <3>2, <3>3, RestAlone DEF Steps
    <2>3. CASE ExtendRefused(c)
      <3>1. UNCHANGED <<asked, bans, applied, state>> /\ at' = "idle" /\ wanted' = [wanted EXCEPT ![c] = NoWish]
        BY <2>3 DEF ExtendRefused
      <3>2. \A k \in Clients : wanted'[k].name \in {wanted[k].name, Null}
        BY <3>1 DEF PoliciesInv, NoWish
      <3> QED
        BY <3>1, <3>2, RestAlone DEF Steps
    <2>4. ASSUME NEW n \in Names, ExtendRead(c, n) PROVE RestInv'
      <3>1. asked' = asked + 1 /\ UNCHANGED <<bans, applied, state, at, job>>
        BY <2>4 DEF ExtendRead
      <3> DEFINE policy    == Eff(n)
                 current   == IF policy["expiresAt"] = Null THEN now ELSE Max({now, policy["expiresAt"]})
                 Number(x) == [form |-> "number", n |-> x]
                 Wished(span) == IF OnHold(policy) THEN [expiresAfter |-> Number(policy["expiresAfter"] + span)]
                                 ELSE [expiresAt |-> Number(current + span)]
                 Wish(span, reset) == [name |-> n, span |-> span, reset |-> reset, fields |-> Wished(span)]
      <3>2. PICK span \in conf.spans, reset \in conf.resets : wanted' = [wanted EXCEPT ![c] = Wish(span, reset)]
        BY <2>4 DEF ExtendRead
      <3>4. Wish(span, reset).name = n
        OBVIOUS
      <3> HIDE DEF Wish
      <3>3. \A k \in Clients : wanted'[k].name \in Names \union {Null}
        BY <3>2, <3>4 DEF RestInv, PoliciesInv
      <3> QED
        BY <3>1, <3>3 DEF RestInv
    <2> QED
      BY <1>4, <2>1, <2>2, <2>3, <2>4 DEF Extending
  <1>5. CASE Work
    <2>1. CASE SetPolicySave \/ CreatePolicies \/ DeletePolicies
      BY <2>1, RestAlone DEF SetPolicySave, CreatePolicies, DeletePolicies, Steps
    <2>2. CASE CreateState
      <3>1. state'.seen = state.seen
        BY <2>2 DEF CreateState, ShapeInv, StateFields
      <3> QED
        BY <2>2, <3>1, RestAlone DEF CreateState, Steps
    <2>3. CASE DeleteState
      <3>1. state'.seen = [n \in Names |-> IF n \in {job.name} THEN NoKeys ELSE state.seen[n]]
        BY <2>3 DEF DeleteState, Forgotten
      <3>2. DOMAIN NoKeys = {}
        BY DEF NoKeys
      <3>3. \A n \in Names : DOMAIN state'.seen[n] \in {DOMAIN state.seen[n], {}}
        BY <3>1, <3>2
      <3> QED
        BY <2>3, <3>3, RestAlone DEF DeleteState, Steps
    <2>4. CASE ImportPolicies \/ ImportStats
      BY <2>4, RestAlone DEF ImportPolicies, ImportStats, Steps
    <2>5. CASE ImportState
      <3>1. state'.seen = state.seen
        BY <2>5 DEF ImportState, ShapeInv, StateFields
      <3>2. at' \in {"importStats", "idle"} /\ UNCHANGED <<asked, bans, applied, wanted>>
        BY <2>5 DEF ImportState
      <3> QED
        BY <3>1, <3>2, RestAlone DEF Steps
    <2>6. CASE Apply
      <3>1. at' \in {"tickPurge", "idle"} /\ UNCHANGED <<asked, bans, state, wanted>> /\ DOMAIN applied' \subseteq Names
        BY <2>6 DEF Apply, View, Known, Names, ShapeInv
      <3> QED
        BY <3>1 DEF RestInv, Steps
    <2>7. CASE TickSave
      <3>1. at = "tickSave" /\ at' = "tickActivate" /\ state' = job.state /\ UNCHANGED <<asked, bans, applied, wanted>>
        BY <2>7 DEF TickSave
      <3> QED
        BY <3>1 DEF RestInv, Steps
    <2>8. CASE TickActivate \/ TickPurge \/ TickEnd
      <3>1. /\ at' \in {"tickPurge", "deletePolicies", "apply", "idle"}
            /\ UNCHANGED <<asked, bans, applied, wanted, state>>
        BY <2>8 DEF TickActivate, TickPurge, DeleteFile, TickEnd
      <3> QED
        BY <3>1, RestAlone DEF Steps
    <2> QED
      BY <1>5, <2>1, <2>2, <2>3, <2>4, <2>5, <2>6, <2>7, <2>8 DEF Work
  <1>6. CASE ApplyFails
    BY <1>6, RestAlone DEF ApplyFails, Steps
  <1>7. CASE TickBegin
    <2>1. PICK failed \in SUBSET Past :
            /\ bans' = bans \union (Past \ failed)
            /\ job'.state = Ticked(Measured(now), [n \in Names |-> Sent(n)], Past \ failed)
      BY <1>7, TickSees
    <2>2. at' = "tickSave" /\ UNCHANGED state
      BY <1>7, TickSees
    <2>3. UNCHANGED <<asked, applied, wanted>>
      BY <1>7 DEF TickBegin
    <2>4. "seen" \in DOMAIN Measured(now)
      BY DEF Measured, Forgotten
    <2>5. job'.state.seen = [n \in Names |-> RestrictDomain(Seen(Measured(now), n), LAMBDA ip : <<ip, n>> \notin Past \ failed)]
      BY <2>1, <2>4 DEF Ticked
    <2>6. ASSUME NEW n \in Names PROVE DOMAIN job'.state.seen[n] \subseteq Ips
      <3>1. DOMAIN Seen(Measured(now), n) = online[n]
        BY DEF Seen
      <3>2. job'.state.seen[n] = RestrictDomain(Seen(Measured(now), n), LAMBDA ip : <<ip, n>> \notin Past \ failed)
        BY <2>5
      <3>3. DOMAIN job'.state.seen[n] \subseteq online[n]
        BY <3>1, <3>2 DEF RestrictDomain, Restrict
      <3> QED
        BY <3>3 DEF OnlineInv
    <2>7. bans' \subseteq Ips \X Names
      BY <2>1 DEF Past, RestInv
    <2> QED
      BY <2>2, <2>3, <2>6, <2>7 DEF RestInv, Steps
  <1>8. CASE ToClock \/ Unban
    BY <1>0, <1>8, RestAlone DEF ToClock, Unban
  <1>9. ASSUME NEW n \in Names, Spend(n) \/ \E ip \in Ips : Connect(n, ip) \/ Disconnect(n, ip) PROVE RestInv'
    BY <1>0, <1>9, RestAlone DEF Spend, Connect, Disconnect
  <1>10. CASE Crash
    <2>1. UNCHANGED <<asked, bans, state>> /\ at' = "idle" /\ applied' = Null
          /\ \A c \in Clients : wanted'[c].name = Null
      BY <1>10 DEF Crash, NoWish
    <2> QED
      BY <2>1, RestAlone DEF Steps
  <1> QED
    BY <1>1, <1>2, <1>3, <1>4, <1>5, <1>6, <1>7, <1>8, <1>9, <1>10 DEF Next

\* Every variable keeps its shape, and above all every entry of the policy file is one that
\* load_policies takes as it is.
THEOREM TypesKept == Spec => []TypeOK
  <1> DEFINE Inv == ConfInv /\ ShapeInv /\ SlotsInv /\ EntriesInv /\ ComesInv /\ PoliciesInv /\ OnlineInv /\ RestInv
  <1>1. Init => Inv
    <2>1. Init => SlotsInv
      BY DEF Init, SlotsInv, Good, Apart
    <2>2. Init => RestInv
      BY DEF Init, RestInv, Steps, NoKeys, NoWish
    <2> QED
      BY <2>1, <2>2, ConfInit, ShapeInit, EntriesInit, PoliciesInit, OnlineInit
  <1>2. Inv /\ [Next]_vars => Inv'
    BY ConfStep, ShapeStep, SlotsStep, EntriesStep, ComesStep, PoliciesStep, OnlineStep, RestStep
  <1>3. Inv => TypeOK
    <2> SUFFICES ASSUME Inv PROVE TypeOK
      OBVIOUS
    <2>1. now \in Nat
      BY TodayCounted
    <2>2. ASSUME NEW n \in Names
          PROVE  /\ DOMAIN state.users[n] = {"start", "base", "anchor"} /\ state.slots[n] \in Nat
                 /\ DOMAIN state.seen[n] \subseteq Ips /\ online[n] \subseteq Ips /\ StoredEntry(policies[n])
      BY <2>2 DEF EntriesInv, UserEntry, SlotsInv, Good, RestInv, OnlineInv, PoliciesInv
    <2> QED
      BY <2>1, <2>2 DEF TypeOK, ShapeInv, StateFields, RestInv, Steps
  <1> QED
    BY <1>1, <1>2, <1>3, PTL DEF Spec

=============================================================================
