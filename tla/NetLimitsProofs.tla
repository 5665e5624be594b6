--------------------------- MODULE NetLimitsProofs ---------------------------
(***************************************************************************)
(* Proofs about NetLimits: for any users, slots, speeds, addresses and     *)
(* ports, whatever flushes, crosses or fails between two calls of nft.     *)
(***************************************************************************)
EXTENDS NetLimits, TLAPS

Limits    == [map : {"user", "awg"} \X {"up", "down"}, key : Nat, rate : Nat]
Names     == {NameOf(l) : l \in Limits}
Addresses == {AddressOf[ip] : ip \in Spellings}
Bans      == Addresses \X Ports
Tables    == [limits : SUBSET Limits, bans : SUBSET Bans]
Wants     == [speed : Nat \X Nat, active : BOOLEAN, slot : 0..Slots, offset : Nat]
Unbans    == [ip : Addresses, crossed : BOOLEAN, found : SUBSET Bans]

\* A slot fits the bits of a mark that are its own (MAX_SLOTS, inbound_netfilter.py:35); None is
\* no table and no set of limits.
Sane ==
  /\ Slots \in Nat /\ Slots <= 65535
  /\ Speeds \subseteq Nat \X Nat /\ Offsets \subseteq Nat
  /\ None \notin Tables /\ None \notin SUBSET Limits

TypeInv ==
  /\ want \in [Users -> Wants]
  /\ table \in Tables \union {None}
  /\ installed \in (SUBSET Limits) \union {None}
  /\ job \in [listed : SUBSET Names, wanted : SUBSET Limits]
  /\ un \in Unbans \union {None}

\* Two users have neither a slot nor a peer's place in common.
ApartInv ==
  \A u, v \in Users : /\ want[u].slot = want[v].slot /\ want[u].slot # 0 => u = v
                      /\ want[u].offset = want[v].offset /\ want[u].offset # 0 => u = v

\* A sync that went through left exactly what is wanted now.
CleanInv == clean /\ at = "idle" => table # None /\ table.limits = Targets

\* Unless a ban came for the address meanwhile, an unban has found what there is of it.
FoundInv ==
  un # None /\ table # None /\ ~un.crossed => \A b \in table.bans : b[1] = un.ip => b \in un.found

NetInv == TypeInv /\ ApartInv /\ CleanInv /\ InstalledIsIn /\ FoundInv /\ LiftedAreFree

-----------------------------------------------------------------------------
(* ZapretMarks, and what is looked up by them                                     *)

\* Whatever zapret adds to a connection's mark, it is looked up by its own slot's.
LEMMA MarkIsSlots ==
  ASSUME NEW s \in Nat, s <= 65535, NEW zapret \in ZapretMarks
  PROVE  Key(ConnMark(MarkBase + s, zapret)) = MarkBase + s
  <1>1. ((MarkBase + s) \div 65536) * 65536 = MarkBase
    BY SMT DEF MarkBase
  <1>2. ConnMark(MarkBase + s, zapret) = MarkBase + s + zapret
    BY <1>1, SMT DEF ConnMark
  <1>3. (MarkBase + s + zapret) % 268435456 = MarkBase + s
    <2>1. (MarkBase + s + 0) % 268435456 = MarkBase + s
      BY SMT DEF MarkBase
    <2>2. (MarkBase + s + 268435456) % 268435456 = MarkBase + s
      BY SMT DEF MarkBase
    <2>3. (MarkBase + s + 805306368) % 268435456 = MarkBase + s
      BY SMT DEF MarkBase
    <2> QED
      BY <2>1, <2>2, <2>3, SMT DEF ZapretMarks
  <1> QED
    BY <1>1, <1>2, <1>3, SMT DEF Key

\* A packet passes one hook that has a map for its direction, on loopback too.
LEMMA OneMap ==
  ASSUME NEW d \in {1, 2}, NEW loopback \in BOOLEAN, NEW m
  PROVE  LET direction == IF d = 1 THEN "original" ELSE "reply"
         IN  (\E h \in Passes(direction, loopback) : m \in MapsAt(h, direction)) <=> m = <<"user", Dir(d)>>
  <1>1. CASE d = 1
    BY <1>1 DEF Passes, MapsAt, Dir
  <1>2. CASE d = 2
    BY <1>2 DEF Passes, MapsAt, Dir
  <1> QED
    BY <1>1, <1>2

UserLimit(v, d) == [map |-> <<"user", Dir(d)>>, key |-> MarkBase + want[v].slot, rate |-> Rate(want[v].speed[d])]
PeerLimit(v, d) == [map |-> <<"awg", Dir(d)>>, key |-> want[v].offset, rate |-> Rate(want[v].speed[d])]

\* A user with a speed has a limit, in the direction it is for.
LEMMA Targeted ==
  ASSUME TypeInv, NEW l
  PROVE  l \in Targets <=> \E v \in Users, d \in {1, 2} :
           /\ want[v].active /\ want[v].speed[d] # 0
           /\ \/ want[v].slot # 0 /\ l = UserLimit(v, d)
              \/ want[v].offset # 0 /\ l = PeerLimit(v, d)
  <1>1. \A v \in Users : \A d \in {1, 2} : want[v].speed[d] # 0 => HasLimit(v)
    BY DEF HasLimit
  <1>2. l \in UserLimits <=> \E v \in Users, d \in {1, 2} :
           want[v].active /\ want[v].speed[d] # 0 /\ want[v].slot # 0 /\ l = UserLimit(v, d)
    BY <1>1 DEF UserLimits, UserLimit, Limited
  <1>3. l \in PeerLimits <=> \E v \in Users, d \in {1, 2} :
           want[v].active /\ want[v].speed[d] # 0 /\ want[v].offset # 0 /\ l = PeerLimit(v, d)
    BY <1>1 DEF PeerLimits, PeerLimit, Limited
  <1> QED
    BY <1>2, <1>3 DEF Targets

\* Limits are limits.
LEMMA TargetsType == ASSUME Sane, TypeInv PROVE Targets \subseteq Limits
  <1> SUFFICES ASSUME NEW l \in Targets PROVE l \in Limits
    OBVIOUS
  <1>1. PICK v \in Users, d \in {1, 2} :
           /\ want[v].active /\ want[v].speed[d] # 0
           /\ \/ want[v].slot # 0 /\ l = UserLimit(v, d)
              \/ want[v].offset # 0 /\ l = PeerLimit(v, d)
    BY Targeted
  <1>2. want[v] \in Wants
    BY DEF TypeInv
  <1>3. want[v].speed[d] \in Nat /\ want[v].slot \in Nat /\ want[v].offset \in Nat
    BY <1>2 DEF Wants, Sane
  <1>4. Rate(want[v].speed[d]) \in Nat
    BY <1>3 DEF Rate
  <1>5. Dir(d) \in {"up", "down"}
    BY DEF Dir
  <1>6. MarkBase + want[v].slot \in Nat
    BY <1>3, SMT DEF MarkBase
  <1>7. CASE l = UserLimit(v, d)
    BY <1>4, <1>5, <1>6, <1>7 DEF UserLimit, Limits
  <1>8. CASE l = PeerLimit(v, d)
    BY <1>3, <1>4, <1>5, <1>8 DEF PeerLimit, Limits
  <1> QED
    BY <1>1, <1>7, <1>8

-----------------------------------------------------------------------------
(* What a sync leaves polices as it should                                  *)

\* What polices a user's connections is the limits of its slot, by direction.
LEMMA Policing ==
  ASSUME Sane, TypeInv, NEW u \in Users, NEW d \in {1, 2}, NEW loopback \in BOOLEAN,
         NEW zapret \in ZapretMarks, NEW l,
         table # None, table.limits = Targets
  PROVE  l \in PolicedBy(ConnMark(MarkBase + want[u].slot, zapret), IF d = 1 THEN "original" ELSE "reply", loopback)
           <=> \E v \in Users : /\ want[v].active /\ want[v].slot # 0 /\ want[v].speed[d] # 0
                               /\ want[v].slot = want[u].slot /\ l = UserLimit(v, d)
  <1>1. want[u].slot \in Nat /\ want[u].slot <= 65535
    BY SMT DEF TypeInv, Wants, Sane
  <1>2. Key(ConnMark(MarkBase + want[u].slot, zapret)) = MarkBase + want[u].slot
    BY <1>1, MarkIsSlots
  <1>3. \A m : (\E h \in Passes(IF d = 1 THEN "original" ELSE "reply", loopback) :
                   m \in MapsAt(h, IF d = 1 THEN "original" ELSE "reply")) <=> m = <<"user", Dir(d)>>
    BY OneMap
  <1>4. l \in PolicedBy(ConnMark(MarkBase + want[u].slot, zapret), IF d = 1 THEN "original" ELSE "reply", loopback)
          <=> l \in Targets /\ l.key = MarkBase + want[u].slot /\ l.map = <<"user", Dir(d)>>
    BY <1>2, <1>3 DEF PolicedBy
  <1>5. \A e \in {1, 2} : <<"user", Dir(e)>> = <<"user", Dir(d)>> => e = d
    BY DEF Dir
  <1>6. \A v \in Users, e \in {1, 2} : UserLimit(v, e).map = <<"user", Dir(e)>> /\ UserLimit(v, e).key = MarkBase + want[v].slot
    BY DEF UserLimit
  <1>7. \A v \in Users, e \in {1, 2} : PeerLimit(v, e).map # <<"user", Dir(d)>>
    BY DEF PeerLimit
  <1>8. \A v \in Users : MarkBase + want[v].slot = MarkBase + want[u].slot <=> want[v].slot = want[u].slot
    <2>1. \A v \in Users : want[v].slot \in Nat
      BY DEF TypeInv, Wants, Sane
    <2>2. \A m, n \in Nat : MarkBase + m = MarkBase + n <=> m = n
      BY SMT DEF MarkBase
    <2> QED
      BY <2>1, <2>2
  <1>9. ASSUME l \in Targets, l.key = MarkBase + want[u].slot, l.map = <<"user", Dir(d)>>
        PROVE  \E v \in Users : /\ want[v].active /\ want[v].slot # 0 /\ want[v].speed[d] # 0
                               /\ want[v].slot = want[u].slot /\ l = UserLimit(v, d)
    <2>1. PICK v \in Users, e \in {1, 2} :
             /\ want[v].active /\ want[v].speed[e] # 0
             /\ \/ want[v].slot # 0 /\ l = UserLimit(v, e)
                \/ want[v].offset # 0 /\ l = PeerLimit(v, e)
      BY <1>9, Targeted
    <2>2. want[v].slot # 0 /\ l = UserLimit(v, e)
      BY <1>7, <1>9, <2>1
    <2>3. e = d
      BY <1>5, <1>6, <1>9, <2>2
    <2> QED
      BY <1>6, <1>8, <1>9, <2>1, <2>2, <2>3
  <1>10. ASSUME NEW v \in Users, want[v].active, want[v].slot # 0, want[v].speed[d] # 0,
                want[v].slot = want[u].slot, l = UserLimit(v, d)
         PROVE  l \in Targets /\ l.key = MarkBase + want[u].slot /\ l.map = <<"user", Dir(d)>>
    <2>1. l \in Targets
      BY <1>10, Targeted
    <2> QED
      BY <1>6, <1>10, <2>1
  <1> QED
    BY <1>4, <1>9, <1>10

\* And what polices a user's peer, the limits of its place.
LEMMA PeerPolicing ==
  ASSUME TypeInv, NEW u \in Users, NEW d \in {1, 2}, NEW l, table.limits = Targets, want[u].offset # 0
  PROVE  l \in table.limits /\ NameOf(l) = <<<<"awg", Dir(d)>>, want[u].offset>>
           <=> \E v \in Users : /\ want[v].active /\ want[v].offset # 0 /\ want[v].speed[d] # 0
                               /\ want[v].offset = want[u].offset /\ l = PeerLimit(v, d)
  <1>1. \A e \in {1, 2} : <<"awg", Dir(e)>> = <<"awg", Dir(d)>> => e = d
    BY DEF Dir
  <1>2. \A v \in Users, e \in {1, 2} : PeerLimit(v, e).map = <<"awg", Dir(e)>> /\ PeerLimit(v, e).key = want[v].offset
    BY DEF PeerLimit
  <1>3. \A v \in Users, e \in {1, 2} : UserLimit(v, e).map # <<"awg", Dir(d)>>
    BY DEF UserLimit
  <1>4. NameOf(l) = <<<<"awg", Dir(d)>>, want[u].offset>> <=> l.map = <<"awg", Dir(d)>> /\ l.key = want[u].offset
    BY DEF NameOf
  <1>5. ASSUME l \in Targets, l.map = <<"awg", Dir(d)>>, l.key = want[u].offset
        PROVE  \E v \in Users : /\ want[v].active /\ want[v].offset # 0 /\ want[v].speed[d] # 0
                               /\ want[v].offset = want[u].offset /\ l = PeerLimit(v, d)
    <2>1. PICK v \in Users, e \in {1, 2} :
             /\ want[v].active /\ want[v].speed[e] # 0
             /\ \/ want[v].slot # 0 /\ l = UserLimit(v, e)
                \/ want[v].offset # 0 /\ l = PeerLimit(v, e)
      BY <1>5, Targeted
    <2>2. want[v].offset # 0 /\ l = PeerLimit(v, e)
      BY <1>3, <1>5, <2>1
    <2>3. e = d
      BY <1>1, <1>2, <1>5, <2>2
    <2> QED
      BY <1>2, <1>5, <2>1, <2>2, <2>3
  <1>6. ASSUME NEW v \in Users, want[v].active, want[v].offset # 0, want[v].speed[d] # 0,
               want[v].offset = want[u].offset, l = PeerLimit(v, d)
        PROVE  l \in Targets /\ l.map = <<"awg", Dir(d)>> /\ l.key = want[u].offset
    <2>1. l \in Targets
      BY <1>6, Targeted
    <2> QED
      BY <1>2, <1>6, <2>1
  <1> QED
    BY <1>4, <1>5, <1>6

\* After a sync each user is policed as wanted, and nobody else is.
LEMMA CleanPolices == ASSUME Sane, TypeInv, ApartInv, CleanInv PROVE PolicedOnce
  <1> SUFFICES ASSUME clean, at = "idle" PROVE
        /\ table # None
        /\ \A u \in Users, d \in {1, 2}, loopback \in BOOLEAN, zapret \in ZapretMarks :
             LET direction == IF d = 1 THEN "original" ELSE "reply"
                 mark == ConnMark(MarkBase + want[u].slot, zapret)
             IN  {l.rate : l \in PolicedBy(mark, direction, loopback)} =
                   IF want[u].active /\ want[u].slot # 0 /\ want[u].speed[d] # 0
                   THEN {Rate(want[u].speed[d])} ELSE {}
        /\ \A u \in Users, d \in {1, 2} : want[u].offset # 0 =>
             {l.rate : l \in {l \in table.limits : NameOf(l) = <<<<"awg", Dir(d)>>, want[u].offset>>}} =
                IF want[u].active /\ want[u].speed[d] # 0 THEN {Rate(want[u].speed[d])} ELSE {}
    BY DEF PolicedOnce
  <1>1. table # None /\ table.limits = Targets
    BY DEF CleanInv
  <1>2. ASSUME NEW u \in Users, NEW d \in {1, 2}, NEW loopback \in BOOLEAN, NEW zapret \in ZapretMarks
        PROVE  {l.rate : l \in PolicedBy(ConnMark(MarkBase + want[u].slot, zapret), IF d = 1 THEN "original" ELSE "reply", loopback)} =
                 IF want[u].active /\ want[u].slot # 0 /\ want[u].speed[d] # 0
                 THEN {Rate(want[u].speed[d])} ELSE {}
    <2> DEFINE P == PolicedBy(ConnMark(MarkBase + want[u].slot, zapret), IF d = 1 THEN "original" ELSE "reply", loopback)
    <2>1. \A l : l \in P <=> want[u].active /\ want[u].slot # 0 /\ want[u].speed[d] # 0 /\ l = UserLimit(u, d)
      BY <1>1, Policing DEF ApartInv
    <2>2. UserLimit(u, d).rate = Rate(want[u].speed[d])
      BY DEF UserLimit
    <2> HIDE DEF P
    <2>3. {l.rate : l \in P} = IF want[u].active /\ want[u].slot # 0 /\ want[u].speed[d] # 0
                               THEN {Rate(want[u].speed[d])} ELSE {}
      BY <2>1, <2>2
    <2> QED
      BY <2>3 DEF P
  <1>3. ASSUME NEW u \in Users, NEW d \in {1, 2}, want[u].offset # 0
        PROVE  {l.rate : l \in {l \in table.limits : NameOf(l) = <<<<"awg", Dir(d)>>, want[u].offset>>}} =
                 IF want[u].active /\ want[u].speed[d] # 0 THEN {Rate(want[u].speed[d])} ELSE {}
    <2> DEFINE P == {l \in table.limits : NameOf(l) = <<<<"awg", Dir(d)>>, want[u].offset>>}
    <2>1. \A l : l \in P <=> want[u].active /\ want[u].speed[d] # 0 /\ l = PeerLimit(u, d)
      BY <1>1, <1>3, PeerPolicing DEF ApartInv
    <2>2. PeerLimit(u, d).rate = Rate(want[u].speed[d])
      BY DEF PeerLimit
    <2> HIDE DEF P
    <2>3. {l.rate : l \in P} = IF want[u].active /\ want[u].speed[d] # 0 THEN {Rate(want[u].speed[d])} ELSE {}
      BY <2>1, <2>2
    <2> QED
      BY <2>3 DEF P
  <1> QED
    BY <1>1, <1>2, <1>3

-----------------------------------------------------------------------------
(* The steps                                                                *)

\* A table with other bans is a table of the same limits,
LEMMA OtherBans ==
  ASSUME NEW t \in Tables, NEW bs \in SUBSET Bans
  PROVE  [t EXCEPT !.bans = bs] \in Tables /\ [t EXCEPT !.bans = bs].bans = bs /\ [t EXCEPT !.bans = bs].limits = t.limits
  BY DEF Tables

\* and one with other limits has the same bans.
LEMMA OtherLimits ==
  ASSUME NEW t \in Tables, NEW ls \in SUBSET Limits
  PROVE  [t EXCEPT !.limits = ls] \in Tables /\ [t EXCEPT !.limits = ls].limits = ls /\ [t EXCEPT !.limits = ls].bans = t.bans
  BY DEF Tables

\* A new table has nothing.
LEMMA FreshTable == Fresh \in Tables /\ Fresh.bans = {}
  BY DEF Fresh, Tables

\* What is wanted changes in a request, and with the peers, alone; a request leaves places apart.
LEMMA WantNext ==
  ASSUME Sane, TypeInv, ApartInv, [Next]_vars
  PROVE  want' \in [Users -> Wants] /\ ApartInv'
  <1>1. CASE Request
    <2>1. PICK u \in Users, speed \in Speeds, active \in BOOLEAN, fail \in BOOLEAN :
            LET speeds == [v \in Users |-> IF v = u THEN speed ELSE want[v].speed]
            IN  /\ \E slots \in Given(speeds) :
                     want' = [v \in Users |-> [want[v] EXCEPT !.speed = speeds[v], !.slot = slots[v],
                                                             !.active = IF v = u THEN active ELSE @]]
                /\ want' # want
                /\ IF fail THEN Fails ELSE Daemon("ensure") /\ UNCHANGED clean
      BY <1>1, Zenon DEF Request
    <2> DEFINE speeds == [v \in Users |-> IF v = u THEN speed ELSE want[v].speed]
    <2>2. PICK slots \in Given(speeds) :
                  want' = [v \in Users |-> [want[v] EXCEPT !.speed = speeds[v], !.slot = slots[v],
                                                          !.active = IF v = u THEN active ELSE @]]
      BY <2>1, Zenon
    <2>3. slots \in [Users -> 0..Slots] /\ \A v, w \in Users : slots[v] = slots[w] /\ slots[v] # 0 => v = w
      BY DEF Given
    <2>4. \A v \in Users : speeds[v] \in Nat \X Nat
      BY DEF Sane, TypeInv, Wants
    <2> HIDE DEF speeds
    <2>5. \A v \in Users : want'[v] \in Wants /\ want'[v].slot = slots[v] /\ want'[v].offset = want[v].offset
      BY <2>2, <2>3, <2>4 DEF TypeInv, Wants
    <2>6. want' \in [Users -> Wants]
      BY <2>2, <2>5
    <2>7. ApartInv'
      BY <2>3, <2>5 DEF ApartInv
    <2> QED
      BY <2>6, <2>7
  <1>2. CASE Prepare
    <2>1. PICK offsets \in [Users -> Offsets] :
            /\ \A u, v \in Users : offsets[u] = offsets[v] /\ offsets[u] # 0 => u = v
            /\ want' = [u \in Users |-> [want[u] EXCEPT !.offset = offsets[u]]]
      BY <1>2 DEF Prepare
    <2>2. \A v \in Users : want'[v] \in Wants /\ want'[v].slot = want[v].slot /\ want'[v].offset = offsets[v]
      BY <2>1 DEF TypeInv, Wants, Sane
    <2> QED
      BY <2>1, <2>2 DEF ApartInv
  <1>3. CASE UNCHANGED want
    BY <1>3 DEF TypeInv, ApartInv
  <1> QED
    BY <1>1, <1>2, <1>3 DEF Next, vars, Tick, Look, EnsureIn, Ensure, Ban, BansDone, Check, List, Install, Restart,
       UnbanList, UnbanDelete, Flush, Expire

\* What a step makes of the table: nothing, a new one, other limits or other bans.
LEMMA TableNext ==
  ASSUME Sane, TypeInv, [Next]_vars
  PROVE  \/ UNCHANGED table
         \/ Flush /\ table' = None
         \/ table = None /\ table' = Fresh /\ installed' = None
         \/ /\ table \in Tables /\ table' \in Tables /\ table'.bans = table.bans
            /\ Install /\ table'.limits = job.wanted /\ installed' = job.wanted
         \/ /\ table \in Tables /\ table' \in Tables /\ table'.limits = table.limits
            /\ Ban \/ Expire \/ UnbanDelete
  <1>1. CASE Install
    <2>1. CASE UNCHANGED table
      BY <2>1
    <2>2. CASE ~UNCHANGED table
      <3>1. table # None /\ table' = [table EXCEPT !.limits = job.wanted] /\ installed' = job.wanted
        BY <1>1, <2>2 DEF Install
      <3>2. table \in Tables /\ job.wanted \in SUBSET Limits
        BY <3>1 DEF TypeInv
      <3>3. table' \in Tables /\ table'.limits = job.wanted /\ table'.bans = table.bans
        BY <3>1, <3>2, OtherLimits
      <3> QED
        BY <1>1, <3>1, <3>2, <3>3
    <2> QED
      BY <2>1, <2>2
  <1>2. CASE Look \/ EnsureIn \/ Check
    BY <1>2 DEF Look, EnsureIn, Ensure, Check, Remade
  <1>3. CASE Ban
    <2>1. PICK ip \in Spellings, ports \in SUBSET Ports :
             table # None /\ table' = [table EXCEPT !.bans = @ \union Banned(ip, ports)]
      BY <1>3 DEF Ban
    <2>2. table \in Tables /\ table.bans \union Banned(ip, ports) \in SUBSET Bans
      BY <2>1 DEF TypeInv, Tables, Banned, Bans, Addresses
    <2> QED
      BY <1>3, <2>1, <2>2, OtherBans
  <1>4. CASE Expire
    <2>1. PICK b : table # None /\ table' = [table EXCEPT !.bans = @ \ {b}]
      BY <1>4 DEF Expire
    <2>2. table \in Tables /\ table.bans \ {b} \in SUBSET Bans
      BY <2>1 DEF TypeInv, Tables
    <2> QED
      BY <1>4, <2>1, <2>2, OtherBans
  <1>5. CASE UnbanDelete
    <2>1. CASE UNCHANGED table
      BY <2>1
    <2>2. CASE ~UNCHANGED table
      <3>1. table # None /\ table' = [table EXCEPT !.bans = @ \ un.found]
        BY <1>5, <2>2 DEF UnbanDelete
      <3>2. table \in Tables /\ table.bans \ un.found \in SUBSET Bans
        BY <3>1 DEF TypeInv, Tables
      <3> QED
        BY <1>5, <3>1, <3>2, OtherBans
    <2> QED
      BY <2>1, <2>2
  <1>6. CASE Flush
    BY <1>6 DEF Flush
  <1>7. CASE UNCHANGED table
    BY <1>7
  <1> QED
    BY <1>1, <1>2, <1>3, <1>4, <1>5, <1>6, <1>7 DEF Next, vars, Request, Tick, BansDone, List, Restart, UnbanList, Prepare

\* What is taken for installed changes with what is put in, or is forgotten.
LEMMA InstalledSteps ==
  ASSUME Sane, TypeInv, [Next]_vars
  PROVE  \/ installed' = None \/ UNCHANGED installed
         \/ Install /\ installed' = job.wanted /\ table' \in Tables /\ table'.limits = job.wanted
  <1>1. CASE Install
    <2>1. CASE UNCHANGED installed
      BY <2>1
    <2>2. CASE ~UNCHANGED installed
      <3>1. table # None /\ table' = [table EXCEPT !.limits = job.wanted] /\ installed' = job.wanted
        BY <1>1, <2>2 DEF Install
      <3>2. table \in Tables /\ job.wanted \in SUBSET Limits
        BY <3>1 DEF TypeInv
      <3> QED
        BY <1>1, <3>1, <3>2, OtherLimits
    <2> QED
      BY <2>1, <2>2
  <1>2. CASE ~Install
    BY <1>2 DEF Next, vars, Request, Tick, Look, EnsureIn, Ensure, Ban, BansDone, Check, List, Restart,
       UnbanList, UnbanDelete, Flush, Expire, Prepare, Remade
  <1> QED
    BY <1>1, <1>2

\* The types of the rest.
LEMMA TypeNext == ASSUME Sane, TypeInv, ApartInv, [Next]_vars PROVE TypeInv'
  <1>1. want' \in [Users -> Wants]
    BY WantNext
  <1>2. table' \in Tables \union {None}
    BY TableNext, FreshTable DEF TypeInv
  <1>3. installed' \in (SUBSET Limits) \union {None}
    <2>1. job.wanted \in SUBSET Limits
      BY DEF TypeInv
    <2>2. installed' = None \/ installed' = installed \/ installed' = job.wanted
      BY InstalledSteps
    <2> QED
      BY <2>1, <2>2 DEF TypeInv
  <1>4. job' \in [listed : SUBSET Names, wanted : SUBSET Limits]
    <2>1. CASE Check
      BY <2>1, TargetsType DEF Check, TypeInv
    <2>2. CASE List
      <3>1. CASE table = None
        BY <2>2, <3>1 DEF List, TypeInv
      <3>2. CASE table # None
        <4>1. {NameOf(l) : l \in table.limits} \in SUBSET Names
          BY <3>2 DEF TypeInv, Tables, Names
        <4>2. job' = [job EXCEPT !.listed = {NameOf(l) : l \in table.limits}]
          BY <2>2, <3>2 DEF List
        <4> QED
          BY <4>1, <4>2 DEF TypeInv
      <3> QED
        BY <3>1, <3>2
    <2> QED
      BY <2>1, <2>2 DEF TypeInv, Next, vars, Request, Tick, Look, EnsureIn, Ensure, Ban, BansDone, Install, Restart,
         UnbanList, UnbanDelete, Flush, Expire, Prepare
  <1>5. un' \in Unbans \union {None}
    <2>1. CASE Ban
      BY <2>1 DEF Ban, TypeInv, Unbans
    <2>2. CASE UnbanList
      <3>1. PICK ip \in Spellings :
              un' = [ip |-> AddressOf[ip], crossed |-> FALSE, found |-> IF table = None THEN {} ELSE {b \in table.bans : b[1] = Asked(ip)}]
        BY <2>2 DEF UnbanList
      <3>2. (IF table = None THEN {} ELSE {b \in table.bans : b[1] = Asked(ip)}) \in SUBSET Bans
        BY DEF TypeInv, Tables
      <3> QED
        BY <3>1, <3>2 DEF Unbans, Addresses
    <2> QED
      BY <2>1, <2>2 DEF TypeInv, Next, vars, Request, Tick, Look, EnsureIn, Ensure, BansDone, Check, List, Install, Restart,
         UnbanDelete, Flush, Expire, Prepare
  <1> QED
    BY <1>1, <1>2, <1>3, <1>4, <1>5 DEF TypeInv

\* What is taken for installed is what was put in, or the table is gone.
LEMMA InstalledNext == ASSUME Sane, TypeInv, InstalledIsIn, [Next]_vars PROVE InstalledIsIn'
  <1>1. CASE installed' = None
    BY <1>1 DEF InstalledIsIn
  <1>2. CASE UNCHANGED installed
    BY <1>2, TableNext DEF InstalledIsIn, TypeInv, Sane
  <1> QED
    BY <1>1, <1>2, InstalledSteps DEF InstalledIsIn

\* A sync ends with the limits that are wanted then.
LEMMA CleanNext == ASSUME Sane, TypeInv, ApartInv, CleanInv, InstalledIsIn, [Next]_vars PROVE CleanInv'
  <1> SUFFICES ASSUME clean', at' = "idle" PROVE table' # None /\ table'.limits = Targets'
    BY DEF CleanInv
  <1>1. CASE Check
    <2>1. Skips /\ UNCHANGED <<table, want>>
      BY <1>1 DEF Check, Daemon
    <2>2. Targets \in SUBSET Limits
      BY TargetsType
    <2>3. installed # None
      BY <2>1, <2>2 DEF Skips, Sane
    <2>4. table # None /\ table.limits = Targets
      BY <2>1, <2>3 DEF Skips, InstalledIsIn
    <2> QED
      BY <2>1, <2>4 DEF Targets, UserLimits, PeerLimits, Limited, HasLimit
  <1>2. CASE Install
    <2>1. table # None /\ table' = [table EXCEPT !.limits = job.wanted] /\ job.wanted = Targets /\ UNCHANGED want
      BY <1>2 DEF Install, Fails
    <2>2. table' \in Tables /\ table'.limits = job.wanted
      BY <2>1, OtherLimits DEF TypeInv
    <2>3. Targets' = Targets
      BY <2>1 DEF Targets, UserLimits, PeerLimits, Limited, HasLimit
    <2> QED
      BY <2>1, <2>2, <2>3 DEF Sane
  <1>3. CASE ~Check /\ ~Install
    <2>1. ~Request /\ ~Prepare /\ ~Flush /\ ~Restart /\ ~List
      BY DEF Request, Prepare, Flush, Restart, List, Fails, Daemon
    <2>2. ~Tick /\ ~Look /\ ~EnsureIn /\ ~BansDone
      BY DEF Tick, Look, EnsureIn, Ensure, BansDone, Daemon
    <2>3. ~Ban
      BY DEF Ban
    <2>4. UNCHANGED <<at, clean, want>>
      BY <1>3, <2>1, <2>2, <2>3 DEF Next, vars, UnbanList, UnbanDelete, Expire
    <2>5. table # None /\ table.limits = Targets
      BY <2>4 DEF CleanInv
    <2>6. table' # None
      BY <2>1, <2>5, TableNext DEF TypeInv, Sane
    <2>7. table'.limits = table.limits
      BY <1>3, <2>5, <2>6, TableNext
    <2>8. Targets' = Targets
      BY <2>4 DEF Targets, UserLimits, PeerLimits, Limited, HasLimit
    <2> QED
      BY <2>5, <2>6, <2>7, <2>8
  <1> QED
    BY <1>1, <1>2, <1>3

\* A ban that comes meanwhile is marked: what else there is of the address was found.
LEMMA FoundNext == ASSUME Sane, TypeInv, FoundInv, [Next]_vars PROVE FoundInv'
  <1>1. CASE Ban
    <2>1. PICK ip \in Spellings, ports \in SUBSET Ports :
             /\ table # None
             /\ table' = [table EXCEPT !.bans = @ \union Banned(ip, ports)]
             /\ un' = IF un # None /\ un.ip = AddressOf[ip] THEN [un EXCEPT !.crossed = TRUE] ELSE un
      BY <1>1 DEF Ban
    <2>2. table.bans \union Banned(ip, ports) \in SUBSET Bans
      BY <2>1 DEF TypeInv, Tables, Banned, Bans, Addresses
    <2>3. table'.bans = table.bans \union Banned(ip, ports)
      BY <2>1, <2>2, OtherBans DEF TypeInv
    <2>4. CASE un # None /\ un.ip = AddressOf[ip]
      <3>1. un \in Unbans /\ un' = [un EXCEPT !.crossed = TRUE]
        BY <2>1, <2>4 DEF TypeInv
      <3>2. un'.crossed
        BY <3>1 DEF Unbans
      <3> QED
        BY <3>2 DEF FoundInv
    <2>5. CASE ~(un # None /\ un.ip = AddressOf[ip])
      <3>1. un' = un
        BY <2>1, <2>5
      <3>2. \A b \in Banned(ip, ports) : b[1] = AddressOf[ip]
        BY DEF Banned
      <3> QED
        BY <2>1, <2>3, <2>5, <3>1, <3>2 DEF FoundInv
    <2> QED
      BY <2>4, <2>5
  <1>2. CASE UnbanList
    <2>1. UNCHANGED table
      BY <1>2 DEF UnbanList
    <2>2. PICK ip \in Spellings :
            un' = [ip |-> AddressOf[ip], crossed |-> FALSE, found |-> IF table = None THEN {} ELSE {b \in table.bans : b[1] = Asked(ip)}]
      BY <1>2 DEF UnbanList
    <2>3. un'.ip = AddressOf[ip] /\ un'.found = IF table = None THEN {} ELSE {b \in table.bans : b[1] = Asked(ip)}
      BY <2>2
    <2> QED
      BY <2>1, <2>3 DEF FoundInv, Asked
  <1>3. CASE UnbanDelete \/ Restart
    BY <1>3 DEF UnbanDelete, Restart, FoundInv
  <1>4. CASE UNCHANGED un /\ ~Ban /\ ~UnbanDelete
    <2>1. CASE Expire
      <3>1. PICK b : table # None /\ table' = [table EXCEPT !.bans = @ \ {b}]
        BY <2>1 DEF Expire
      <3>2. table \in Tables /\ table.bans \ {b} \in SUBSET Bans
        BY <3>1 DEF TypeInv, Tables
      <3>3. table'.bans \subseteq table.bans
        BY <3>1, <3>2, OtherBans
      <3> QED
        BY <1>4, <3>1, <3>3 DEF FoundInv
    <2>2. CASE ~Expire
      <3>1. table' = None \/ table' = Fresh \/ (table # None /\ table' # None /\ table'.bans = table.bans)
        <4>1. None \notin Tables
          BY DEF Sane
        <4> QED
          BY <1>4, <2>2, <4>1, TableNext
      <3> QED
        BY <1>4, <3>1, FreshTable DEF FoundInv
    <2> QED
      BY <2>1, <2>2
  <1> QED
    BY <1>1, <1>2, <1>3, <1>4 DEF Next, vars, Request, Tick, Look, EnsureIn, Ensure, BansDone, Check, List, Install, Flush, Expire, Prepare

\* An unban that no ban crossed leaves nothing of its address; a ban takes its address back.
LEMMA LiftedNext == ASSUME Sane, TypeInv, FoundInv, LiftedAreFree, [Next]_vars PROVE LiftedAreFree'
  <1>1. CASE Ban
    <2>1. PICK ip \in Spellings, ports \in SUBSET Ports :
             /\ table # None
             /\ table' = [table EXCEPT !.bans = @ \union Banned(ip, ports)]
             /\ lifted' = lifted \ {AddressOf[ip]}
      BY <1>1 DEF Ban
    <2>2. table.bans \union Banned(ip, ports) \in SUBSET Bans
      BY <2>1 DEF TypeInv, Tables, Banned, Bans, Addresses
    <2>3. table'.bans = table.bans \union Banned(ip, ports)
      BY <2>1, <2>2, OtherBans DEF TypeInv
    <2>4. \A b \in Banned(ip, ports) : b[1] = AddressOf[ip]
      BY DEF Banned
    <2> QED
      BY <2>1, <2>3, <2>4 DEF LiftedAreFree
  <1>2. CASE UnbanDelete
    <2>1. CASE UNCHANGED <<table, lifted>>
      BY <2>1 DEF LiftedAreFree
    <2>2. CASE ~UNCHANGED <<table, lifted>>
      <3>1. /\ un # None
            /\ table' = IF un.found = {} THEN table ELSE [table EXCEPT !.bans = @ \ un.found]
            /\ un.found # {} => table # None
            /\ lifted' = IF un.crossed THEN lifted ELSE lifted \union {un.ip}
        BY <1>2, <2>2 DEF UnbanDelete
      <3>2. ASSUME table # None PROVE table'.bans = table.bans \ un.found
        <4>1. table \in Tables /\ table.bans \ un.found \in SUBSET Bans
          BY <3>2 DEF TypeInv, Tables
        <4> QED
          BY <3>1, <4>1, OtherBans
      <3>3. CASE table = None
        BY <3>1, <3>3 DEF LiftedAreFree
      <3>4. CASE table # None
        <4>1. ~un.crossed => \A b \in table'.bans : b[1] # un.ip
          BY <3>1, <3>2, <3>4 DEF FoundInv
        <4> QED
          BY <3>1, <3>2, <3>4, <4>1 DEF LiftedAreFree
      <3> QED
        BY <3>3, <3>4
    <2> QED
      BY <2>1, <2>2
  <1>3. CASE Expire
    <2>1. PICK b : table # None /\ table' = [table EXCEPT !.bans = @ \ {b}] /\ lifted' = lifted
      BY <1>3 DEF Expire
    <2>2. table \in Tables /\ table.bans \ {b} \in SUBSET Bans
      BY <2>1 DEF TypeInv, Tables
    <2>3. table'.bans \subseteq table.bans
      BY <2>1, <2>2, OtherBans
    <2> QED
      BY <2>1, <2>3 DEF LiftedAreFree
  <1>4. CASE ~Ban /\ ~UnbanDelete /\ ~Expire
    <2>1. UNCHANGED lifted
      BY <1>4 DEF Next, vars, Request, Tick, Look, EnsureIn, Ensure, BansDone, Check, List, Install, Restart, UnbanList, Flush, Prepare
    <2>2. table' = None \/ table' = Fresh \/ (table # None /\ table'.bans = table.bans)
      <3>1. None \notin Tables
        BY DEF Sane
      <3> QED
        BY <1>4, <3>1, TableNext
    <2> QED
      BY <2>1, <2>2, FreshTable DEF LiftedAreFree
  <1> QED
    BY <1>1, <1>2, <1>3, <1>4

-----------------------------------------------------------------------------
\* After each sync that nothing undid every limit is in force, once, and no other; what is taken for
\* installed is; and an address that was unbanned stays free until it is banned again
\* (inbound_netfilter.py, inbound_manager.py:712).
THEOREM NetKept == ASSUME Sane PROVE Spec => []NetHolds
  <1>1. Init => NetInv
    <2> SUFFICES ASSUME Init PROVE NetInv
      OBVIOUS
    <2>1. want \in [Users -> Wants] /\ \A u \in Users : want[u].slot = 0 /\ want[u].offset = 0
      BY DEF Init, Wants, Sane
    <2>2. job \in [listed : SUBSET Names, wanted : SUBSET Limits]
      BY DEF Init
    <2>3. TypeInv
      BY <2>1, <2>2 DEF Init, TypeInv
    <2> QED
      BY <2>1, <2>3 DEF Init, NetInv, ApartInv, CleanInv, InstalledIsIn, FoundInv, LiftedAreFree
  <1>2. NetInv /\ [Next]_vars => NetInv'
    BY TypeNext, WantNext, CleanNext, InstalledNext, FoundNext, LiftedNext DEF NetInv
  <1>3. NetInv => NetHolds
    BY CleanPolices DEF NetInv, NetHolds
  <1> QED
    BY <1>1, <1>2, <1>3, PTL DEF Spec
=============================================================================
