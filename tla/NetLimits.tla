------------------------------ MODULE NetLimits ------------------------------
(***************************************************************************)
(* The inbound manager's nftables table (src/scripts/inbound_netfilter.py) *)
(* and what the daemon does with it (inbound_manager.py): speed limits by  *)
(* slot and by AmneziaWG peer, and the banned addresses.                   *)
(*                                                                         *)
(* Each call of nft is a step.  Between two of them nftables.service may   *)
(* flush the ruleset, a ban may run out, the AmneziaWG unit may give peers *)
(* other addresses, and an unban, which takes no lock, does its own calls. *)
(***************************************************************************)
EXTENDS Integers, FiniteSets

CONSTANTS
  Users, Slots,   \* slots are 1..Slots
  Speeds,         \* <<up, down>> in bits a second, 0 for no limit
  Offsets,        \* of a user's AmneziaWG peer, 0 for no peer
  Spellings,      \* the ways addresses are written
  AddressOf,      \* [Spellings -> the address's own spelling, or None]
  Ports,
  Budgets,        \* bounds: requests, flushes, other faults, bans, unbans
  None

VARIABLES
  want,      \* [Users -> [speed, active, slot, offset]]: the files, as they are now
  table,     \* None, or [limits: names to <<direction, key, rate>>, bans]
  installed, \* Netfilter.installed
  at,        \* the daemon's next call, or "idle"
  job,       \* [wanted, listed: names of the limits that are in]
  un,        \* an unban under way: [ip, found], or None
  left,      \* what is left of the budget
  clean,     \* the limits went in, or were found in, and nothing went wrong since
  lifted     \* addresses an unban has answered for and no ban has come for since

vars == <<want, table, installed, at, job, un, left, clean, lifted>>

Spend(what) == left[what] > 0 /\ left' = [left EXCEPT ![what] = @ - 1]

-----------------------------------------------------------------------------
(* Rules                                                                    *)

\* MARK_BASE 0x04000000, above 16 bits of level; zapret marks connections with 2^28 and 2^29.
MarkBase == 67108864
ZapretMarks == {0, 268435456, 805306368}

\* Mutant: the mark is compared whole.
Key_whole(mark) == IF (mark \div 65536) * 65536 = MarkBase THEN mark ELSE 0
\* The limits look past the bits above CT_MARK_MASK.
Key(mark) == IF ((mark % 268435456) \div 65536) * 65536 = MarkBase THEN mark % 268435456 ELSE 0

\* chain output, on a connection's first packet: its mark is the socket's, if it is one of ours.
ConnMark(socket, zapret) == (IF (socket \div 65536) * 65536 = MarkBase THEN socket ELSE 0) + zapret

\* The hooks a packet of an exit's connection passes: on loopback both.
Passes(direction, loopback) ==
  IF loopback THEN {"output", "input"} ELSE IF direction = "original" THEN {"output"} ELSE {"input"}
\* The map that polices it there.
MapsAt(hook, direction) ==
  CASE hook = "output" /\ direction = "original" -> {<<"user", "up">>}
    [] hook = "input" /\ direction = "reply" -> {<<"user", "down">>}
    [] OTHER -> {}

Rate(bits) == IF bits \div 8 > 1 THEN bits \div 8 ELSE 1

\* What polices a packet: each map it is looked up in, by the connection's mark.
PolicedBy(mark, direction, loopback) ==
  {l \in table.limits : l.key = Key(mark) /\ \E h \in Passes(direction, loopback) : l.map \in MapsAt(h, direction)}

-----------------------------------------------------------------------------
(* What the limits should be: speed_targets                                 *)

HasLimit(u) == want[u].speed # <<0, 0>>
Dir(up) == IF up = 1 THEN "up" ELSE "down"

\* Mutant: users who are switched off keep their limits.
Speeds_all == {u \in Users : HasLimit(u)}
Limited == {u \in Users : HasLimit(u) /\ want[u].active}

\* limits_script: names are of the slot or of the peer's place, which here is its offset.
UserLimits == UNION {{[map |-> <<"user", Dir(d)>>, key |-> MarkBase + want[u].slot, rate |-> Rate(want[u].speed[d])] :
                         d \in {d \in {1, 2} : want[u].speed[d] # 0}} : u \in {u \in Limited : want[u].slot # 0}}
PeerLimits == UNION {{[map |-> <<"awg", Dir(d)>>, key |-> want[u].offset, rate |-> Rate(want[u].speed[d])] :
                         d \in {d \in {1, 2} : want[u].speed[d] # 0}} : u \in {u \in Limited : want[u].offset # 0}}
Targets == UserLimits \union PeerLimits

\* A limit's name.
NameOf(l) == <<l.map, l.key>>

-----------------------------------------------------------------------------
(* The daemon                                                               *)

Fresh == [limits |-> {}, bans |-> {}]

Daemon(pc) == at' = pc
Fails == Daemon("idle") /\ clean' = FALSE

\* A request changes speeds, under the lock; the slots follow, lowest free first.
\* A user with none free has level 0.
Given(speeds) ==
  {slots \in [Users -> 0..Slots] :
     /\ \A u \in Users : speeds[u] = <<0, 0>> => slots[u] = 0
     /\ \A u \in Users : want[u].slot # 0 /\ speeds[u] # <<0, 0>> => slots[u] = want[u].slot
     /\ \A u, v \in Users : slots[u] = slots[v] /\ slots[u] # 0 => u = v
     /\ (\E u \in Users : speeds[u] # <<0, 0>> /\ slots[u] = 0) => \A s \in 1..Slots : \E v \in Users : slots[v] = s}

\* An apply that fails ends the request before its sync.
Request ==
  /\ at = "idle" /\ Spend("requests")
  /\ \E u \in Users, speed \in Speeds, active \in BOOLEAN, fail \in BOOLEAN :
       LET speeds == [v \in Users |-> IF v = u THEN speed ELSE want[v].speed]
       IN  /\ \E slots \in Given(speeds) :
                want' = [v \in Users |-> [want[v] EXCEPT !.speed = speeds[v], !.slot = slots[v],
                                                        !.active = IF v = u THEN active ELSE @]]
           /\ want' # want
           /\ IF fail THEN Fails ELSE Daemon("ensure") /\ UNCHANGED clean
  /\ UNCHANGED <<table, installed, job, un, lifted>>

\* The tick, whose first call comes before it bans anyone.
Tick ==
  /\ at = "idle" /\ Daemon("look")
  /\ UNCHANGED <<want, table, installed, job, un, left, clean, lifted>>

\* Mutant: what was installed is still taken for it.
Remade_kept == installed
\* ensure(), when the table was gone.
Remade == None

\* ensure(): the table is made again if it is not there.
Ensure(pc, next) ==
  /\ at = pc
  /\ IF table = None THEN table' = Fresh /\ installed' = Remade ELSE UNCHANGED <<table, installed>>
  /\ Daemon(next)
  /\ UNCHANGED <<want, job, un, left, clean, lifted>>

Look     == Ensure("look", "bans")
EnsureIn == Ensure("ensure", "check")

\* The elements an address's ban has.
Banned(ip, ports) == {AddressOf[ip]} \X ports

\* enforce_ip_limits: an address that came last, banned from a user's ports.
\* Without the table it is not; an element that is there stays as it is.
Ban ==
  /\ at = "bans" /\ Spend("bans")
  /\ \E ip \in Spellings, ports \in SUBSET Ports :
       /\ ports # {}
       /\ AddressOf[ip] # None /\ table # None
       /\ table' = [table EXCEPT !.bans = @ \union Banned(ip, ports)]
       /\ lifted' = lifted \ {AddressOf[ip]}
       /\ un' = IF un # None /\ un.ip = AddressOf[ip] THEN [un EXCEPT !.crossed = TRUE] ELSE un
  /\ UNCHANGED <<want, installed, at, job, clean>>

BansDone == at = "bans" /\ Daemon("ensure") /\ UNCHANGED <<want, table, installed, job, un, left, clean, lifted>>

\* Mutant: what is installed is not looked for in the table.
Skips_blind == Targets = installed
\* sync_limits: they are in already, and the table is there.
Skips == Targets = installed /\ table # None

\* The targets are read again here: only the AmneziaWG unit changes them meanwhile.
Check ==
  /\ at = "check"
  /\ IF Skips THEN Daemon("idle") /\ clean' = TRUE /\ UNCHANGED <<table, installed>>
     ELSE /\ Daemon("list") /\ UNCHANGED clean
          /\ IF table = None THEN table' = Fresh /\ installed' = Remade ELSE UNCHANGED <<table, installed>>
  /\ job' = [job EXCEPT !.wanted = Targets]
  /\ UNCHANGED <<want, un, left, lifted>>

\* objects()
List ==
  /\ at = "list"
  /\ IF table = None THEN Fails /\ UNCHANGED job
     ELSE job' = [job EXCEPT !.listed = {NameOf(l) : l \in table.limits}] /\ Daemon("install") /\ UNCHANGED clean
  /\ UNCHANGED <<want, table, installed, un, left, lifted>>

Dropped == job.listed

\* One transaction: it fails whole when the table, or a limit it drops, is not there,
\* or one it adds is, of another rate.
Install ==
  /\ at = "install"
  /\ IF table # None /\ Dropped \subseteq {NameOf(l) : l \in table.limits}
        /\ \A l \in job.wanted, o \in table.limits : NameOf(l) = NameOf(o) => NameOf(o) \in Dropped \/ l = o
     THEN /\ table' = [table EXCEPT !.limits = job.wanted]
          /\ installed' = job.wanted
          /\ clean' = (job.wanted = Targets)
          /\ Daemon("idle")
     ELSE Fails /\ UNCHANGED <<table, installed>>
  /\ UNCHANGED <<want, job, un, left, lifted>>

\* The manager starts again: it remembers nothing, and the table is as it was.
Restart ==
  /\ Spend("faults")
  /\ Daemon("look") /\ installed' = None /\ un' = None
  /\ clean' = FALSE
  /\ UNCHANGED <<want, table, job, lifted>>

-----------------------------------------------------------------------------
(* unban(), on another thread and without the lock                          *)

\* Mutant: an address is looked for as it is written.
Asked_text(ip) == ip
Asked(ip) == AddressOf[ip]

UnbanList ==
  /\ un = None /\ Spend("unbans")
  /\ \E ip \in Spellings :
       /\ AddressOf[ip] # None
       /\ un' = [ip |-> AddressOf[ip], crossed |-> FALSE,
                 found |-> IF table = None THEN {} ELSE {b \in table.bans : b[1] = Asked(ip)}]
  /\ UNCHANGED <<want, table, installed, at, job, clean, lifted>>

\* All that were found, or none: one that has run out since fails the call, with a 500.
UnbanDelete ==
  /\ un # None
  /\ IF un.found = {} \/ (table # None /\ un.found \subseteq table.bans)
     THEN /\ table' = IF un.found = {} THEN table ELSE [table EXCEPT !.bans = @ \ un.found]
          /\ lifted' = IF un.crossed THEN lifted ELSE lifted \union {un.ip}
     ELSE UNCHANGED <<table, lifted>>
  /\ un' = None
  /\ UNCHANGED <<want, installed, at, job, left, clean>>

-----------------------------------------------------------------------------
(* The rest of the host                                                     *)

\* nftables.service reloads.
Flush ==
  /\ table # None /\ Spend("flushes")
  /\ table' = None /\ clean' = FALSE
  /\ UNCHANGED <<want, installed, at, job, un, lifted>>

Expire ==
  /\ table # None
  /\ \E b \in table.bans : table' = [table EXCEPT !.bans = @ \ {b}]
  /\ UNCHANGED <<want, installed, at, job, un, left, clean, lifted>>

\* The AmneziaWG unit's prepare: who has a peer, and where.
Prepare ==
  /\ Spend("faults")
  /\ \E offsets \in [Users -> Offsets] :
       /\ \A u, v \in Users : offsets[u] = offsets[v] /\ offsets[u] # 0 => u = v
       /\ want' = [u \in Users |-> [want[u] EXCEPT !.offset = offsets[u]]]
  /\ want' # want /\ clean' = FALSE
  /\ UNCHANGED <<table, installed, at, job, un, lifted>>

-----------------------------------------------------------------------------
Init ==
  /\ want = [u \in Users |-> [speed |-> <<0, 0>>, active |-> TRUE, slot |-> 0, offset |-> 0]]
  /\ table = None /\ installed = None
  /\ at = "look" /\ job = [listed |-> {}, wanted |-> {}]
  /\ un = None /\ left \in Budgets /\ clean = FALSE /\ lifted = {}

Next ==
  \/ Request \/ Tick \/ Look \/ EnsureIn \/ Ban \/ BansDone \/ Check \/ List \/ Install \/ Restart
  \/ UnbanList \/ UnbanDelete \/ Flush \/ Expire \/ Prepare

Spec == Init /\ [][Next]_vars

-----------------------------------------------------------------------------
(* Properties                                                               *)

\* Once a sync has gone through, and until the table is flushed or a peer moves, each
\* user that a limit is for is policed at it, once, in each direction it has one, to a
\* site or through the local proxy on loopback, whatever zapret adds to the
\* connection's mark; and nobody else is (inbound_netfilter.py:1, inbound_manager.py:712).
PolicedOnce ==
  clean /\ at = "idle" =>
    /\ table # None
    /\ \A u \in Users, d \in {1, 2}, loopback \in BOOLEAN, zapret \in ZapretMarks :
         LET direction == IF d = 1 THEN "original" ELSE "reply"
             mark == ConnMark(MarkBase + want[u].slot, zapret)
         IN  {l.rate : l \in PolicedBy(mark, direction, loopback)} =
               IF want[u].active /\ want[u].slot # 0 /\ want[u].speed[d] # 0
               THEN {Rate(want[u].speed[d])} ELSE {}
    /\ \A u \in Users, d \in {1, 2} : want[u].offset # 0 =>
         {l.rate : l \in {l \in table.limits : NameOf(l) = <<<<"awg", Dir(d)>>, want[u].offset>>}} =
            IF want[u].active /\ want[u].speed[d] # 0 THEN {Rate(want[u].speed[d])} ELSE {}

\* What the daemon takes to be installed is, while the table is there: or no sync would
\* put it back (installed, inbound_netfilter.py:181).
InstalledIsIn == installed # None /\ table # None => table.limits = installed

\* An address whose bans were lifted, however it was written, is free until it is banned again.
LiftedAreFree == table # None => \A b \in table.bans : b[1] \notin lifted

\* The table does what the manager's files and answers say (inbound_netfilter.py).
NetHolds == PolicedOnce /\ InstalledIsIn /\ LiftedAreFree
=============================================================================
