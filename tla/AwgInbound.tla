----------------------------- MODULE AwgInbound -----------------------------
(***************************************************************************)
(* The AmneziaWG server of an inbound listener: src/scripts/awg_inbound.py *)
(* (`prepare`, run by the interfaces' unit as it starts and by an apply    *)
(* while it runs) keeps keys, tunnel addresses and obfuscation in a state  *)
(* file, from which the interface's peers and the clients' configurations  *)
(* are rendered.                                                           *)
(*                                                                         *)
(* One listener.  What is declared for a user (decl) is an address, a      *)
(* public key of its own or neither, and it changes with a rebuild, which  *)
(* restarts the unit.  Which others are on the listener, and who is        *)
(* switched off, changes as it runs.                                       *)
(***************************************************************************)
EXTENDS Integers, Sequences, FiniteSets, TLC

CONSTANTS
  Names,            \* the users, in the order the spec lists them
  Decls,            \* what may be declared: [user -> [address, public]]
  Obfuscations,     \* the obfuscation that may be declared: a function of the fields it sets
  End,              \* awg_offsets_end
  JunkHigh, Gap, JunkMax, Pads, Difference, Kinds,  \* generate_obfuscation's ranges
  MaxPrepares, MaxChanges,                          \* bounds
  None, Down

Users == {Names[i] : i \in DOMAIN Names}
Actors == {"start", "apply"}

VARIABLES
  spec,     \* what is declared, of users and of obfuscation; who is on the listener; who of them is switched off
  state,    \* the state file, or None
  conf,     \* the interface's configuration file, or None
  run,      \* the interface: its configuration, or Down
  pc, got,  \* each prepare's place, and what it has read or rendered
  handed,   \* client configurations handed out: [user -> configuration], of those still good
  crossed,  \* a prepare changed the state while another was under way
  counts    \* prepares begun, states written, changes of the spec

vars == <<spec, state, conf, run, pc, got, handed, crossed, counts>>

-----------------------------------------------------------------------------
(* Obfuscation                                                             *)

Fields  == <<"jmin", "jmax", "s1", "s2", "h1", "h2">>
Headers == {"h1", "h2"}
Greater(a, b) == IF a > b THEN a ELSE b
Lesser(a, b)  == IF a < b THEN a ELSE b

\* What a field may be, given the declared values and those picked before it.
Fits(values, field) ==
  LET has(f) == f \in DOMAIN values
  IN  CASE field = "jmin" -> IF has("jmax") THEN LET high == Greater(0, Lesser(JunkHigh, values["jmax"] - 1))
                                                IN  Lesser(1, high)..high
                             ELSE 1..JunkHigh
        [] field = "jmax" -> values["jmin"] + Gap..Greater(values["jmin"] + Gap, JunkMax)
        [] field = "s1"   -> {v \in Pads : has("s2") => v + Difference # values["s2"]}
        [] field = "s2"   -> {v \in Pads : values["s1"] + Difference # v}
        [] OTHER          -> Kinds \ {values[h] : h \in Headers \intersect DOMAIN values}

\* Mutant: a stored value is kept, whatever is declared around it.
Pick_stored(values, field, stored) ==
  IF field \in DOMAIN values THEN {values}
  ELSE IF field \in DOMAIN stored THEN {values @@ (field :> stored[field])}
  ELSE {values @@ (field :> v) : v \in Fits(values, field)}

\* pick: the declared, the stored while it still fits, or any.
Pick(values, field, stored) ==
  IF field \in DOMAIN values THEN {values}
  ELSE IF field \in DOMAIN stored /\ stored[field] \in Fits(values, field) THEN {values @@ (field :> stored[field])}
  ELSE {values @@ (field :> v) : v \in Fits(values, field)}

\* generate_obfuscation: what it may come to, with the declared values; those alone are
\* not stored.
Filled(declared, stored) ==
  LET f[i \in 0..Len(Fields)] ==
        IF i = 0 THEN {declared} ELSE UNION {Pick(values, Fields[i], stored) : values \in f[i - 1]}
  IN  f[Len(Fields)]
Generated(declared, stored) ==
  {[f \in DOMAIN values \ DOMAIN declared |-> values[f]] : values \in Filled(declared, stored)}

-----------------------------------------------------------------------------
(* The state                                                               *)

InOrder(S) == {i \in DOMAIN Names : Names[i] \in S}
Lowest(S)  == CHOOSE x \in S : \A y \in S : x <= y

\* allocate_addresses: the declared, then the kept, then the lowest free.  None: refused.
Allocate(d, members, stored) ==
  LET declared == {u \in members : d[u].address # None}
      refused  == \/ \E u \in declared : d[u].address \notin 2..End - 1
                  \/ \E u, v \in declared : u # v /\ d[u].address = d[v].address
      theirs   == [u \in declared |-> d[u].address]
      keep(taken, u) == IF /\ u \notin DOMAIN taken /\ u \in DOMAIN stored /\ stored[u].offset \in 2..End - 1
                           /\ \A v \in DOMAIN taken : taken[v] # stored[u].offset
                        THEN taken @@ (u :> stored[u].offset) ELSE taken
      free(taken)    == 2..End - 1 \ {taken[v] : v \in DOMAIN taken}
      give(taken, u) == IF u \in DOMAIN taken THEN taken
                        ELSE taken @@ (u :> IF free(taken) = {} THEN None ELSE Lowest(free(taken)))
      kept[i \in 0..Len(Names)]  == IF i = 0 THEN theirs
                                    ELSE IF Names[i] \in members THEN keep(kept[i - 1], Names[i]) ELSE kept[i - 1]
      given[i \in 0..Len(Names)] == IF i = 0 THEN kept[Len(Names)]
                                    ELSE IF Names[i] \in members THEN give(given[i - 1], Names[i]) ELSE given[i - 1]
      offsets == given[Len(Names)]
  IN  IF refused \/ \E u \in members : offsets[u] = None THEN None ELSE offsets

Stored(s) == IF s = None THEN <<>> ELSE s.users

\* update_state: what is missing is made, the departed are dropped.  A private key is
\* named for the prepare that made it and whose it is, and so is its public key.
UpdateState(d, members, s, offsets, obfuscation, n) ==
  LET kept(u) == u \in DOMAIN Stored(s) /\ Stored(s)[u].key # None
      key(u)  == IF d[u].public # None THEN None ELSE IF kept(u) THEN Stored(s)[u].key ELSE <<n, u>>
  IN  [server |-> IF s = None THEN <<n, "server">> ELSE s.server, obfuscation |-> obfuscation,
       users |-> [u \in members |->
                    [offset |-> offsets[u], key |-> key(u), public |-> IF key(u) = None THEN d[u].public ELSE key(u)]]]

\* render_server_config: the switched off have no peer.
ServerConfig(read, s) ==
  [key |-> s.server, obfuscation |-> s.obfuscation @@ read.obf,
   peers |-> [u \in read.on \ read.off |-> [public |-> s.users[u].public, offset |-> s.users[u].offset]]]

\* render_client_config: None for a peer that keeps its private key.
ClientConfig(s, u) ==
  IF s.users[u].key = None THEN None
  ELSE [key |-> s.users[u].key, offset |-> s.users[u].offset, server |-> s.server, obfuscation |-> s.obfuscation @@ spec.obf]

-----------------------------------------------------------------------------
Nothing == <<>>
\* Who has something declared is on the listener for good.
Declared(d) == {u \in Users : d[u].address # None \/ d[u].public # None}

Idle == pc' = [a \in Actors |-> "idle"] /\ got' = [a \in Actors |-> Nothing]
Count(what) == counts' = [counts EXCEPT ![what] = @ + 1]

Init ==
  /\ \E d \in Decls, o \in Obfuscations : spec = [decl |-> d, obf |-> o, on |-> Declared(d), off |-> {}]
  /\ state = None /\ conf = None /\ run = Down
  /\ pc = [a \in Actors |-> "idle"] /\ got = [a \in Actors |-> Nothing]
  /\ handed = Nothing /\ crossed = FALSE /\ counts = [prepares |-> 0, states |-> 0, changes |-> 0]

\* users add, rm, and the manager's switching off and on.
Change ==
  /\ counts.changes < MaxChanges /\ Count("changes")
  /\ \E u \in Users :
       \/ u \notin spec.on /\ spec' = [spec EXCEPT !.on = @ \union {u}]
       \/ u \in spec.on \ Declared(spec.decl) /\ spec' = [spec EXCEPT !.on = @ \ {u}, !.off = @ \ {u}]
       \/ u \in spec.on \ spec.off /\ spec' = [spec EXCEPT !.off = @ \union {u}]
       \/ u \in spec.off /\ spec' = [spec EXCEPT !.off = @ \ {u}]
  /\ UNCHANGED <<state, conf, run, pc, got, handed, crossed>>

\* A rebuild: the unit is stopped, and started with another spec.  What was handed out
\* holds for those whose own declaration stays, and whose address no other now declares.
Rebuild ==
  /\ counts.changes < MaxChanges /\ Count("changes")
  /\ \E d \in Decls, o \in Obfuscations :
       /\ <<d, o>> # <<spec.decl, spec.obf>>
       /\ spec' = [spec EXCEPT !.decl = d, !.obf = o, !.on = @ \union Declared(d)]
       /\ handed' = [u \in {u \in DOMAIN handed : /\ o = spec.obf /\ d[u] = spec.decl[u]
                                                  /\ \A v \in Users \ {u} : d[v].address # handed[u].offset} |-> handed[u]]
  /\ run' = Down /\ conf' = None /\ Idle
  /\ UNCHANGED <<state, crossed>>

\* The start takes the interface down first; an apply has one that runs.  Either reads
\* the spec before it takes the lock.
Begin(a) ==
  /\ pc[a] = "idle" /\ counts.prepares < MaxPrepares
  /\ IF a = "start" THEN run' = Down /\ conf' = None ELSE run # Down /\ UNCHANGED <<run, conf>>
  /\ pc' = [pc EXCEPT ![a] = "update"] /\ got' = [got EXCEPT ![a] = spec]
  /\ Count("prepares")
  /\ UNCHANGED <<spec, state, handed, crossed>>

\* Under the lock beside the state: read, updated and written.  Who is not in the spec
\* it has read is revoked.
Update(a) ==
  /\ pc[a] = "update"
  /\ LET offsets == Allocate(got[a].decl, got[a].on, Stored(state))
     IN  IF offsets = None
         THEN /\ pc' = [pc EXCEPT ![a] = "idle"] /\ got' = [got EXCEPT ![a] = Nothing]
              /\ UNCHANGED <<state, handed, crossed, counts>>
         ELSE \E o \in Generated(got[a].obf, IF state = None THEN <<>> ELSE state.obfuscation) :
                /\ state' = UpdateState(got[a].decl, got[a].on, state, offsets, o, counts.states)
                /\ pc' = [pc EXCEPT ![a] = "write"] /\ got' = [got EXCEPT ![a] = ServerConfig(got[a], state')]
                /\ handed' = [u \in DOMAIN handed \intersect got[a].on |-> handed[u]]
                /\ crossed' = (crossed \/ \E b \in Actors \ {a} : pc[b] # "idle")
                /\ Count("states")
  /\ UNCHANGED <<spec, conf, run>>

Write(a) ==
  /\ pc[a] = "write"
  /\ conf' = got[a]
  /\ pc' = [pc EXCEPT ![a] = "up"] /\ got' = [got EXCEPT ![a] = Nothing]
  /\ UNCHANGED <<spec, state, run, handed, crossed, counts>>

\* awg-quick up, or awg syncconf of the interface that runs.
Up(a) ==
  /\ pc[a] = "up" /\ conf # None
  /\ run' = IF a = "apply" /\ run = Down THEN Down ELSE conf
  /\ pc' = [pc EXCEPT ![a] = "idle"]
  /\ UNCHANGED <<spec, state, conf, got, handed, crossed, counts>>

\* The start fails or the host loses power: the state stays, the files of /run do not.
Crash ==
  /\ \E a \in Actors : pc[a] # "idle"
  /\ run' = Down /\ conf' = None /\ Idle
  /\ UNCHANGED <<spec, state, handed, crossed, counts>>

\* client_entries: of those on the listener the state knows.
Hand ==
  /\ state # None /\ run # Down
  /\ LET theirs == {u \in spec.on \intersect DOMAIN state.users : ClientConfig(state, u) # None}
     IN  handed' = [u \in theirs |-> ClientConfig(state, u)]
  /\ handed' # handed
  /\ UNCHANGED <<spec, state, conf, run, pc, got, crossed, counts>>

Next == Change \/ Rebuild \/ Hand \/ Crash \/ \E a \in Actors : Begin(a) \/ Update(a) \/ Write(a) \/ Up(a)

-----------------------------------------------------------------------------
\* The values made up agree: junk sizes are in order, padded handshakes are told apart, and
\* so are the headers, but for what was declared so; and a restart makes up no others.
Agree(values, declared) ==
  /\ values["jmin"] <= values["jmax"] \/ {"jmin", "jmax"} \subseteq declared
  /\ values["s1"] + Difference # values["s2"] \/ {"s1", "s2"} \subseteq declared
  /\ values["h1"] # values["h2"] \/ Headers \subseteq declared
ObfuscationAgrees(declared, stored) ==
  /\ Filled(declared, stored) # {}
  /\ \A values \in Filled(declared, stored) : Agree(values, DOMAIN declared)
  /\ \A o \in Generated(declared, stored) : Generated(declared, o) = {o}

\* A client that was handed its configuration still has its keys and its address, for as
\* long as each prepare found it on the listener, through restarts and crashes; and the
\* interface takes it, unless two prepares crossed.  No two peers share an address or a key.
PeerOf(config) == [public |-> config.key, offset |-> config.offset]
ClientsDial ==
  /\ state # None =>
       /\ \A u, v \in DOMAIN state.users : u # v =>
            state.users[u].offset # state.users[v].offset /\ state.users[u].public # state.users[v].public
       /\ \A u \in DOMAIN handed \intersect DOMAIN state.users : 
            /\ handed[u].key = state.users[u].key /\ handed[u].server = state.server
            /\ pc["start"] # "idle" \/ run = Down \/ handed[u] = ClientConfig(state, u)
  /\ \A u \in DOMAIN handed : u \in DOMAIN state.users
  /\ (run # Down /\ ~crossed /\ \A a \in Actors : pc[a] = "idle") =>
       /\ DOMAIN run.peers \subseteq DOMAIN state.users
       /\ \A u \in DOMAIN handed \intersect DOMAIN run.peers :
            /\ PeerOf(handed[u]) = run.peers[u]
            /\ handed[u].server = run.key /\ handed[u].obfuscation = run.obfuscation
=============================================================================
