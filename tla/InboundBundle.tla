---------------------------- MODULE InboundBundle ----------------------------
(***************************************************************************)
(* Moving an inbound server's users to another (Manager.export and         *)
(* Manager.import_bundle, src/scripts/inbound_manager.py).                 *)
(*                                                                         *)
(* A bundle of what another server keeps is taken in here, one file after  *)
(* the other; the manager may be killed between two, and the AmneziaWG     *)
(* interfaces' unit may start meanwhile (awg_inbound.py's `prepare`).      *)
(* Whose an entry is stands for what it holds: "here", "there", or "new"   *)
(* for what a prepare generated.  A client works while the server has what *)
(* the client was given.                                                   *)
(***************************************************************************)
EXTENDS Integers, FiniteSets, Sequences, SequencesExt

CONSTANTS
  Names,       \* the users' names, in order
  Bundles,     \* what the other server may keep
  Servers,     \* what this one may
  Slots,       \* inbounds.manager.speedLimits.slots
  End,         \* awg_offsets_end
  Version,     \* awg_inbound.STATE_VERSION
  MaxImports, MaxStarts,  \* bounds
  None

Users == {Names[i] : i \in DOMAIN Names}

VARIABLES
  here,     \* this server's files
  bundle,   \* the export
  replace,  \* the import's flag
  pc,       \* the file it is about to write
  got,      \* the AmneziaWG state it has read
  skipped,  \* the report's "skipped"
  old,      \* this server before its first import
  result,   \* how the last import ended
  replaced, \* an import replaced
  counts    \* imports and starts

vars == <<here, bundle, replace, pc, got, skipped, old, result, replaced, counts>>

-----------------------------------------------------------------------------
(* The bundle                                                              *)

\* export: the files as they are, but the subscription key the configuration names.
Export(server) == [server EXCEPT !.key = IF server.keyIs = "file" THEN None ELSE server.key]

\* Mutant: an AmneziaWG state of any version.
Checked_anyversion(b) == b.bad \subseteq {"policies"}
\* _check_bundle and _check_awg_state: every part of it, but the policies, which are checked one by one.
Checked(b) == b.bad \subseteq {"policies"} /\ (b.awg # None => b.awg.version = Version)

\* Mutant: what is here of the name is not looked at.
Conflicts_not(b) == {u \in Users : b.users[u] # None /\ u \in here.declared}
\* The names refused: declared ones, and without replace those already here.
Conflicts(b) == {u \in Users : b.users[u] # None /\ (u \in here.declared \/ (~replace' /\ here.users[u] # None))}

-----------------------------------------------------------------------------
(* awg_inbound.py: prepare                                                 *)

Members == SelectSeq(Names, LAMBDA u : u \in here.declared) \o
           SelectSeq(Names, LAMBDA u : u \notin here.declared /\ here.users[u] # None)
Lowest(S, k) == CHOOSE x \in S : Cardinality({y \in S : y < x}) = k

\* update_state: what is stored of another version is not read.
Prepared(state) ==
  LET stored == IF state = None \/ (state # None => state.version # Version)
                THEN [version |-> Version, server |-> None, users |-> [u \in Users |-> None]] ELSE state
      at(u)    == CHOOSE i \in DOMAIN Members : Members[i] = u
      on       == {Members[i] : i \in DOMAIN Members}
      keeps    == {u \in on : stored.users[u] # None /\ \A v \in on :
                     at(v) < at(u) /\ stored.users[v] # None => stored.users[v].offset # stored.users[u].offset}
      free     == 2..End - 1 \ {stored.users[u].offset : u \in keeps}
      offset(u) == IF u \in keeps THEN stored.users[u].offset
                   ELSE Lowest(free, Cardinality({v \in on \ keeps : at(v) < at(u)}))
  IN  [version |-> Version,
       server |-> IF stored.server = None THEN "new" ELSE stored.server,
       users |-> [u \in Users |-> IF u \notin on THEN None
                    ELSE [offset |-> offset(u), key |-> IF stored.users[u] = None THEN "new" ELSE stored.users[u].key]]]

-----------------------------------------------------------------------------
(* import_bundle                                                           *)

\* Mutant: the bundle's win.
Takes_theirs(mine, theirs, wins) == [u \in Users |-> IF theirs[u] # None THEN theirs[u] ELSE mine[u]]
\* The bundle's entries: those that are not here, or all of them.
Takes(mine, theirs, wins) == [u \in Users |-> IF theirs[u] # None /\ (wins \/ mine[u] = None) THEN theirs[u] ELSE mine[u]]

Moves(to) == pc' = to /\ UNCHANGED <<bundle, replace, old, result, replaced, counts>>
Ended(how) == pc' = "none" /\ result' = how /\ UNCHANGED <<bundle, replace, old, replaced, counts>>

Import ==
  /\ pc = "none" /\ counts.imports < MaxImports
  /\ counts' = [counts EXCEPT !.imports = @ + 1]
  /\ replace' \in BOOLEAN
  /\ got' = None /\ skipped' = {}
  /\ old' = IF old = None THEN here ELSE old
  /\ IF ~Checked(bundle) \/ Conflicts(bundle) # {}
     THEN pc' = "none" /\ result' = "refused" /\ UNCHANGED replaced
     ELSE pc' = "users" /\ result' = None
          /\ replaced' = (replaced \/ replace')
  /\ UNCHANGED <<here, bundle>>

\* write_entry, one user after the other, in order.
Missing == {u \in Users : bundle.users[u] # None /\ here.users[u] # bundle.users[u]}
WriteUsers ==
  /\ pc = "users"
  /\ IF Missing = {} THEN Moves("policies") /\ UNCHANGED here
     ELSE LET u == Names[CHOOSE i \in DOMAIN Names : Names[i] \in Missing /\ \A j \in 1..i - 1 : Names[j] \notin Missing]
          IN  here' = [here EXCEPT !.users[u] = bundle.users[u]] /\ Moves("users")
  /\ UNCHANGED <<got, skipped>>

\* A policy that is malformed, or already here, is skipped.
WritePolicies ==
  /\ pc = "policies"
  /\ IF "policies" \in bundle.bad
     THEN skipped' = skipped \union {"policies"} /\ UNCHANGED here
     ELSE /\ here' = [here EXCEPT !.policies = Takes(@, bundle.policies, replace)]
          /\ skipped' = IF here'.policies = Takes(here.policies, bundle.policies, TRUE) THEN skipped
                        ELSE skipped \union {"policies"}
  /\ Moves("state") /\ UNCHANGED got

\* The policies' periods, the speed-limit slots and the subscriptions' salts; a slot that
\* is wanted and not free ends the import (_allocate_slot).
Wanting == {u \in bundle.slots : u \notin here.slots /\ here.policies[u] = bundle.policies[u] /\ bundle.policies[u] # None}
WriteState ==
  /\ pc = "state"
  /\ IF Cardinality(here.slots \union Wanting) > Slots
     THEN Ended("full") /\ UNCHANGED here
     ELSE /\ here' = [here EXCEPT !.salts = Takes(@, bundle.salts, replace), !.slots = @ \union Wanting]
          /\ Moves(IF bundle.awg = None THEN "keys" ELSE "read")
  /\ UNCHANGED <<got, skipped>>

ReadAwg == pc = "read" /\ got' = here.awg /\ Moves("awg") /\ UNCHANGED <<here, skipped>>

\* Mutant: the bundle's server key is taken as well.
Merged_server(existing) == [bundle.awg EXCEPT !.users = Takes(existing.users, bundle.awg.users, FALSE)]
\* This server's, with the bundle's users that are not in it.
Merged(existing) == [existing EXCEPT !.users = Takes(@, bundle.awg.users, FALSE)]

WriteAwg ==
  /\ pc = "awg"
  /\ here' = [here EXCEPT !.awg = IF got = None \/ replace THEN bundle.awg ELSE Merged(got)]
  /\ skipped' = IF got # None /\ ~replace /\ (got # None => got.server # bundle.awg.server)
                THEN skipped \union {"server"} ELSE skipped
  /\ Moves("keys") /\ UNCHANGED got

\* Mutant: as the other keys: a file that is there is kept.
KeyTaken_there(existing) == existing = None
\* _import_subscription_key: when this server has none yet, or with replace.
KeyTaken(existing) == existing \in {None, "empty"} \/ replace

\* The subscription key, which is emptied before it is written.
TruncateKey ==
  /\ pc = "keys"
  /\ IF bundle.key = None \/ (here.keyIs = "generated" /\ here.key = bundle.key)
     THEN Moves("stats") /\ UNCHANGED <<here, skipped>>
     ELSE IF here.keyIs = "generated" /\ KeyTaken(here.key)
     THEN here' = [here EXCEPT !.key = "empty"] /\ Moves("key") /\ UNCHANGED skipped
     ELSE skipped' = skipped \union {"key"} /\ Moves("stats") /\ UNCHANGED here
  /\ UNCHANGED got
WriteKey == pc = "key" /\ here' = [here EXCEPT !.key = bundle.key] /\ Moves("stats") /\ UNCHANGED <<got, skipped>>

\* The traffic: days and names that are not here.
WriteStats ==
  /\ pc = "stats"
  /\ here' = [here EXCEPT !.stats = Takes(@, bundle.stats, FALSE)]
  /\ Moves("apply") /\ UNCHANGED <<got, skipped>>

\* apply_now: among the rest, the AmneziaWG peers are prepared.
Apply ==
  /\ pc = "apply"
  /\ here' = [here EXCEPT !.awg = Prepared(@)]
  /\ Ended("done") /\ UNCHANGED <<got, skipped>>

Killed ==
  /\ pc # "none" /\ pc' = "none" /\ result' = "killed"
  /\ UNCHANGED <<here, bundle, replace, got, skipped, old, replaced, counts>>

\* The unit of the interfaces starts, in its own time.
Start ==
  /\ counts.starts < MaxStarts /\ counts' = [counts EXCEPT !.starts = @ + 1]
  /\ here' = [here EXCEPT !.awg = Prepared(@)]
  /\ UNCHANGED <<bundle, replace, pc, got, skipped, old, result, replaced>>

-----------------------------------------------------------------------------
Init ==
  /\ here \in Servers /\ bundle \in {Export(server) : server \in Bundles}
  /\ replace = FALSE /\ pc = "none" /\ got = None /\ skipped = {} /\ old = None /\ result = None /\ replaced = FALSE
  /\ counts = [imports |-> 0, starts |-> 0]

Next ==
  \/ Import \/ WriteUsers \/ WritePolicies \/ WriteState \/ ReadAwg \/ WriteAwg
  \/ TruncateKey \/ WriteKey \/ WriteStats \/ Apply \/ Killed \/ Start

-----------------------------------------------------------------------------
\* An imported address may be one that is given here already: which of the two moves is not told.
Collide(a, b) == \E u, v \in Users : u # v /\ a.users[u] # None /\ b.users[v] # None
                                     /\ (a.users[u] # None => a.users[u].offset = b.users[v].offset)

\* Whoever worked here before still does, as long as no import replaces: an import that is
\* refused, skips, or is killed anywhere takes nothing away (import_bundle's docstring, 917).
OldClientsWork ==
  old # None /\ ~replaced =>
    /\ \A u \in Users :
         /\ old.users[u] # None => here.users[u] = old.users[u]
         /\ old.policies[u] # None => here.policies[u] = old.policies[u]
         /\ old.salts[u] # None => here.salts[u] = old.salts[u]
         /\ old.stats[u] # None => here.stats[u] = old.stats[u]
    /\ old.slots \subseteq here.slots
    /\ old.key # None => here.key = old.key
    /\ old.awg # None =>
         /\ here.awg.server = old.awg.server
         /\ \A u \in Users : old.awg.users[u] # None /\ (old.users[u] # None \/ u \in old.declared) =>
              /\ here.awg.users[u].key = old.awg.users[u].key
              /\ Collide(old.awg, bundle.awg) \/ here.awg.users[u].offset = old.awg.users[u].offset

\* Once an import is through, those whose names it took work here as they did there: all
\* but what it says it skipped, whatever imports were killed before or starts came between.
ImportedClientsWork ==
  result = "done" => here.key # "empty" /\ \A u \in Users : bundle.users[u] # None =>
    /\ here.users[u] = "there"
    /\ bundle.salts[u] # None => here.salts[u] = "there"
    /\ bundle.policies[u] # None /\ "policies" \notin skipped => here.policies[u] = "there"
    /\ bundle.key # None /\ "key" \notin skipped => here.key = "there"
    /\ bundle.awg # None => (bundle.awg.users[u] # None /\ "server" \notin skipped =>
         /\ here.awg.server = "there" /\ here.awg.users[u].key = "there"
         /\ (old.awg # None => Collide(old.awg, bundle.awg)) \/ here.awg.users[u].offset = bundle.awg.users[u].offset)

\* A malformed bundle, or one that is refused, leaves everything as it was.
RefusedWhole == result = "refused" /\ counts.imports = 1 /\ counts.starts = 0 => here = old

BundleHolds == OldClientsWork /\ ImportedClientsWork /\ RefusedWhole
=============================================================================
