----------------------------- MODULE CtlEntries -----------------------------
(***************************************************************************)
(* proxy-ctl's spool of runtime outbounds (src/pkgs/proxy-ctl/             *)
(* proxy_ctl.py): an entry is several files of one tag, written and        *)
(* removed one after the other under one lock, which `outbounds disable`   *)
(* and `enable` do not take.  Commands may be killed between two files;    *)
(* the backend reads the spool whenever it is reloaded.                    *)
(*                                                                         *)
(* A subscription's spool goes the same way, its .options as the tweaks.   *)
(***************************************************************************)
EXTENDS Integers, Sequences, FiniteSets
LOCAL INSTANCE SequencesExt
LOCAL INSTANCE FiniteSetsExt

CONSTANTS
  Procs,
  Declared,          \* outbounds of the configuration
  Names,             \* a sequence of tags: each the next to try when none is given
  Sources,           \* what is added: [kind, hop, tweaks]
  Slots,             \* ports, or interface slots, of AmneziaWG outbounds
  MaxCmds, MaxKills, \* bounds
  None

VARIABLES
  dir,      \* the spool: [tags -> [entry, hop, tweaks, disabled, port, iface]]
  inv,      \* the backend's inventory: [up, disabled], the outbounds it took
  lock,     \* its holder, or None
  proc,     \* [Procs -> [verb, tag, source, step, writes]]
  cmds, kills,
  adds      \* history: [tags -> what the `add` that wrote the entry was given]

evars == <<dir, inv, lock, proc, cmds, kills, adds>>

Tags   == ToSet(Names)
Nowhere == [entry |-> None, hop |-> None, tweaks |-> None, disabled |-> None, port |-> None, iface |-> None]
Idle   == [verb |-> "none", tag |-> None, source |-> None, step |-> "idle", writes |-> <<>>]
W(file, value) == [file |-> file, value |-> value]

RuntimeTags == {t \in Tags : dir[t].entry # None}

\* _check_runtime_tag, _check_runtime_unused
Unused(t) == t \notin RuntimeTags \union inv.up

\* _unique_runtime_tag
FreshTag == LET free == {i \in DOMAIN Names : Unused(Names[i])} IN IF free = {} THEN None ELSE Names[Min(free)]

Ask(p, verb, tag, source) ==
  /\ proc[p].step = "idle" /\ cmds < MaxCmds
  /\ cmds' = cmds + 1
  /\ proc' = [proc EXCEPT ![p] = [Idle EXCEPT !.verb = verb, !.tag = tag, !.source = source,
                                              !.step = IF verb \in {"add", "rm"} THEN "lock" ELSE "write",
                                              !.writes = CASE verb = "disable" -> <<W("disabled", TRUE)>>
                                                           [] verb = "enable"  -> <<W("disabled", None)>>
                                                           [] OTHER            -> <<>>]]
  /\ UNCHANGED <<dir, inv, lock, kills, adds>>

\* _runtime_entry_add, with or without a tag; cmd_outbound_chain is one with a hop.
Add(p) ==
  \E source \in Sources, tag \in Tags \union {None} :
    LET t == IF tag = None THEN FreshTag ELSE tag
    IN  /\ t # None /\ Unused(t)
        /\ source.hop # None => source.hop \in inv.up \ {t}
        /\ Ask(p, "add", t, source)

Rm(p) == \E t \in RuntimeTags : Ask(p, "rm", t, None)

\* The last one that selection can pick stays; the backend's word is what counts.
Disable(p) ==
  \E t \in inv.up :
    /\ ~(dir[t].disabled # None /\ t \in inv.disabled)
    /\ inv.up \ inv.disabled # {t}
    /\ Ask(p, "disable", t, None)
Enable(p) == \E t \in Tags : dir[t].disabled # None /\ Ask(p, "enable", t, None)

-----------------------------------------------------------------------------
(* Under the lock                                                           *)

Taken(file) == {dir[t][file] : t \in Tags} \ {None}

\* Mutant: the entry, then its hop.
AddWrites_entry_first(t, s) ==
  LET extra == IF s.kind = "iface" THEN "iface" ELSE "port"
      free  == Slots \ Taken(extra)
  IN  IF s.kind \in {"port", "iface"}
      THEN IF free = {} THEN <<>> ELSE <<W("entry", s.kind), W("hop", None), W(extra, Min(free))>>
      ELSE <<W("entry", s.kind), W("hop", s.hop), W("tweaks", s.tweaks)>>

\* The hop first: the entry is what the start script looks for.  _awg_outbound_add:
\* what an earlier entry of this name left goes, then the port or slot, then the config.
AddWrites(t, s) ==
  LET extra == IF s.kind = "iface" THEN "iface" ELSE "port"
      stale == IF s.kind = "iface" THEN "port" ELSE "iface"
      free  == Slots \ Taken(extra)
  IN  IF s.kind \in {"port", "iface"}
      THEN IF free = {} THEN <<>>
           ELSE <<W("hop", None), W("disabled", None), W(stale, None), W(extra, Min(free)), W("entry", s.kind)>>
      ELSE <<W("hop", s.hop), W("tweaks", s.tweaks), W("entry", s.kind)>>

\* _runtime_entry_rm
RmWrites(t) == <<W("entry", None), W("hop", None), W("disabled", None), W("port", None), W("iface", None), W("tweaks", None)>>

Lock(p) ==
  /\ proc[p].step = "lock" /\ lock = None
  /\ lock' = p
  /\ LET t == proc[p].tag
         writes == IF proc[p].verb = "rm" THEN (IF t \in RuntimeTags THEN RmWrites(t) ELSE <<>>)
                   ELSE IF t \in RuntimeTags THEN <<>> ELSE AddWrites(t, proc[p].source)
     IN  proc' = [proc EXCEPT ![p].step = "write", ![p].writes = writes]
  /\ UNCHANGED <<dir, inv, cmds, kills, adds>>

Write(p) ==
  /\ proc[p].step = "write" /\ proc[p].writes # <<>>
  /\ LET w == Head(proc[p].writes)
         t == proc[p].tag
     IN  /\ dir' = [dir EXCEPT ![t][w.file] = w.value]
         /\ adds' = IF w.file = "entry" /\ w.value # None THEN [adds EXCEPT ![t] = proc[p].source] ELSE adds
  /\ proc' = [proc EXCEPT ![p].writes = Tail(@)]
  /\ UNCHANGED <<inv, lock, cmds, kills>>

Leave(p) ==
  /\ proc' = [proc EXCEPT ![p] = Idle]
  /\ lock' = IF lock = p THEN None ELSE lock

\* Unlocked, then the reload unit, of which Reload is what counts.
End(p) ==
  /\ proc[p].step = "write" /\ proc[p].writes = <<>>
  /\ Leave(p)
  /\ UNCHANGED <<dir, inv, cmds, kills, adds>>

Kill(p) ==
  /\ proc[p].step # "idle" /\ kills < MaxKills
  /\ kills' = kills + 1
  /\ Leave(p)
  /\ UNCHANGED <<dir, inv, cmds, adds>>

\* The start script: an outbound whose hop is not there is left out.
Reload ==
  LET there == Declared \union RuntimeTags
      up    == {t \in there : dir[t].hop = None \/ dir[t].hop \in there \ {t} \/ t \in Declared}
  IN  /\ inv' = [up |-> up, disabled |-> {t \in up : dir[t].disabled # None}]
      /\ inv' # inv
      /\ UNCHANGED <<dir, lock, proc, cmds, kills, adds>>

-----------------------------------------------------------------------------
Init ==
  /\ dir = [t \in Tags \union Declared |-> Nowhere]
  /\ inv = [up |-> Declared, disabled |-> {}]
  /\ lock = None
  /\ proc = [p \in Procs |-> Idle]
  /\ cmds = 0 /\ kills = 0
  /\ adds = [t \in Tags |-> None]

Next ==
  \/ Reload
  \/ \E p \in Procs : \/ Add(p) \/ Rm(p) \/ Disable(p) \/ Enable(p)
                      \/ Lock(p) \/ Write(p) \/ End(p) \/ Kill(p)

Spec == Init /\ [][Next]_evars

-----------------------------------------------------------------------------
Whole(t) ==
  CASE dir[t].entry = "port"  -> dir[t].port # None /\ dir[t].iface = None /\ dir[t].hop = None
    [] dir[t].entry = "iface" -> dir[t].iface # None /\ dir[t].port = None /\ dir[t].hop = None
    [] OTHER -> dir[t].hop = adds[t].hop /\ dir[t].tweaks = adds[t].tweaks

Apart(t, u) ==
  /\ dir[t].entry = "port" /\ dir[u].entry = "port" => dir[t].port # dir[u].port
  /\ dir[t].entry = "iface" /\ dir[u].entry = "iface" => dir[t].iface # dir[u].iface

\* An outbound that the backend could find in the spool at any moment dials as
\* its own `add` said: through its hop, with its tweaks, never without them and
\* never with those an earlier one of its name left; and each AmneziaWG outbound
\* has a port, or a slot, that no other has.
EntriesWhole ==
  /\ \A t \in RuntimeTags : Whole(t)
  /\ \A t, u \in RuntimeTags : t # u => Apart(t, u)
=============================================================================
