---------------------------- MODULE InboundSpool ----------------------------
(***************************************************************************)
(* proxy-ctl's changes to the spool of inbound users and listeners         *)
(* (src/scripts/inbound_runtime.py): each runs as a process of its own,    *)
(* holds the spool's lock while it reads, checks and writes, one file at a *)
(* time, and may be killed in between.                                     *)
(***************************************************************************)
EXTENDS InboundMerge
LOCAL INSTANCE SequencesExt

CONSTANTS
  Procs,
  UserNames, Entries,  \* names to add; [tags -> entries] to add
  MaxCmds, MaxKills    \* bounds

VARIABLES
  files,   \* the spool: [users, listeners]
  lock,    \* the flock: its holder, or None
  cmd,     \* [Procs -> [verb, name, tag, order, step, read, writes]]: step "idle", "wait", "read", "write", "done"
  cmds, kills,
  gone,    \* history: users removed, and not added since, by a command that ended
  torn     \* history: users whose removal was killed

svars == <<files, lock, cmd, cmds, kills, gone, torn>>

Empty == [users |-> <<>>, listeners |-> <<>>]
Idle  == [verb |-> "none", name |-> None, tag |-> None, order |-> 0, step |-> "idle",
          read |-> Empty, writes |-> <<>>]

Set(f, k, v)   == [x \in DOMAIN f \union {k} |-> IF x = k THEN v ELSE f[x]]
Unset(f, k)    == [x \in DOMAIN f \ {k} |-> f[x]]
Tags(spool)    == DOMAIN DeclListeners \union DOMAIN spool.listeners
To(p, changes) == cmd' = [cmd EXCEPT ![p] = changes]

Ask(p, verb, name, tag, order) ==
  /\ cmd[p].step = "idle" /\ cmds < MaxCmds
  /\ To(p, [Idle EXCEPT !.verb = verb, !.name = name, !.tag = tag, !.order = order, !.step = "wait"])
  /\ cmds' = cmds + 1
  /\ UNCHANGED <<files, lock, kills, gone, torn>>

\* Mutant: the lock is given back once the spool is read.
Lock_read(p) ==
  /\ cmd[p].step = "wait" /\ lock = None
  /\ To(p, [cmd[p] EXCEPT !.step = "read", !.read = files])
  /\ UNCHANGED <<files, lock, cmds, kills, gone, torn>>

\* lock_spool, and load_spool under it.
Lock(p) ==
  /\ cmd[p].step = "wait" /\ lock = None
  /\ lock' = p
  /\ To(p, [cmd[p] EXCEPT !.step = "read", !.read = files])
  /\ UNCHANGED <<files, cmds, kills, gone, torn>>

\* Another change held it for all of LOCK_WAIT_SECONDS.
GiveUp(p) ==
  /\ cmd[p].step = "wait" /\ lock # None
  /\ To(p, Idle)
  /\ UNCHANGED <<files, lock, cmds, kills, gone, torn>>

-----------------------------------------------------------------------------
(* What a command writes, file by file; Refusal if it refuses.                  *)

W(kind, name, entry) == [kind |-> kind, name |-> name, entry |-> entry]
Refusal == <<W("bad", None, None)>>

\* cmd_users_add
UsersAdd(read, n, tag, order) ==
  LET listeners == {tag} \ {None}
      entry == [order |-> IF order = 0 THEN FreeOrder(read.users) ELSE order, listeners |-> listeners, shape |-> TRUE]
      after == [read EXCEPT !.users = Set(@, n, entry)]
  IN  IF /\ Clash(n, DOMAIN DeclUsers \union DOMAIN read.users) = {}
         /\ listeners \subseteq Tags(read)
         /\ order # 0 => OrderFree(read.users, order, n)
         /\ Commits(after, read, <<"user", n>>)
      THEN <<W("users", n, entry)>> ELSE Refusal

\* cmd_users_rm: the user, then each listener that names it.
UsersRm(read, n) ==
  LET naming == Sorted({t \in DOMAIN read.listeners : \E i \in DOMAIN read.listeners[t].users : read.listeners[t].users[i] = n})
      Without(t) == [read.listeners[t] EXCEPT !.users = SelectSeq(@, LAMBDA m : m # n)]
  IN  IF n \in DOMAIN DeclUsers \/ n \notin DOMAIN read.users THEN Refusal
      ELSE <<W("users", n, None)>> \o [i \in 1..Len(naming) |-> W("listeners", naming[i], Without(naming[i]))]

\* cmd_users_order
UsersOrder(read, n, order) ==
  IF n \in DOMAIN read.users \ DOMAIN DeclUsers /\ OrderFree(read.users, order, n)
  THEN <<W("users", n, [read.users[n] EXCEPT !.order = order])>> ELSE Refusal

\* cmd_bind
Bind(read, n, tag) ==
  LET user  == n \in DOMAIN read.users
      entry == IF user THEN [read.users[n] EXCEPT !.listeners = @ \union {tag}]
               ELSE [read.listeners[tag] EXCEPT !.users = Append(@, n)]
      after == IF user THEN [read EXCEPT !.users = Set(@, n, entry)] ELSE [read EXCEPT !.listeners = Set(@, tag, entry)]
  IN  IF n \notin DOMAIN read.users \union DOMAIN DeclUsers \/ tag \notin Tags(read)
         \/ (~user /\ tag \notin DOMAIN read.listeners) THEN Refusal
      ELSE IF (IF user THEN tag \in read.users[n].listeners ELSE n \in ToSet(read.listeners[tag].users)) THEN <<>>
      ELSE IF ~Commits(after, read, IF user THEN <<"user", n>> ELSE <<"listener", tag>>) THEN Refusal
      ELSE IF user THEN <<W("users", n, entry)>> ELSE <<W("listeners", tag, entry)>>

Unbind(read, n, tag) ==
  IF n \in DOMAIN read.users /\ tag \in read.users[n].listeners
  THEN <<W("users", n, [read.users[n] EXCEPT !.listeners = @ \ {tag}])>>
  ELSE IF n \in DOMAIN DeclUsers /\ tag \in DOMAIN read.listeners /\ n \in ToSet(read.listeners[tag].users)
  THEN <<W("listeners", tag, [read.listeners[tag] EXCEPT !.users = SelectSeq(@, LAMBDA m : m # n)])>>
  ELSE Refusal

\* cmd_add
AddListener(read, tag) ==
  LET after == [read EXCEPT !.listeners = Set(@, tag, Entries[tag])]
  IN  IF /\ tag \notin Tags(read) \union {"api-in"}
         /\ Entries[tag].shape
         /\ ToSet(Entries[tag].users) \subseteq DOMAIN read.users \union DOMAIN DeclUsers
         /\ Commits(after, read, <<"listener", tag>>)
      THEN <<W("listeners", tag, Entries[tag])>> ELSE Refusal

\* cmd_rm: the listener, then each user bound to it.
RmListener(read, tag) ==
  LET bound == Sorted({n \in DOMAIN read.users : tag \in read.users[n].listeners})
  IN  IF tag \in DOMAIN DeclListeners \/ tag \notin DOMAIN read.listeners THEN Refusal
      ELSE <<W("listeners", tag, None)>>
           \o [i \in 1..Len(bound) |-> W("users", bound[i], [read.users[bound[i]] EXCEPT !.listeners = @ \ {tag}])]

Writes(c) ==
  CASE c.verb = "users add"   -> UsersAdd(c.read, c.name, c.tag, c.order)
    [] c.verb = "users rm"    -> UsersRm(c.read, c.name)
    [] c.verb = "users order" -> UsersOrder(c.read, c.name, c.order)
    [] c.verb = "bind"        -> Bind(c.read, c.name, c.tag)
    [] c.verb = "unbind"      -> Unbind(c.read, c.name, c.tag)
    [] c.verb = "add"         -> AddListener(c.read, c.tag)
    [] c.verb = "rm"          -> RmListener(c.read, c.tag)

Check(p) ==
  /\ cmd[p].step = "read"
  /\ LET writes == Writes(cmd[p])
     IN  IF writes = Refusal THEN To(p, [cmd[p] EXCEPT !.step = "done", !.verb = "refused"])
         ELSE To(p, [cmd[p] EXCEPT !.step = "write", !.writes = writes])
  /\ UNCHANGED <<files, lock, cmds, kills, gone, torn>>

\* write_entry, whole or not at all; remove_entry.
Write(p) ==
  /\ cmd[p].step = "write" /\ cmd[p].writes # <<>>
  /\ LET w == Head(cmd[p].writes)
     IN  /\ files' = [files EXCEPT ![w.kind] = IF w.entry = None THEN Unset(@, w.name) ELSE Set(@, w.name, w.entry)]
         /\ torn' = IF cmd[p].verb = "users rm" /\ w.kind = "users" THEN torn \union {w.name} ELSE torn
  /\ To(p, [cmd[p] EXCEPT !.writes = Tail(@)])
  /\ UNCHANGED <<lock, cmds, kills, gone>>

\* The lock goes with the process.
Release(p) == lock' = IF lock = p THEN None ELSE lock

End(p) ==
  /\ \/ cmd[p].step = "done"
     \/ cmd[p].step = "write" /\ cmd[p].writes = <<>>
  /\ Release(p) /\ To(p, Idle)
  /\ gone' = CASE cmd[p].verb = "users rm" -> gone \union {cmd[p].name}
               [] cmd[p].verb = "users add" -> gone \ {cmd[p].name}
               [] OTHER -> gone
  /\ torn' = IF cmd[p].verb = "users rm" THEN torn \ {cmd[p].name} ELSE torn
  /\ UNCHANGED <<files, cmds, kills>>

Kill(p) ==
  /\ cmd[p].step # "idle" /\ kills < MaxKills
  /\ kills' = kills + 1
  /\ Release(p) /\ To(p, Idle)
  /\ gone' = IF cmd[p].verb = "users add" THEN gone \ {cmd[p].name} ELSE gone
  /\ UNCHANGED <<files, cmds, torn>>

-----------------------------------------------------------------------------
Init ==
  /\ files = Empty /\ lock = None
  /\ cmd = [p \in Procs |-> Idle]
  /\ cmds = 0 /\ kills = 0
  /\ gone = {} /\ torn = {}

Requests(p) ==
  \/ \E n \in UserNames, tag \in DOMAIN DeclListeners \union DOMAIN Entries :
       Ask(p, "bind", n, tag, 0) \/ Ask(p, "unbind", n, tag, 0)
  \/ \E n \in UserNames : Ask(p, "users rm", n, None, 0) \/ Ask(p, "users order", n, None, 1)
  \/ \E n \in UserNames, tag \in {None} \union DOMAIN DeclListeners, order \in {0, 1} : Ask(p, "users add", n, tag, order)
  \/ \E tag \in DOMAIN Entries : Ask(p, "add", None, tag, 0) \/ Ask(p, "rm", None, tag, 0)

Next ==
  \E p \in Procs :
    Requests(p) \/ Lock(p) \/ GiveUp(p) \/ Check(p) \/ Write(p) \/ End(p) \/ Kill(p)

-----------------------------------------------------------------------------
\* "users rm racing bind cannot write the user back" (inbound_runtime.py:246):
\* a user whose removal ended is in no file of the spool until it is added
\* again; and users' names and orders are apart whatever ran at the same time.
RemovedStay ==
  /\ \A n \in gone \ torn :
       /\ n \notin DOMAIN files.users \/ \E p \in Procs : cmd[p].verb = "users add" /\ cmd[p].name = n
       /\ \A t \in DOMAIN files.listeners : n \notin ToSet(files.listeners[t].users)
  /\ \A n, m \in DOMAIN files.users : n # m =>
       files.users[n].order # files.users[m].order /\ Lower[n] # Lower[m]
=============================================================================
