------------------------ MODULE SupervisorDaemonProofs ------------------------
(***************************************************************************)
(* Proofs about SupervisorDaemon: for any clients and daemons, any number  *)
(* of commands, and daemons killed at any step.                            *)
(***************************************************************************)
EXTENDS SupervisorDaemon, TLAPS

Steps   == {"begun", "locked", "cleared", "serving", "stopping", "quit", "closed", "unlinked", "gone"}
Answers == {"connect", "sent", "ending", "done", "active", "inactive", "stopped", "left to it", "gave up", "cut"}
Command == [verb : Verbs \union {"boot"}, at : Answers, to : Daemons \union {None}, spawned : BOOLEAN, harmed : BOOLEAN]

\* What the constants have to be told apart by.
Sane ==
  /\ None \notin Daemons \union Clients \union Steps \union Command
  /\ Daemons \intersect Clients = {}

\* The types; a client has a connection while it waits for the answer to what it sent.
TypeInv ==
  /\ pc \in [Daemons -> Steps \union {None}]
  /\ lock \in Daemons \union Clients \union {None}
  /\ socket \in Daemons \union {None} /\ runs \in Daemons \union {None}
  /\ client \in [Clients -> Command \union {None}]
  /\ booted \in BOOLEAN /\ crossed \in BOOLEAN
  /\ kills \in Nat
  /\ \A c \in Clients : client[c] # None => (client[c].at = "sent" <=> client[c].to \in Daemons)

Ending(c) == client[c] # None /\ client[c].at = "ending"

Holding == {"locked", "cleared", "serving", "stopping", "quit", "closed", "unlinked"}

\* The lock is whose step says so, and the socket the one's that serves.
LockInv ==
  /\ \A d \in Daemons : pc[d] \in Holding <=> lock = d
  /\ \A c \in Clients : Ending(c) <=> lock = c
  /\ \A d \in Daemons : pc[d] \in {"serving", "stopping", "quit", "closed"} => socket = d

\* Whose units run: with the orphans ended nobody's, then those of the one that serves; as long
\* as none was killed nobody else's ever.
RunsInv ==
  /\ \A d \in Daemons : /\ pc[d] = "cleared" => runs = None
                        /\ Serves(d) => runs \in {None, d}
  /\ kills = 0 /\ ~crossed => runs = None \/ pc[runs] \in {"serving", "stopping"}

\* A client that waits for the daemon it started waits for one that lives, or was told not to.
WaitInv ==
  /\ kills = 0 => \A c \in Clients : Waits(c) /\ ~client[c].harmed => \E d \in Daemons : Lives(d)
  /\ GetsThrough

DaemonInv == TypeInv /\ LockInv /\ RunsInv /\ WaitInv
-----------------------------------------------------------------------------
(* The types *)

\* What a field changed makes of a command.
LEMMA Changed ==
  ASSUME NEW r \in Command
  PROVE  /\ \A at \in Answers : [r EXCEPT !.at = at] \in Command
         /\ \A at \in Answers, to \in Daemons \union {None} : [r EXCEPT !.at = at, !.to = to] \in Command
         /\ [r EXCEPT !.verb = "boot"] \in Command
         /\ [r EXCEPT !.spawned = TRUE] \in Command
         /\ [r EXCEPT !.harmed = TRUE] \in Command
  BY DEF Command

\* What a daemon's steps make of a client.
LEMMA DaemonTells ==
  ASSUME Sane, TypeInv, NEW d \in Daemons,
         \/ Locks(d) \/ EndsOrphans(d) \/ Binds(d) \/ Stops(d) \/ Closes(d) \/ Unlinks(d) \/ Exits(d) \/ Dies(d)
  PROVE  /\ client' = [c \in Clients |-> client'[c]]
         /\ \A c \in Clients :
              \/ client'[c] = client[c]
              \/ client[c] \in Command /\ client'[c] = [client[c] EXCEPT !.harmed = TRUE] /\ Waits(c)
              \/ /\ client[c] \in Command /\ client[c].to = d
                 /\ client'[c] = [client[c] EXCEPT !.at = "cut", !.to = None]
  <1> USE DEF TypeInv, Sane
  <1>1. CASE client' = client
    BY <1>1
  <1>2. CASE Locks(d) \/ Exits(d) \/ Dies(d)
    BY <1>2 DEF Locks, Exits, Dies, CutOff, Waits
  <1> QED
    BY <1>1, <1>2 DEF EndsOrphans, Binds, Stops, Closes, Unlinks

\* What a client's steps make of it: they are its own.
LEMMA ClientMoves ==
  ASSUME Sane, TypeInv, NEW c \in Clients,
         \/ Ask(c) \/ Connects(c) \/ Boots(c) \/ StartsDaemon(c) \/ GivesUp(c) \/ Offline(c) \/ EndsUnsupervised(c)
         \/ Done(c) \/ Handle(c)
  PROVE  \E r \in Command \union {None} :
           /\ client' = [client EXCEPT ![c] = r]
           /\ r # None => (r.at = "sent" <=> r.to \in Daemons)
  <1> USE DEF TypeInv, Sane
  <1>1. client[c] # None => client[c] \in Command
    OBVIOUS
  <1>2. {"connect", "sent", "ending", "done", "active", "inactive", "stopped", "left to it", "gave up", "cut"} \subseteq Answers
    BY DEF Answers
  <1>3. CASE Ask(c)
    <2>1. PICK verb \in Verbs :
            client' = [client EXCEPT ![c] = [verb |-> verb, at |-> "connect", to |-> None, spawned |-> FALSE, harmed |-> FALSE]]
      BY <1>3 DEF Ask
    <2>2. [verb |-> verb, at |-> "connect", to |-> None, spawned |-> FALSE, harmed |-> FALSE] \in Command
      BY <1>2 DEF Command
    <2>3. [verb |-> verb, at |-> "connect", to |-> None, spawned |-> FALSE, harmed |-> FALSE].at = "connect"
      OBVIOUS
    <2>4. [verb |-> verb, at |-> "connect", to |-> None, spawned |-> FALSE, harmed |-> FALSE].to = None
      OBVIOUS
    <2> QED
      BY <2>1, <2>2, <2>3, <2>4
  <1>4. CASE Connects(c)
    <2>1. socket \in Daemons /\ client[c] \in Command /\ client' = [client EXCEPT ![c] = [client[c] EXCEPT !.at = "sent", !.to = socket]]
      BY <1>4 DEF Connects, Set, Listens
    <2>2. [client[c] EXCEPT !.at = "sent", !.to = socket] \in Command
      BY <1>2, <2>1, Changed
    <2>3. /\ [client[c] EXCEPT !.at = "sent", !.to = socket].to = socket
          /\ [client[c] EXCEPT !.at = "sent", !.to = socket].at = "sent"
      BY <2>1 DEF Command
    <2> QED
      BY <2>1, <2>2, <2>3
  <1>5. CASE Boots(c) \/ StartsDaemon(c)
    <2>1. client[c] \in Command /\ client[c].at = "connect" /\ client[c].to \notin Daemons
      BY <1>5 DEF Boots, StartsDaemon, Unserved
    <2>2. PICK r : client' = [client EXCEPT ![c] = r] /\ r \in {[client[c] EXCEPT !.verb = "boot"], [client[c] EXCEPT !.spawned = TRUE]}
      BY <1>5 DEF Boots, StartsDaemon, Set
    <2>3. r \in Command
      BY <2>1, <2>2, Changed
    <2>4. r.at = "connect" /\ r.to \notin Daemons
      BY <2>1, <2>2 DEF Command
    <2> QED
      BY <2>2, <2>3, <2>4
  <1>6. CASE Offline(c) /\ client' = [client EXCEPT ![c] = [client[c] EXCEPT !.at = "ending"]]
    <2>1. client[c] \in Command /\ client[c].to \notin Daemons
      BY <1>6 DEF Offline, Unserved
    <2>2. [client[c] EXCEPT !.at = "ending"] \in Command
      BY <1>2, <2>1, Changed
    <2>3. [client[c] EXCEPT !.at = "ending"].at = "ending" /\ [client[c] EXCEPT !.at = "ending"].to = client[c].to
      BY <2>1 DEF Command
    <2> QED
      BY <1>6, <2>1, <2>2, <2>3
  <1>7. CASE \E status \in Answers \ {"sent"} : client[c] \in Command /\ client' = [client EXCEPT ![c] = Answered(c, status)]
    <2>1. PICK status \in Answers \ {"sent"} : client[c] \in Command /\ client' = [client EXCEPT ![c] = Answered(c, status)]
      BY <1>7
    <2>2. Answered(c, status) \in Command
      BY <2>1, Changed DEF Answered
    <2>3. Answered(c, status).at = status /\ Answered(c, status).to = None
      BY <2>1 DEF Answered, Command
    <2> QED
      BY <2>1, <2>2, <2>3
  <1>8. CASE Done(c)
    BY <1>8 DEF Done, Set
  <1> QED
    BY <1>1, <1>2, <1>3, <1>4, <1>5, <1>6, <1>7, <1>8 DEF GivesUp, Offline, EndsUnsupervised, Handle, Set, Unserved

\* Every step keeps the types.
LEMMA TypeNext == ASSUME Sane, TypeInv, [Next]_vars PROVE TypeInv'
  <1> USE DEF Sane
  <1>1. /\ client' \in [Clients -> Command \union {None}]
        /\ \A c \in Clients : client'[c] # None => (client'[c].at = "sent" <=> client'[c].to \in Daemons)
    <2>1. CASE UNCHANGED vars
      BY <2>1 DEF vars, TypeInv
    <2>2. ASSUME NEW d \in Daemons,
                 \/ Locks(d) \/ EndsOrphans(d) \/ Binds(d) \/ Stops(d) \/ Closes(d) \/ Unlinks(d) \/ Exits(d) \/ Dies(d)
          PROVE  /\ client' \in [Clients -> Command \union {None}]
                 /\ \A c \in Clients : client'[c] # None => (client'[c].at = "sent" <=> client'[c].to \in Daemons)
      <3>1. ASSUME NEW c \in Clients
            PROVE  client'[c] \in Command \union {None} /\ (client'[c] # None => (client'[c].at = "sent" <=> client'[c].to \in Daemons))
        <4>1. CASE client'[c] = client[c]
          BY <4>1 DEF TypeInv
        <4>2. CASE client[c] \in Command /\ client'[c] = [client[c] EXCEPT !.harmed = TRUE]
          <5>1. client'[c] \in Command
            BY <4>2, Changed
          <5>2. client'[c].at = client[c].at /\ client'[c].to = client[c].to
            BY <4>2 DEF Command
          <5> QED
            BY <4>2, <5>1, <5>2 DEF TypeInv
        <4>3. CASE client[c] \in Command /\ client'[c] = [client[c] EXCEPT !.at = "cut", !.to = None]
          <5>1. client'[c] \in Command
            <6>1. "cut" \in Answers
              BY DEF Answers
            <6>2. [client[c] EXCEPT !.at = "cut", !.to = None] \in Command
              BY <4>3, <6>1 DEF Command
            <6> QED
              BY <4>3, <6>2
          <5>2. client'[c].at = "cut" /\ client'[c].to = None
            BY <4>3 DEF Command
          <5> QED
            BY <5>1, <5>2
        <4> QED
          BY <2>2, DaemonTells, <4>1, <4>2, <4>3
      <3> QED
        BY <2>2, <3>1, DaemonTells
    <2>3. ASSUME NEW c \in Clients,
                 \/ Ask(c) \/ Connects(c) \/ Boots(c) \/ StartsDaemon(c) \/ GivesUp(c) \/ Offline(c) \/ EndsUnsupervised(c)
                 \/ Done(c) \/ Handle(c)
          PROVE  /\ client' \in [Clients -> Command \union {None}]
                 /\ \A e \in Clients : client'[e] # None => (client'[e].at = "sent" <=> client'[e].to \in Daemons)
      BY <2>3, ClientMoves DEF TypeInv
    <2> QED
      BY <2>1, <2>2, <2>3 DEF Next
  <1>2. /\ pc' \in [Daemons -> Steps \union {None}]
        /\ lock' \in Daemons \union Clients \union {None}
        /\ socket' \in Daemons \union {None} /\ runs' \in Daemons \union {None}
        /\ booted' \in BOOLEAN /\ crossed' \in BOOLEAN
        /\ kills' \in Nat
    <2> USE DEF TypeInv, Steps
    <2> DEFINE Goal == /\ pc' \in [Daemons -> Steps \union {None}]
                       /\ lock' \in Daemons \union Clients \union {None}
                       /\ socket' \in Daemons \union {None} /\ runs' \in Daemons \union {None}
                       /\ booted' \in BOOLEAN /\ crossed' \in BOOLEAN
                       /\ kills' \in Nat
    <2>1. CASE UNCHANGED vars
      BY <2>1 DEF vars
    <2>2. ASSUME NEW d \in Daemons, Locks(d) \/ EndsOrphans(d) \/ Binds(d)
          PROVE  Goal
      BY <2>2 DEF Locks, First, EndsOrphans, Cleared, Binds, Step
    <2>3. ASSUME NEW d \in Daemons, Stops(d) \/ Closes(d) \/ Unlinks(d) \/ Exits(d) \/ Dies(d)
          PROVE  Goal
      BY <2>3 DEF Stops, Closes, Unlinks, Exits, Dies, Step
    <2>4. ASSUME NEW c \in Clients, Ask(c) \/ Connects(c) \/ Boots(c) \/ StartsDaemon(c) \/ GivesUp(c)
          PROVE  Goal
      BY <2>4 DEF Ask, Connects, Boots, StartsDaemon, GivesUp, Step
    <2>5. ASSUME NEW c \in Clients, Offline(c) \/ EndsUnsupervised(c) \/ Done(c)
          PROVE  Goal
      BY <2>5 DEF Offline, EndsUnsupervised, Cleared, Done
    <2>6. ASSUME NEW c \in Clients, Handle(c)
          PROVE  Goal
      BY <2>6 DEF Handle, Starts, Step
    <2> QED
      BY <2>1, <2>2, <2>3, <2>4, <2>5, <2>6 DEF Next
  <1> QED
    BY <1>1, <1>2 DEF TypeInv

-----------------------------------------------------------------------------
(* The lock and the socket *)

\* Who ends what no daemon has takes the lock for it, and gives it back.
LEMMA EndingNext ==
  ASSUME Sane, TypeInv, NEW c \in Clients,
         \/ Ask(c) \/ Connects(c) \/ Boots(c) \/ StartsDaemon(c) \/ GivesUp(c) \/ Offline(c) \/ EndsUnsupervised(c)
         \/ Done(c) \/ Handle(c)
  PROVE  /\ \A e \in Clients \ {c} : client'[e] = client[e]
         /\ \/ lock' = lock /\ ~Ending(c) /\ ~Ending(c)'
            \/ lock = None /\ lock' = c /\ Ending(c)'
            \/ Ending(c) /\ lock' = None /\ ~Ending(c)'
  <1> USE DEF TypeInv, Sane, Ending
  <1>1. client[c] # None => client[c] \in Command
    OBVIOUS
  <1>2. \A e \in Clients \ {c} : client'[e] = client[e]
    BY ClientMoves
  <1>3. CASE Ask(c) \/ Done(c)
    <2>1. lock' = lock /\ ~Ending(c)
      BY <1>3 DEF Ask, Done
    <2>2. CASE Done(c)
      BY <1>2, <2>1, <2>2 DEF Done, Set
    <2>3. CASE Ask(c)
      <3>1. PICK verb \in Verbs :
              client' = [client EXCEPT ![c] = [verb |-> verb, at |-> "connect", to |-> None, spawned |-> FALSE, harmed |-> FALSE]]
        BY <2>3 DEF Ask
      <3>2. [verb |-> verb, at |-> "connect", to |-> None, spawned |-> FALSE, harmed |-> FALSE].at = "connect"
        OBVIOUS
      <3>3. client'[c].at = "connect"
        BY <3>1, <3>2
      <3> QED
        BY <1>2, <2>1, <3>3
    <2> QED
      BY <1>3, <2>2, <2>3
  <1>4. CASE Connects(c) \/ Boots(c) \/ StartsDaemon(c)
    <2>1. client[c] \in Command /\ client[c].at = "connect" /\ lock' = lock
      BY <1>1, <1>4 DEF Connects, Boots, StartsDaemon, Unserved
    <2>2. client'[c].at \in {"connect", "sent"}
      <3>1. PICK r : /\ client' = [client EXCEPT ![c] = r]
                     /\ r \in {[client[c] EXCEPT !.at = "sent", !.to = socket], [client[c] EXCEPT !.verb = "boot"],
                              [client[c] EXCEPT !.spawned = TRUE]}
        BY <1>4 DEF Connects, Boots, StartsDaemon, Set
      <3>2. r.at \in {"connect", "sent"}
        BY <2>1, <3>1 DEF Command
      <3> QED
        BY <3>1, <3>2
    <2> QED
      BY <1>2, <2>1, <2>2
  <1>5. CASE GivesUp(c) \/ Handle(c)
    <2>1. client[c] \in Command /\ client[c].at # "ending" /\ lock' = lock
      BY <1>1, <1>5 DEF GivesUp, Handle, Unserved
    <2>2. PICK status \in {"gave up", "active", "inactive", "done"} : client' = [client EXCEPT ![c] = Answered(c, status)]
      BY <1>5 DEF GivesUp, Handle, Set
    <2>3. Answered(c, status).at = status
      BY <2>1 DEF Answered, Command
    <2>4. ~Ending(c) /\ ~Ending(c)'
      BY <2>1, <2>2, <2>3
    <2> QED
      BY <1>2, <2>1, <2>4
  <1>6. CASE Offline(c)
    <2>1. client[c] \in Command /\ client[c].at = "connect"
      BY <1>1, <1>6 DEF Offline, Unserved
    <2>2. \/ lock' = lock /\ client' = [client EXCEPT ![c] = Answered(c, "inactive")]
          \/ lock' = lock /\ client' = [client EXCEPT ![c] = Answered(c, "left to it")]
          \/ lock = None /\ lock' = c /\ client' = [client EXCEPT ![c] = [client[c] EXCEPT !.at = "ending"]]
      BY <1>6 DEF Offline, Set
    <2>3. /\ Answered(c, "inactive").at = "inactive" /\ Answered(c, "left to it").at = "left to it"
          /\ [client[c] EXCEPT !.at = "ending"].at = "ending" /\ [client[c] EXCEPT !.at = "ending"] \in Command
      BY <2>1 DEF Answered, Command, Answers
    <2> QED
      BY <1>2, <2>1, <2>2, <2>3
  <1>7. CASE EndsUnsupervised(c)
    <2>1. client[c] \in Command /\ Ending(c) /\ lock' = None
      BY <1>1, <1>7 DEF EndsUnsupervised
    <2>2. client'[c].at = "stopped"
      BY <1>7, <2>1 DEF EndsUnsupervised, Set, Answered, Command
    <2> QED
      BY <1>2, <2>1, <2>2
  <1> QED
    BY <1>3, <1>4, <1>5, <1>6, <1>7

\* The lock is had by one at a time, and the socket made and removed by who has it.
LEMMA LockNext == ASSUME Sane, TypeInv, LockInv, [Next]_vars PROVE LockInv'
  <1> USE DEF Sane, LockInv, Holding
  <1>1. CASE UNCHANGED vars
    BY <1>1 DEF vars, Ending
  <1>2. ASSUME NEW d \in Daemons,
               \/ Locks(d) \/ EndsOrphans(d) \/ Binds(d) \/ Stops(d) \/ Closes(d) \/ Unlinks(d) \/ Exits(d) \/ Dies(d)
        PROVE  LockInv'
    <2>1. ASSUME NEW c \in Clients PROVE Ending(c)' <=> Ending(c)
      <3>1. client[c] \in Command /\ client'[c] = [client[c] EXCEPT !.harmed = TRUE] => client'[c].at = client[c].at /\ client'[c] \in Command
        BY DEF Command
      <3>2. client[c] \in Command /\ client'[c] = [client[c] EXCEPT !.at = "cut", !.to = None] => client'[c].at = "cut"
        BY DEF Command
      <3>3. client[c] \in Command /\ client[c].to = d => ~Ending(c)
        BY DEF TypeInv, Ending
      <3> QED
        BY <1>2, <3>1, <3>2, <3>3, DaemonTells DEF Ending
    <2>2. /\ pc' \in [Daemons -> Steps \union {None}] /\ pc \in [Daemons -> Steps \union {None}]
          /\ lock \in Daemons \union Clients \union {None}
      BY TypeNext DEF TypeInv
    <2>3. CASE Locks(d)
      BY <2>1, <2>2, <2>3 DEF Locks, First, Step
    <2>4. CASE EndsOrphans(d) \/ Binds(d) \/ Stops(d)
      BY <2>1, <2>2, <2>4 DEF EndsOrphans, Binds, Stops, Step
    <2>5. CASE Closes(d) \/ Unlinks(d) \/ Exits(d)
      BY <2>1, <2>2, <2>5 DEF Closes, Unlinks, Exits, Step
    <2>6. CASE Dies(d)
      BY <2>1, <2>2, <2>6 DEF Dies, Lives, Step
    <2> QED
      BY <1>2, <2>3, <2>4, <2>5, <2>6
  <1>3. ASSUME NEW c \in Clients,
               \/ Ask(c) \/ Connects(c) \/ Boots(c) \/ StartsDaemon(c) \/ GivesUp(c) \/ Offline(c) \/ EndsUnsupervised(c)
               \/ Done(c) \/ Handle(c)
        PROVE  LockInv'
    <2>1. /\ socket' = socket
          /\ \A d \in Daemons : \/ pc'[d] = pc[d]
                                \/ pc[d] = None /\ pc'[d] = "begun"
                                \/ pc[d] = "serving" /\ pc'[d] = "stopping"
      <3> USE DEF TypeInv
      <3>1. CASE Ask(c) \/ Connects(c) \/ Boots(c) \/ GivesUp(c) \/ Offline(c) \/ EndsUnsupervised(c) \/ Done(c)
        BY <3>1 DEF Ask, Connects, Boots, GivesUp, Offline, EndsUnsupervised, Done
      <3>2. CASE StartsDaemon(c)
        BY <3>2 DEF StartsDaemon, Step
      <3>3. CASE Handle(c)
        BY <3>3 DEF Handle, Starts, Step
      <3> QED
        BY <1>3, <3>1, <3>2, <3>3
    <2>2. /\ \A e \in Clients \ {c} : client'[e] = client[e]
          /\ \/ lock' = lock /\ ~Ending(c) /\ ~Ending(c)'
             \/ lock = None /\ lock' = c /\ Ending(c)'
             \/ Ending(c) /\ lock' = None /\ ~Ending(c)'
      BY <1>3, EndingNext
    <2>3. \A e \in Clients \ {c} : Ending(e)' <=> Ending(e)
      BY <2>2 DEF Ending
    <2>4. \A e \in Clients : Ending(e)' <=> lock' = e
      BY <2>2, <2>3
    <2>5. \A d \in Daemons : lock' = d <=> lock = d
      BY <2>2
    <2>6. \A d \in Daemons : pc'[d] \in Holding <=> pc[d] \in Holding
      BY <2>1 DEF Steps
    <2>7. \A d \in Daemons : pc'[d] \in {"serving", "stopping", "quit", "closed"} => pc[d] \in {"serving", "stopping", "quit", "closed"}
      BY <2>1
    <2> QED
      BY <2>1, <2>4, <2>5, <2>6, <2>7
  <1> QED
    BY <1>1, <1>2, <1>3 DEF Next

-----------------------------------------------------------------------------
(* The units *)

\* What runs is started by the daemon that serves, and ended before the next does.
LEMMA RunsNext == ASSUME Sane, TypeInv, LockInv, RunsInv, [Next]_vars PROVE RunsInv'
  <1> USE DEF Sane, RunsInv, Serves, Steps
  <1>1. /\ pc \in [Daemons -> Steps \union {None}]
        /\ runs \in Daemons \union {None} /\ kills \in Nat /\ crossed \in BOOLEAN
        /\ lock \in Daemons \union Clients \union {None}
    BY DEF TypeInv
  <1>2. /\ \A d \in Daemons : pc[d] \in {"locked", "cleared", "serving", "stopping", "quit", "closed", "unlinked"} <=> lock = d
        /\ \A c \in Clients : Ending(c) => lock = c
    BY DEF LockInv, Holding
  <1>3. CASE UNCHANGED vars
    BY <1>3 DEF vars
  <1>4. ASSUME NEW d \in Daemons, Locks(d) \/ EndsOrphans(d) \/ Binds(d)
        PROVE  RunsInv'
    BY <1>1, <1>2, <1>4 DEF Locks, First, EndsOrphans, Cleared, Binds, Step
  <1>5. ASSUME NEW d \in Daemons, Stops(d) \/ Closes(d) \/ Unlinks(d) \/ Exits(d)
        PROVE  RunsInv'
    BY <1>1, <1>2, <1>5 DEF Stops, Closes, Unlinks, Exits, Step
  <1>6. ASSUME NEW d \in Daemons, Dies(d)
        PROVE  RunsInv'
    <2>1. /\ kills' = kills + 1 /\ pc' = [pc EXCEPT ![d] = "gone"] /\ runs' = runs
      BY <1>6 DEF Dies, Step
    <2>2. kills' # 0
      BY <1>1, <2>1
    <2> QED
      BY <1>1, <2>1, <2>2
  <1>7. ASSUME NEW c \in Clients, Ask(c) \/ Connects(c) \/ Boots(c) \/ GivesUp(c) \/ Offline(c) \/ Done(c)
        PROVE  RunsInv'
    BY <1>7 DEF Ask, Connects, Boots, GivesUp, Offline, Done
  <1>8. ASSUME NEW c \in Clients, StartsDaemon(c)
        PROVE  RunsInv'
    BY <1>1, <1>8 DEF StartsDaemon, Step
  <1>9. ASSUME NEW c \in Clients, EndsUnsupervised(c)
        PROVE  RunsInv'
    BY <1>1, <1>9 DEF EndsUnsupervised, Cleared
  <1>10. ASSUME NEW c \in Clients, Handle(c)
         PROVE  RunsInv'
    <2> DEFINE d == client[c].to
    <2>1. d \in Daemons /\ pc[d] \in {"serving", "stopping", "quit"} /\ kills' = kills
      BY <1>10 DEF Handle, TypeInv
    <2>2. \A e \in Daemons \ {d} : ~(pc[e] \in {"cleared", "serving", "stopping", "quit"})
      BY <1>2, <2>1
    <2>3. \/ Starts(d) /\ pc' = pc
          \/ runs' = None /\ pc' = pc
          \/ runs' = runs /\ crossed' = crossed /\ pc' = pc
          \/ runs' = runs /\ crossed' = crossed /\ pc[d] = "serving" /\ pc' = [pc EXCEPT ![d] = "stopping"]
      BY <1>10 DEF Handle, Step
    <2> HIDE DEF d
    <2>4. CASE Starts(d) /\ pc' = pc
      <3>1. runs' = d /\ (~crossed' => pc[d] = "serving")
        BY <2>4 DEF Starts
      <3> QED
        BY <1>1, <2>1, <2>2, <2>4, <3>1
    <2>5. CASE runs' = None /\ pc' = pc
      BY <2>5
    <2>6. CASE runs' = runs /\ crossed' = crossed /\ pc' = pc
      BY <2>1, <2>6
    <2>7. CASE runs' = runs /\ crossed' = crossed /\ pc[d] = "serving" /\ pc' = [pc EXCEPT ![d] = "stopping"]
      BY <1>1, <2>1, <2>2, <2>7
    <2> QED
      BY <2>3, <2>4, <2>5, <2>6, <2>7
  <1> QED
    BY <1>3, <1>4, <1>5, <1>6, <1>7, <1>8, <1>9, <1>10 DEF Next

-----------------------------------------------------------------------------
(* Who waits *)

\* A command that waits for the daemon it started waited before, or starts one now; one that
\* gave up had waited, with nobody left.
LEMMA Waiting ==
  ASSUME Sane, TypeInv, NEW c \in Clients,
         \/ Ask(c) \/ Connects(c) \/ Boots(c) \/ StartsDaemon(c) \/ GivesUp(c) \/ Offline(c) \/ EndsUnsupervised(c)
         \/ Done(c) \/ Handle(c)
  PROVE  /\ Waits(c)' /\ ~client'[c].harmed => (Waits(c) /\ ~client[c].harmed) \/ StartsDaemon(c)
         /\ client'[c] # None /\ client'[c].at = "gave up" /\ ~client'[c].harmed =>
              GivesUp(c) /\ Waits(c) /\ ~client[c].harmed
  <1> USE DEF Waits
  <1>1. client[c] # None => client[c] \in Command
    BY DEF TypeInv
  <1>2. CASE Done(c)
    BY <1>2 DEF Done, Set, TypeInv
  <1>3. CASE Ask(c)
    <2>1. PICK verb \in Verbs :
            client' = [client EXCEPT ![c] = [verb |-> verb, at |-> "connect", to |-> None, spawned |-> FALSE, harmed |-> FALSE]]
      BY <1>3 DEF Ask
    <2>2. client'[c] = [verb |-> verb, at |-> "connect", to |-> None, spawned |-> FALSE, harmed |-> FALSE]
      BY <2>1 DEF TypeInv
    <2>3. client'[c].at = "connect" /\ ~client'[c].spawned
      BY <2>2
    <2> QED
      BY <2>3
  <1>4. CASE Connects(c)
    <2>1. client[c] \in Command /\ client'[c] = [client[c] EXCEPT !.at = "sent", !.to = socket]
      BY <1>1, <1>4 DEF Connects, Set, TypeInv
    <2>2. client'[c].at = "sent"
      BY <2>1 DEF Command
    <2> QED
      BY <2>2
  <1>5. CASE Boots(c)
    <2>1. client[c] \in Command /\ client[c].at = "connect" /\ client'[c] = [client[c] EXCEPT !.verb = "boot"] /\ client[c] # None
      BY <1>1, <1>5 DEF Boots, Unserved, Set, TypeInv
    <2>2. client'[c].at = "connect"
      BY <2>1 DEF Command
    <2>3. client'[c].spawned = client[c].spawned
      BY <2>1 DEF Command
    <2>4. client'[c].harmed = client[c].harmed
      BY <2>1 DEF Command
    <2> QED
      BY <2>1, <2>2, <2>3, <2>4
  <1>6. CASE StartsDaemon(c)
    <2>1. client[c] \in Command /\ client[c].at = "connect" /\ client'[c] = [client[c] EXCEPT !.spawned = TRUE]
      BY <1>1, <1>6 DEF StartsDaemon, Unserved, Set, TypeInv
    <2>2. client'[c].at = "connect"
      BY <2>1 DEF Command
    <2> QED
      BY <1>6, <2>2
  <1>7. CASE Offline(c) /\ client'[c] = [client[c] EXCEPT !.at = "ending"]
    <2>1. client[c] \in Command
      BY <1>1, <1>7 DEF Offline, Unserved
    <2>2. client'[c].at = "ending"
      BY <1>7, <2>1 DEF Command
    <2> QED
      BY <2>2
  <1>8. CASE GivesUp(c)
    <2>1. /\ client[c] \in Command /\ client[c] # None /\ client[c].at = "connect" /\ client[c].spawned
          /\ client'[c] = [client[c] EXCEPT !.at = "gave up", !.to = None]
      BY <1>1, <1>8 DEF GivesUp, Unserved, Set, Answered, TypeInv
    <2>2. client'[c].at = "gave up"
      BY <2>1 DEF Command
    <2>3. client'[c].harmed = client[c].harmed
      BY <2>1 DEF Command
    <2> QED
      BY <1>8, <2>1, <2>2, <2>3
  <1>9. CASE \E status \in {"inactive", "left to it", "stopped", "active", "done"} :
               client[c] \in Command /\ client'[c] = Answered(c, status)
    <2>1. PICK status \in {"inactive", "left to it", "stopped", "active", "done"} :
            client[c] \in Command /\ client'[c] = Answered(c, status)
      BY <1>9
    <2>2. client'[c].at = status
      BY <2>1 DEF Answered, Command
    <2> QED
      BY <2>1, <2>2
  <1>10. Offline(c) \/ EndsUnsupervised(c) \/ Handle(c) =>
           \/ Offline(c) /\ client'[c] = [client[c] EXCEPT !.at = "ending"]
           \/ \E status \in {"inactive", "left to it", "stopped", "active", "done"} :
                client[c] \in Command /\ client'[c] = Answered(c, status)
    BY <1>1 DEF Offline, EndsUnsupervised, Handle, Unserved, Set, TypeInv
  <1> QED
    BY <1>2, <1>3, <1>4, <1>5, <1>6, <1>7, <1>8, <1>9, <1>10

\* A daemon that dies was killed.
LEMMA Killed == ASSUME TypeInv, NEW d \in Daemons, Dies(d) PROVE kills' # 0
  <1>1. kills \in Nat /\ kills' = kills + 1
    BY DEF Dies, TypeInv
  <1> QED
    BY <1>1

\* As long as no daemon was killed, who waits unharmed waits for one that lives.
LEMMA WaitNext == ASSUME Sane, TypeInv, LockInv, WaitInv, [Next]_vars PROVE WaitInv'
  <1> USE DEF WaitInv, GetsThrough, Sane
  <1>1. CASE UNCHANGED vars
    BY <1>1 DEF vars, Waits, Lives
  <1>2. ASSUME NEW d \in Daemons,
               \/ Locks(d) \/ EndsOrphans(d) \/ Binds(d) \/ Stops(d) \/ Closes(d) \/ Unlinks(d) \/ Exits(d) \/ Dies(d)
        PROVE  WaitInv'
    <2>1. CASE Dies(d)
      <3>1. kills' # 0
        BY <2>1, Killed
      <3> QED
        BY <3>1
    <2>2. CASE ~Dies(d)
      <3>1. kills' = kills
        BY <1>2, <2>2 DEF Locks, EndsOrphans, Binds, Stops, Closes, Unlinks, Exits
      <3>2. ASSUME NEW c \in Clients, client'[c] # None, ~client'[c].harmed, client'[c].at # "cut"
            PROVE  client'[c] = client[c]
        <4>1. client[c] \in Command /\ client'[c] = [client[c] EXCEPT !.harmed = TRUE] => client'[c].harmed
          BY DEF Command
        <4>2. client[c] \in Command /\ client'[c] = [client[c] EXCEPT !.at = "cut", !.to = None] => client'[c].at = "cut"
          BY DEF Command
        <4> QED
          BY <1>2, <3>2, <4>1, <4>2, DaemonTells
      <3>3. ASSUME NEW c \in Clients, Waits(c)', ~client'[c].harmed
            PROVE  client'[c] = client[c] /\ Waits(c) /\ ~client[c].harmed
        BY <3>2, <3>3 DEF Waits
      <3>4. ASSUME NEW c \in Clients, Waits(c), client'[c] = client[c], ~client[c].harmed
            PROVE  ~Exits(d) /\ (Locks(d) => lock \notin Clients)
        <4>1. client[c] \in Command /\ client[c].to \notin Daemons /\ [client[c] EXCEPT !.harmed = TRUE] # client[c]
          <5>1. client[c] \in Command /\ client[c].to \notin Daemons
            BY <3>4 DEF Waits, TypeInv
          <5>2. [client[c] EXCEPT !.harmed = TRUE].harmed
            BY <5>1 DEF Command
          <5> QED
            BY <3>4, <5>1, <5>2
        <4>2. Exits(d) => client'[c] = [client[c] EXCEPT !.harmed = TRUE]
          BY <3>4, <4>1 DEF Exits, CutOff
        <4>3. Locks(d) /\ lock \in Clients => client'[c] = [client[c] EXCEPT !.harmed = TRUE]
          BY <3>4 DEF Locks
        <4> QED
          BY <3>4, <4>1, <4>2, <4>3
      <3>5. ASSUME \E e \in Daemons : Lives(e), ~Exits(d), Locks(d) => lock \notin Clients
            PROVE  \E e \in Daemons : Lives(e)'
        <4>1. pc \in [Daemons -> Steps \union {None}] /\ lock \in Daemons \union Clients \union {None}
          BY DEF TypeInv
        <4>2. CASE EndsOrphans(d) \/ Binds(d) \/ Stops(d) \/ Closes(d) \/ Unlinks(d)
          BY <4>1, <4>2 DEF EndsOrphans, Binds, Stops, Closes, Unlinks, Lives, Step, Steps
        <4>3. CASE Locks(d) /\ lock = None
          BY <4>1, <4>3 DEF Locks, Lives, Step, Steps
        <4>4. CASE Locks(d) /\ lock # None
          <5>1. lock \in Daemons /\ pc[lock] \in Holding /\ pc[d] = "begun"
            BY <3>5, <4>1, <4>4 DEF LockInv, Locks
          <5>2. lock # d /\ pc'[lock] = pc[lock]
            BY <4>1, <4>4, <5>1 DEF Holding, Locks, Step
          <5> QED
            BY <5>1, <5>2 DEF Lives, Holding, Steps
        <4> QED
          BY <1>2, <2>2, <3>5, <4>2, <4>3, <4>4
      <3>6. ASSUME kills' = 0, NEW c \in Clients, Waits(c)', ~client'[c].harmed
            PROVE  \E e \in Daemons : Lives(e)'
        BY <3>1, <3>3, <3>4, <3>5, <3>6
      <3>7. ASSUME kills' = 0, NEW c \in Clients, client'[c] # None, client'[c].at = "gave up"
            PROVE  client'[c].harmed
        BY <3>1, <3>2, <3>7
      <3> QED
        BY <3>6, <3>7
    <2> QED
      BY <2>1, <2>2
  <1>3. ASSUME NEW c \in Clients,
               \/ Ask(c) \/ Connects(c) \/ Boots(c) \/ StartsDaemon(c) \/ GivesUp(c) \/ Offline(c) \/ EndsUnsupervised(c)
               \/ Done(c) \/ Handle(c)
        PROVE  WaitInv'
    <2>1. \A e \in Clients \ {c} : client'[e] = client[e]
      BY <1>3, EndingNext
    <2>2. kills' = kills
      BY <1>3 DEF Ask, Connects, Boots, StartsDaemon, GivesUp, Offline, EndsUnsupervised, Done, Handle
    <2>3. \A d \in Daemons : Lives(d) => Lives(d)'
      <3> USE DEF TypeInv, Lives, Steps
      <3>1. CASE Ask(c) \/ Connects(c) \/ Boots(c) \/ GivesUp(c) \/ Offline(c) \/ EndsUnsupervised(c) \/ Done(c)
        BY <3>1 DEF Ask, Connects, Boots, GivesUp, Offline, EndsUnsupervised, Done
      <3>2. CASE StartsDaemon(c)
        BY <3>2 DEF StartsDaemon, Step
      <3>3. CASE Handle(c)
        <4>1. \A d \in Daemons : pc'[d] = pc[d] \/ pc'[d] = "stopping"
          BY <3>3 DEF Handle, Starts, Step
        <4> QED
          BY <4>1
      <3> QED
        BY <1>3, <3>1, <3>2, <3>3
    <2>4. StartsDaemon(c) => \E d \in Daemons : Lives(d)'
      BY DEF StartsDaemon, Step, Lives, TypeInv, Steps
    <2>5. ASSUME kills' = 0, NEW e \in Clients, Waits(e)', ~client'[e].harmed
          PROVE  \E d \in Daemons : Lives(d)'
      <3>1. CASE e = c
        BY <1>3, <2>2, <2>3, <2>4, <2>5, <3>1, Waiting
      <3>2. CASE e # c
        <4>1. Waits(e) /\ ~client[e].harmed
          BY <2>1, <2>5, <3>2 DEF Waits
        <4> QED
          BY <2>2, <2>3, <2>5, <4>1
      <3> QED
        BY <3>1, <3>2
    <2>6. ASSUME kills' = 0, NEW e \in Clients, client'[e] # None, client'[e].at = "gave up"
          PROVE  client'[e].harmed
      <3>1. CASE e = c
        <4>1. GivesUp(c) => ~\E d \in Daemons : Lives(d)
          BY DEF GivesUp
        <4> QED
          BY <1>3, <2>2, <2>6, <3>1, <4>1, Waiting
      <3>2. CASE e # c
        BY <2>1, <2>2, <2>6, <3>2
      <3> QED
        BY <3>1, <3>2
    <2> QED
      BY <2>5, <2>6
  <1> QED
    BY <1>1, <1>2, <1>3 DEF Next

-----------------------------------------------------------------------------
(* The daemon *)

\* The four together say what a client counts on.
LEMMA DaemonSafe == ASSUME Sane, DaemonInv PROVE DaemonHolds
  <1> USE DEF DaemonInv, Sane
  <1>1. SocketIsServers
    BY DEF SocketIsServers, LockInv, Holding
  <1>2. NoneUnsupervised
    <2>1. runs # None /\ ~Lives(runs) => kills > 0 \/ crossed
      BY DEF RunsInv, Lives, TypeInv, Steps
    <2> QED
      BY <2>1 DEF NoneUnsupervised, RunsInv
  <1>3. StoppedIsOff
    BY DEF StoppedIsOff, LockInv, Holding, Ending, Serves
  <1>4. GetsThrough
    BY DEF WaitInv
  <1> QED
    BY <1>1, <1>2, <1>3, <1>4 DEF DaemonHolds

\* Whoever is started, killed and asked: the path is the socket of the one daemon that serves, units
\* run under it alone, a stop without a daemon leaves none, and a command that starts the daemon gets
\* through to one unless a daemon left or was killed meanwhile (serve, request and offline).
THEOREM DaemonKept == ASSUME Sane PROVE Spec => []DaemonHolds
  <1>1. Init => DaemonInv
    <2> USE DEF Init, Sane
    <2>1. Init => TypeInv
      <3>1. Init => booted \in BOOLEAN /\ crossed \in BOOLEAN
        OBVIOUS
      <3>2. Init => /\ pc \in [Daemons -> Steps \union {None}]
                    /\ lock \in Daemons \union Clients \union {None}
                    /\ socket \in Daemons \union {None} /\ runs \in Daemons \union {None}
                    /\ kills \in Nat
        OBVIOUS
      <3>3. Init => client \in [Clients -> Command \union {None}] /\ \A c \in Clients : client[c] = None
        OBVIOUS
      <3> QED
        BY <3>1, <3>2, <3>3 DEF TypeInv
    <2>2. Init => LockInv
      BY DEF LockInv, Ending, Holding, Steps
    <2>3. Init => RunsInv
      BY DEF RunsInv, Serves, Steps
    <2>4. Init => WaitInv
      BY DEF WaitInv, GetsThrough, Waits
    <2> QED
      BY <2>1, <2>2, <2>3, <2>4 DEF DaemonInv
  <1>2. DaemonInv /\ [Next]_vars => DaemonInv'
    BY TypeNext, LockNext, RunsNext, WaitNext DEF DaemonInv
  <1>3. DaemonInv => DaemonHolds
    BY DaemonSafe
  <1> QED
    BY <1>1, <1>2, <1>3, PTL DEF Spec
=============================================================================
