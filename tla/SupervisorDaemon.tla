--------------------------- MODULE SupervisorDaemon ---------------------------
(***************************************************************************)
(* The process supervisor as its clients meet it                           *)
(* (src/pkgs/proxy-ctl/proxy_supervisor.py): a command connects to the     *)
(* daemon's socket, starts the daemon if it is one that may and there is   *)
(* none, and waits for its answer.  Of the units, `runs` says which daemon *)
(* started them; SupervisorGroups has how the next one finds them, and     *)
(* SupervisorDeps what a request does to each.                             *)
(***************************************************************************)
EXTENDS Naturals, FiniteSets

CONSTANTS
  Clients,
  Daemons,   \* processes that may be started, one after another
  Verbs,     \* what clients ask
  MaxAsks, MaxKills,
  None

VARIABLES
  pc,       \* [Daemons -> None, where serve() is, or "gone"]
  lock,     \* who has the daemon lock: a daemon, a client, or None
  socket,   \* the daemon whose socket the path is, or None; it may be gone
  booted,   \* Supervisor.booted, of the one that serves
  runs,     \* the daemon that started the units, or None
  client,   \* [Clients -> None or its command]
  asks, kills,
  crossed   \* a unit was started while its daemon shut down

vars == <<pc, lock, socket, booted, runs, client, asks, kills, crossed>>

Serves(d)  == pc[d] \in {"serving", "stopping", "quit"}
Lives(d)   == pc[d] \notin {None, "gone"}
Step(d, p) == pc' = [pc EXCEPT ![d] = p]

-----------------------------------------------------------------------------
(* serve()                                                                  *)

\* Mutant: the socket goes before the lock is tried.
First_unlink(d) == socket' = None
First(d) == UNCHANGED socket

\* One that finds the lock taken leaves at once: if who has it is no daemon, the
\* clients that wait do so in vain.
Waits(c) == client[c] # None /\ client[c].at = "connect" /\ client[c].spawned
Locks(d) ==
  /\ pc[d] = "begun"
  /\ First(d)
  /\ IF lock = None THEN lock' = d /\ Step(d, "locked") /\ UNCHANGED client
     ELSE /\ UNCHANGED lock /\ Step(d, "gone")
          /\ client' = [c \in Clients |-> IF Waits(c) /\ lock \in Clients
                                          THEN [client[c] EXCEPT !.harmed = TRUE] ELSE client[c]]
  /\ UNCHANGED <<booted, runs, asks, kills, crossed>>

\* Mutant: what a killed daemon left running stays.
Cleared_not(r) == r
\* end_orphans and clear_credentials.
Cleared(r) == None

EndsOrphans(d) ==
  /\ pc[d] = "locked"
  /\ Step(d, "cleared") /\ runs' = Cleared(runs)
  /\ UNCHANGED <<lock, socket, booted, client, asks, kills, crossed>>

Binds(d) ==
  /\ pc[d] = "cleared"
  /\ Step(d, "serving") /\ socket' = d /\ booted' = FALSE
  /\ UNCHANGED <<lock, runs, client, asks, kills, crossed>>

\* shutdown(), in a thread of its own: every unit, then quit.
Stops(d) ==
  /\ pc[d] = "stopping"
  /\ Step(d, "quit") /\ runs' = None
  /\ UNCHANGED <<lock, socket, booted, client, asks, kills, crossed>>

\* The loop ends, and the server; requests that come or are under way get no answer.
Closes(d) ==
  /\ pc[d] = "quit"
  /\ Step(d, "closed")
  /\ UNCHANGED <<lock, socket, booted, runs, client, asks, kills, crossed>>

Unlinks(d) ==
  /\ pc[d] = "closed"
  /\ Step(d, "unlinked") /\ socket' = None
  /\ UNCHANGED <<lock, booted, runs, client, asks, kills, crossed>>

\* Whoever's connection it had is cut off.  Who started a daemon starts no other.
CutOff(d) == [c \in Clients |-> IF client[c] # None /\ client[c].to = d THEN [client[c] EXCEPT !.at = "cut", !.to = None]
                               ELSE IF Waits(c) THEN [client[c] EXCEPT !.harmed = TRUE] ELSE client[c]]

Exits(d) ==
  /\ pc[d] = "unlinked"
  /\ Step(d, "gone") /\ lock' = None /\ client' = CutOff(d)
  /\ UNCHANGED <<socket, booted, runs, asks, kills, crossed>>

\* Its units run on, and the socket's file stays.
Dies(d) ==
  /\ Lives(d) /\ kills < MaxKills
  /\ kills' = kills + 1
  /\ Step(d, "gone") /\ client' = CutOff(d)
  /\ lock' = IF lock = d THEN None ELSE lock
  /\ UNCHANGED <<socket, booted, runs, asks, crossed>>

-----------------------------------------------------------------------------
(* A command: systemctl_main and request                                    *)

Spawns(verb) == verb \in {"start", "boot"}

\* harmed: meanwhile a daemon shut down, or its own found the lock taken by a stop without a daemon.
Ask(c) ==
  /\ client[c] = None /\ asks < MaxAsks
  /\ \E verb \in Verbs :
       client' = [client EXCEPT ![c] = [verb |-> verb, at |-> "connect", to |-> None, spawned |-> FALSE, harmed |-> FALSE]]
  /\ asks' = asks + 1
  /\ UNCHANGED <<pc, lock, socket, booted, runs, kills, crossed>>

Set(c, changes) == client' = [client EXCEPT ![c] = changes]
Answered(c, status) == [client[c] EXCEPT !.at = status, !.to = None]
Listens == socket # None /\ pc[socket] \in {"serving", "stopping", "quit", "closed"}

Connects(c) ==
  /\ client[c] # None /\ client[c].at = "connect" /\ Listens
  /\ Set(c, [client[c] EXCEPT !.at = "sent", !.to = socket])
  /\ UNCHANGED <<pc, lock, socket, booted, runs, asks, kills, crossed>>

\* `ensure` pings first, and boots if there is no daemon.
Unserved(c) == client[c] # None /\ client[c].at = "connect" /\ ~Listens
Boots(c) ==
  /\ Unserved(c) /\ client[c].verb = "ensure"
  /\ Set(c, [client[c] EXCEPT !.verb = "boot"])
  /\ UNCHANGED <<pc, lock, socket, booted, runs, asks, kills, crossed>>

\* start_daemon, at the first attempt alone.
StartsDaemon(c) ==
  /\ Unserved(c) /\ Spawns(client[c].verb) /\ ~client[c].spawned
  /\ \E d \in Daemons : /\ pc[d] = None
                        /\ \A e \in Daemons : e < d => pc[e] # None
                        /\ Step(d, "begun")
  /\ Set(c, [client[c] EXCEPT !.spawned = TRUE])
  /\ UNCHANGED <<lock, socket, booted, runs, asks, kills, crossed>>

\* After 100 of them; nobody is on the way to serve it.
GivesUp(c) ==
  /\ Unserved(c) /\ client[c].spawned /\ ~\E d \in Daemons : Lives(d)
  /\ Set(c, Answered(c, "gave up"))
  /\ UNCHANGED <<pc, lock, socket, booted, runs, asks, kills, crossed>>

\* offline: a stop ends what a killed daemon left, if no daemon is starting.
Offline(c) ==
  /\ Unserved(c) /\ client[c].verb \in {"stop", "shutdown", "is-active"}
  /\ IF client[c].verb = "is-active" THEN Set(c, Answered(c, "inactive")) /\ UNCHANGED lock
     ELSE IF lock = None THEN lock' = c /\ Set(c, [client[c] EXCEPT !.at = "ending"])
     ELSE UNCHANGED lock /\ Set(c, Answered(c, "left to it"))
  /\ UNCHANGED <<pc, socket, booted, runs, asks, kills, crossed>>

EndsUnsupervised(c) ==
  /\ client[c] # None /\ client[c].at = "ending"
  /\ runs' = Cleared(runs) /\ lock' = None /\ Set(c, Answered(c, "stopped"))
  /\ UNCHANGED <<pc, socket, booted, asks, kills, crossed>>

Done(c) ==
  /\ client[c] # None /\ client[c].at \in {"done", "active", "inactive", "stopped", "left to it", "gave up", "cut"}
  /\ Set(c, None)
  /\ UNCHANGED <<pc, lock, socket, booted, runs, asks, kills, crossed>>

-----------------------------------------------------------------------------
\* handle(), each request in a thread of its own.
Starts(d) == runs' = d /\ crossed' = (crossed \/ pc[d] # "serving")

Handle(c) ==
  LET d == client[c].to
      verb == client[c].verb
  IN  /\ client[c] # None /\ client[c].at = "sent" /\ Serves(d)
      /\ Set(c, Answered(c, IF verb = "is-active" THEN IF runs = d THEN "active" ELSE "inactive" ELSE "done"))
      /\ CASE verb = "start" -> Starts(d) /\ UNCHANGED <<pc, booted>>
           [] verb = "boot" -> /\ IF booted THEN UNCHANGED <<runs, crossed>> ELSE Starts(d)
                               /\ booted' = TRUE /\ UNCHANGED pc
           [] verb = "stop" -> runs' = None /\ UNCHANGED <<pc, booted, crossed>>
           [] verb = "shutdown" -> (IF pc[d] = "serving" THEN Step(d, "stopping") ELSE UNCHANGED pc) /\ UNCHANGED <<booted, runs, crossed>>
           [] OTHER -> UNCHANGED <<pc, booted, runs, crossed>>
  /\ UNCHANGED <<lock, socket, asks, kills>>

-----------------------------------------------------------------------------
Init ==
  /\ pc = [d \in Daemons |-> None] /\ lock = None /\ socket = None /\ booted = FALSE /\ runs = None
  /\ client = [c \in Clients |-> None] /\ asks = 0 /\ kills = 0 /\ crossed = FALSE

Next ==
  \/ \E d \in Daemons : Locks(d) \/ EndsOrphans(d) \/ Binds(d) \/ Stops(d) \/ Closes(d) \/ Unlinks(d) \/ Exits(d) \/ Dies(d)
  \/ \E c \in Clients : Ask(c) \/ Connects(c) \/ Boots(c) \/ StartsDaemon(c) \/ GivesUp(c) \/ Offline(c)
                        \/ EndsUnsupervised(c) \/ Done(c) \/ Handle(c)

Spec == Init /\ [][Next]_vars

-----------------------------------------------------------------------------
\* The path is the socket of the daemon that serves, whoever else was started with
\* it or is only just leaving, and only one does (serve, proxy_supervisor.py:1343).
SocketIsServers == \A d \in Daemons : pc[d] \in {"serving", "stopping", "quit", "closed"} => socket = d /\ lock = d

\* Units run only under the daemon that serves: none of a daemon that was killed, and
\* none after one that shut down, unless one was started as it did (shutdown, :1174).
NoneUnsupervised ==
  /\ \A d \in Daemons : Serves(d) => runs \in {None, d}
  /\ runs # None /\ ~Lives(runs) => kills > 0 \/ crossed

\* `stop` and `shutdown` without a daemon leave nothing running (offline, :1501).
StoppedIsOff == \A c \in Clients : client[c] # None /\ client[c].at = "ending" => lock = c /\ ~\E d \in Daemons : Serves(d)

\* A command that may start the daemon gets through to one, however many are started at
\* once, unless one shuts down or is killed meanwhile, or a stop has the lock (request, :1407).
GetsThrough == kills = 0 => \A c \in Clients : client[c] # None /\ client[c].at = "gave up" => client[c].harmed

DaemonHolds == SocketIsServers /\ NoneUnsupervised /\ StoppedIsOff /\ GetsThrough
=============================================================================
