------------------------------- MODULE MCParts -------------------------------
(***************************************************************************)
(* Small instances of the parts that do not interact with one another: a   *)
(* behaviour is one of one part, and the others' variables stay Off.  In   *)
(* those that compute one side from the other an input is one thing to     *)
(* compute, and there are no steps but those of "peers".  In the parts of  *)
(* proxy-ctl and of the daemons x1, ..., x10 are that part's variables, in *)
(* the order of its own module, and Off if it has fewer.                   *)
(***************************************************************************)
EXTENDS Integers, Sequences, FiniteSets, TLC
LOCAL INSTANCE FiniteSetsExt

CONSTANTS Null, Bad, Off, p1, p2, c1, c2

Symmetry == Permutations({p1, p2}) \union Permutations({c1, c2})

VARIABLES
  part, x1, x2, x3, x4, x5, x6, x7, x8, x9, x10,
  input, \* what is rendered, parsed or computed, in the parts that have no steps
  gProcs, gHeld, gLeaving, gFile, gDaemon, gOnly, gEnded, gBorn, gDeaths, gFaults, \* SupervisorGroups
  dTopo, dState, dCancel, dEver, dJob, dTodo, dRet, dStarted, dStopped, dTimers, dLost, dPopped,
  dQuit, dCalls, dExits, dAsked, dOthers, dHurt,                          \* SupervisorDeps
  sFiles, sLock, sCmd, sCmds, sKills, sGone, sTorn                        \* InboundSpool

xvars == <<x1, x2, x3, x4, x5, x6, x7, x8, x9, x10>>
gvars == <<gProcs, gHeld, gLeaving, gFile, gDaemon, gOnly, gEnded, gBorn, gDeaths, gFaults>>
dvars == <<dTopo, dState, dCancel, dEver, dJob, dTodo, dRet, dStarted, dStopped, dTimers, dLost, dPopped,
           dQuit, dCalls, dExits, dAsked, dOthers, dHurt>>
svars == <<sFiles, sLock, sCmd, sCmds, sKills, sGone, sTorn>>

From8Off == x8 = Off /\ x9 = Off /\ x10 = Off
From4Off == x4 = Off /\ x5 = Off /\ x6 = Off /\ x7 = Off /\ From8Off
AllOff   == x1 = Off /\ x2 = Off /\ x3 = Off /\ From4Off

-----------------------------------------------------------------------------
\* g2 contains g1; "a" and "b" fail over first.
Failover(members) == [strategy |-> "failover", failback |-> TRUE, interval |-> 1, members |-> members, pinned |-> Null]
Nested == [groups |-> [g1 |-> Failover(<<"a", "b">>), g2 |-> Failover(<<"g1", "block", "c">>)],
           selection |-> "urltest", top |-> <<"g2", "a">>, excluded |-> {}, disabled |-> {}, pinned |-> Null]
Sticky == [Nested EXCEPT !.groups["g2"].failback = FALSE, !.disabled = {"a"}, !.selection = "failover",
                         !.excluded = {"b"}, !.top = <<"b", "a", "g2", "c">>]
\* In g1 only a hint leads to a test, as the backend tests its members itself.
Pinned == [Nested EXCEPT !.groups["g1"] = [Failover(<<"b">>) EXCEPT !.strategy = "urltest"], !.groups["g2"].pinned = "c"]

W == INSTANCE CtlGroupWatch WITH Outbounds <- {"a", "b", "c"}, Watchdogs <- {"b"},
       Inventories <- {Nested, Sticky, Pinned, Null}, MissesDown <- 2, PassesUp <- 3,
       MaxChanges <- 2, MaxHints <- 1, Calm <- 5, None <- Null,
       real <- x1, pass <- x2, health <- x3, due <- x4, seen <- x5, changes <- x6, hinted <- x7,
       calm <- x8, heard <- x9

\* Left undisturbed, the watcher brings each failover group that is not pinned
\* to the first of its members that works, or without failback to one that
\* does, whatever it went through before and whichever group is in another; and
\* every hint of a member leads to a test of it (GroupWatch, proxy_ctl.py:2539).
FailoverSettles == part = "watch" => W!FailoverSettles /\ W!HintsHeard

-----------------------------------------------------------------------------
F == INSTANCE CtlGroupFiles WITH
       Procs <- {p1, p2}, Number <- 5, Tags <- {"a", "b"}, MaxCmds <- 4, MaxKills <- 1, Refused <- Bad, None <- Null,
       Requests <- {<<"add", <<"a">>>>, <<"rm">>, <<"strategy", "selector">>, <<"members add", <<"b">>>>,
                    <<"members set", <<"b", "a">>>>, <<"members rm", <<"a">>>>,
                    <<"priority", "a", "down">>, <<"priority", "b", "number">>, <<"priority", "b", "clear">>},
       group <- x1, priority <- x2, top <- x3, lockfile <- x4, inodes <- x5, held <- x6, proc <- x7,
       cmds <- x8, kills <- x9, owed <- x10

\* "So two proxy-ctl don't drop each other's change", and `groups rm` is final:
\* the files hold every change that was written, each made to what the one
\* before it left (_file_lock, proxy_ctl.py:447).
NoneLost == part = "files" => F!NoneLost

-----------------------------------------------------------------------------
E == INSTANCE CtlEntries WITH
       Procs <- {p1, p2}, Declared <- {"de"}, Names <- <<"t", "u">>, Slots <- 1..2, MaxCmds <- 3, MaxKills <- 1, None <- Null,
       Sources <- {[kind |-> "url", hop |-> Null, tweaks |-> "mux"], [kind |-> "url", hop |-> "de", tweaks |-> Null],
                   [kind |-> "port", hop |-> Null, tweaks |-> Null], [kind |-> "iface", hop |-> Null, tweaks |-> Null]},
       dir <- x1, inv <- x2, lock <- x3, proc <- x4, cmds <- x5, kills <- x6, adds <- x7

\* An outbound that the backend could find in the spool at any moment dials as
\* its own `add` said: through its hop, with its tweaks, never without them and
\* never with those an earlier one of its name left; and each AmneziaWG outbound
\* has a port, or a slot, that no other has (_runtime_entry_add, proxy_ctl.py:3243).
EntriesWhole == part = "entries" => E!EntriesWhole

-----------------------------------------------------------------------------
RuleRanks == [a |-> 1, b |-> 2, hb |-> 3, hd |-> 4]
R == INSTANCE CtlRules WITH
       Names <- {"a", "b"}, Rank <- RuleRanks, Targets <- {"direct"}, Matches <- {"m1", "m2"},
       Sections <- <<[id |-> "block", priority |-> 100], [id |-> "direct", priority |-> 102], [id |-> "proxy", priority |-> 102]>>,
       Default <- 50, Limit <- 1000, MaxEdits <- 3,
       Profiles <- {[name |-> "h", order |-> <<"direct", "block">>, lists |-> [block |-> <<"m1">>, direct |-> <<"m1", "m2">>]]},
       Happ <- (<<"h", "block">> :> "hb" @@ <<"h", "direct">> :> "hd"),
       rules <- x1, here <- x2, edits <- x3

\* "Moves a rule one row up or down in the match order", past a rule or a section
\* of the configuration and no further: every other row stays where it was, and a
\* rule that has reached the end, or for which there is no room, stays
\* (_rules_move, proxy_ctl.py:4214).
MovesOneRow == part = "rules" => R!MovesOneRow

-----------------------------------------------------------------------------
B == INSTANCE FrontGui WITH Units <- {"svc", "sub"}, Events <- {"sub"}, StaleUnknown <- 2, None <- Null,
       Bounds <- {[changes |-> 2, asks |-> 1, runs |-> 0], [changes |-> 0, asks |-> 1, runs |-> 1],
                   [changes |-> 0, asks |-> 2, runs |-> 0]},
       sys <- x1, win <- x2, elevated <- x3, main <- x4, flags <- x5, marks <- x6, rootReads <- x7,
       load <- x8, runs <- x9, hist <- x10

T == INSTANCE FrontTui WITH Tabs <- {"s", "t"}, First <- "s", MaxLoads <- 2, None <- Null,
       Bounds <- {[changes |-> 2, asks |-> 3, runs |-> 0], [changes |-> 0, asks |-> 2, runs |-> 1]},
       sys <- x1, memo <- x2, loads <- x3, ui <- x4, runs <- x5, left <- x6, alone <- x7

\* Whatever runs beside a load: once the GUI is idle its tab shows what the last
\* command left, F5 past every memo, and each failure of a unit is told, also
\* to a window that was closed; and the TUI's next refresh mends what loads that
\* overtook each other left (proxy_gui.py:1600, proxy_tui.py:844).
FrontsKeepUp ==
  /\ part = "gui" => B!WhatRanIsShown /\ B!FreshIsFresh /\ B!FailuresAreTold
  /\ part = "tui" => T!TickRepairs

-----------------------------------------------------------------------------
\* The uplink goes down or the exits change under a run that a kill may end, and
\* requests and edits come in before, between and during runs.
Full    == {"full"}
Asking  == {"learn"}
Bound(cmds, runs, kills, turns, modes) ==
  [all |-> cmds, cmds |-> cmds, runs |-> runs, kills |-> kills, turns |-> turns, modes |-> modes]
SiteOf  == [a1 |-> "A", a2 |-> "A", x1 |-> "X"]

Y == INSTANCE AutoProxy WITH Hosts <- {"a1", "a2", "x1"}, Domains <- {"A", "X"}, DomainOf <- SiteOf, Excluded <- {"X"},
       Exits <- {"e1", "e2"}, PerRun <- 1, None <- Null,
       Budgets <- {Bound(1, 2, 1, 0, Asking), Bound(2, 1, 1, 0, Asking), Bound(1, 2, 0, 1, Asking),
                   Bound(0, 2, 1, 1, Full), Bound(1, 1, 0, 1, Full)},
       spool <- x1, half <- x2, st <- x3, rules <- x4, run <- x5, world <- x6, ends <- x7, stale <- x8, left <- x9

-----------------------------------------------------------------------------
H == INSTANCE AppSlices WITH Procs <- {p1, p2}, Budget <- [runs |-> 5, faults |-> 2], None <- Null,
       run <- x1, shares <- x2, alone <- x3, app <- x4, strays <- x5, anchor <- x6, slice <- x7, mark <- x8,
       left <- x9, late <- x10

-----------------------------------------------------------------------------
K == INSTANCE ZapretLists WITH Procs <- {p1, p2}, Sites <- {<<"a">>, <<"www", "a">>}, None <- Null,
       Budgets <- {[cmds |-> 2, lines |-> 1, kills |-> 1], [cmds |-> 1, lines |-> 2, kills |-> 1]},
       file <- x1, mem <- x2, flush <- x3, lock <- x4, held <- x5, proc <- x6, left <- x7, wrote <- x8, gone <- x9, crossed <- x10

-----------------------------------------------------------------------------
CtlInit ==
  \/ part = "watch" /\ W!Init /\ x10 = Off
  \/ part = "files" /\ F!Init
  \/ part = "entries" /\ E!Init /\ From8Off
  \/ part = "rules" /\ R!Init /\ From4Off
  \/ part = "gui" /\ B!Init
  \/ part = "tui" /\ T!Init /\ From8Off
  \/ part = "auto" /\ Y!Init /\ x10 = Off
  \/ part = "slices" /\ H!Init
  \/ part = "zapret" /\ K!Init

CtlNext ==
  \/ part = "watch" /\ W!Next /\ UNCHANGED x10
  \/ part = "files" /\ F!Next
  \/ part = "entries" /\ E!Next /\ UNCHANGED <<x8, x9, x10>>
  \/ part = "rules" /\ R!Next /\ UNCHANGED <<x4, x5, x6, x7, x8, x9, x10>>
  \/ part = "gui" /\ B!Next
  \/ part = "tui" /\ T!Next /\ UNCHANGED <<x8, x9, x10>>
  \/ part = "auto" /\ Y!Next /\ UNCHANGED x10
  \/ part = "slices" /\ H!Next
  \/ part = "zapret" /\ K!Next

-----------------------------------------------------------------------------
(* The daemons *)

\* One address as nft prints it and as XRay does, one of another family, and one that is none.
AddressSpelt == "six" :> "six" @@ "[six]" :> "six" @@ "four" :> "four" @@ "name" :> Null

NL == INSTANCE NetLimits WITH Users <- {"ann", "bob"}, Slots <- 1, Speeds <- {<<0, 0>>, <<8, 0>>, <<7, 24>>}, Offsets <- {0, 1},
        Spellings <- {"six", "[six]", "four", "name"}, AddressOf <- AddressSpelt, Ports <- {1, 2},
        Budgets <- {[requests |-> 2, flushes |-> 1, faults |-> 1, bans |-> 0, unbans |-> 0],
                     [requests |-> 0, flushes |-> 1, faults |-> 1, bans |-> 2, unbans |-> 2]}, None <- Null,
        want <- x1, table <- x2, installed <- x3, at <- x4, job <- x5, un <- x6, left <- x7, clean <- x8, lifted <- x9

SD == INSTANCE SupervisorDaemon WITH Clients <- {11, 12}, Daemons <- 1..3, Verbs <- {"start", "ensure", "stop", "shutdown", "is-active"},
        MaxAsks <- 3, MaxKills <- 1, None <- Null,
        pc <- x1, lock <- x2, socket <- x3, booted <- x4, runs <- x5, client <- x6, asks <- x7, kills <- x8, crossed <- x9

J == INSTANCE SupervisorLog WITH Limit <- 1, MaxLines <- 7, Counts <- {0, 1, 3, Null}, Sinces <- {2, Null}, None <- Null,
       lines <- x1, file <- x2, before <- x3, reader <- x4, printed <- x5, owed <- x6, turned <- x7, again <- x8

\* As autoproxy.nix's, one from boot, one that stays active; and path units, with the start limit and without.
Periodic == [onActive |-> 2, onBoot |-> Null, onUnit |-> 3, jitter |-> 1, remain |-> FALSE, watch |-> FALSE,
             burst |-> 0, window |-> 0, changes |-> 0, starts |-> 1]
Watching == [Periodic EXCEPT !.onActive = Null, !.onUnit = Null, !.jitter = 0, !.watch = TRUE, !.changes = 3]
TI == INSTANCE SupervisorTimers WITH MaxTime <- 7, MaxRun <- 4, None <- Null,
        Confs <- {Periodic, [Periodic EXCEPT !.onActive = Null, !.onBoot = 4, !.remain = TRUE], [Periodic EXCEPT !.onActive = 4, !.onUnit = 1],
                  Watching, [Watching EXCEPT !.burst = 1, !.window = 3]},
        conf <- x1, clock <- x2, timer <- x3, unit <- x4, threads <- x5, file <- x6, seen <- x7, run <- x8, count <- x9

CL == INSTANCE ConnLog WITH Ids <- {1}, Stall <- 2, MaxTime <- 7, MaxBytes <- 3, MaxOutages <- 1, None <- Null,
        now <- x1, conns <- x2, used <- x3, live <- x4, looked <- x5, outages <- x6, blind <- x7

CB == INSTANCE CtlBroker WITH Tags <- {"a", "b"}, First <- "a", Strangers <- {"guest"}, Slots <- 2, Queue <- 2, None <- Null,
        Members <- {[kind |-> "select", scopes |-> {"secrets"}]},
        api <- x1, selected <- x2, queue <- x3, free <- x4, threads <- x5, call <- x6, cell <- x7, unjust <- x8, late <- x9, undone <- x10

\* A server with one user or with both, "here" or "there", of these users' declared.
Serves(whose, users, declared, key, keyIs, slots, bad, version) ==
  [declared |-> declared, keyIs |-> keyIs, bad |-> bad, key |-> key, slots |-> slots,
   users    |-> [u \in {"ann", "bob"} |-> IF u \in users \ declared THEN whose ELSE Null],
   policies |-> [u \in {"ann", "bob"} |-> IF u \in users THEN whose ELSE Null],
   salts    |-> [u \in {"ann", "bob"} |-> IF u \in users THEN whose ELSE Null],
   stats    |-> [u \in {"ann", "bob"} |-> IF u \in users THEN whose ELSE Null],
   awg |-> IF users = {} THEN Null
           ELSE [version |-> version, server |-> whose,
                 users |-> [u \in {"ann", "bob"} |-> IF u \notin users THEN Null
                              ELSE [offset |-> IF u = "bob" /\ users # {"bob"} THEN 3 ELSE 2, key |-> whose]]]]

IB == INSTANCE InboundBundle WITH Names <- <<"ann", "bob">>, Slots <- 1, End <- 5, Version <- 2, MaxImports <- 3, MaxStarts <- 2, None <- Null,
        Servers <- {Serves("here", {}, {}, Null, "generated", {}, {}, 2), Serves("here", {}, {}, Null, "none", {}, {}, 2),
                    Serves("here", {"bob"}, {}, "here", "generated", {}, {}, 2), Serves("here", {"bob"}, {}, "here", "generated", {"bob"}, {}, 2),
                    Serves("here", {"ann"}, {}, "here", "generated", {"ann"}, {}, 2), Serves("here", {"bob"}, {"bob"}, "here", "file", {}, {}, 2),
                    Serves("here", {"ann", "bob"}, {"ann"}, Null, "generated", {}, {}, 2)},
        Bundles <- {Serves("there", {"ann"}, {}, "there", "generated", {"ann"}, {}, 2), Serves("there", {"ann", "bob"}, {}, "there", "generated", {}, {}, 2),
                    Serves("there", {"ann", "bob"}, {"bob"}, "there", "file", {"bob"}, {"policies"}, 2), Serves("there", {"bob"}, {}, Null, "generated", {}, {"salts"}, 2),
                    Serves("there", {"bob"}, {}, "there", "generated", {"bob"}, {}, 1), Serves("there", {"bob"}, {}, "there", "generated", {}, {}, 2)},
        here <- x1, bundle <- x2, replace <- x3, pc <- x4, got <- x5, skipped <- x6, old <- x7, result <- x8, replaced <- x9, counts <- x10

CacheBound(settings, answers, starts, updates, kills) ==
  [settings |-> settings, answers |-> answers, starts |-> starts, updates |-> updates, kills |-> kills]
SB == INSTANCE SubCache WITH Starters <- {"socks", "tun"}, Watched <- "socks", Updater <- "update", Contents <- {"x", "y"},
        Servers <- {<<"x", "y", "y">>}, None <- Null, Down <- Bad,
        Budgets <- {CacheBound(1, 0, 2, 0, 1), CacheBound(0, 1, 1, 1, 1), CacheBound(1, 1, 1, 1, 0)},
        asked <- x1, server <- x2, said <- x3, file <- x4, proc <- x5, runs <- x6, since <- x7, left <- x8, torn <- x9, behind <- x10

\* What is shown keeps up with what is: the front ends' screens, and a follower of a log or
\* of the connections.
ScreensKeepUp == FrontsKeepUp /\ (part = "log" => J!LogHolds) /\ (part = "conns" => CL!ConnLogHolds)

-----------------------------------------------------------------------------
DaemonInit ==
  \/ part = "limits" /\ NL!Init /\ x10 = Off
  \/ part = "daemon" /\ SD!Init /\ x10 = Off
  \/ part = "conns" /\ CL!Init /\ From8Off
  \/ part = "timers" /\ TI!Init /\ x10 = Off
  \/ part = "bundle" /\ IB!Init
  \/ part = "cache" /\ SB!Init
  \/ part = "broker" /\ CB!Init
  \/ part = "log" /\ J!Init /\ x9 = Off /\ x10 = Off

DaemonNext ==
  \/ part = "limits" /\ NL!Next /\ UNCHANGED x10
  \/ part = "daemon" /\ SD!Next /\ UNCHANGED x10
  \/ part = "conns" /\ CL!Next /\ UNCHANGED <<x8, x9, x10>>
  \/ part = "timers" /\ TI!Next /\ UNCHANGED x10
  \/ part = "bundle" /\ IB!Next
  \/ part = "cache" /\ SB!Next
  \/ part = "broker" /\ CB!Next
  \/ part = "log" /\ J!Next /\ UNCHANGED <<x9, x10>>

-----------------------------------------------------------------------------
UpTo(n, S) == UNION {[1..k -> S] : k \in 0..n}

-----------------------------------------------------------------------------
(* Listeners, their links, and what clients make of them *)

L == INSTANCE SubFormats WITH Address <- "host", Onion <- "onion", SingBoxPrints <- {"chrome"}, None <- Null, Refused <- Bad,
       Xray <- Bad, ReservedNames <- {<<"auto">>, <<"direct">>}

Client(name) == [name |-> name, secret |-> <<"key", name>>, uuid |-> <<"id", name>>, active |-> TRUE]
SwitchedOff(name) == [Client(name) EXCEPT !.active = FALSE]

RawOver == [type |-> "raw", path |-> Null, host |-> Null, service |-> Null, mode |-> Null]
Over(type) == [RawOver EXCEPT !.type = type, !.path = "/a"]
Transports == {RawOver, Over("ws"), [Over("httpupgrade") EXCEPT !.host = "cdn"],
               [RawOver EXCEPT !.type = "grpc", !.service = "svc"], Over("xhttp"), [Over("xhttp") EXCEPT !.mode = "stream-one"]}
NoTls   == [enable |-> FALSE, name |-> Null, alpn |-> Null]
Tlss    == [enable : {TRUE}, name : {Null, "name"}, alpn : {Null, <<"h2">>}]
Reality == [enable |-> TRUE, names |-> <<"site", "www">>, sids |-> <<"ab", "cd">>]

Listener == [tag |-> "l", type |-> "vless", port |-> 1, sharePort |-> Null, shareAddress |-> Null, transport |-> RawOver,
             tls |-> NoTls, reality |-> [enable |-> FALSE, names |-> <<>>, sids |-> <<>>], flow |-> Null, encryption |-> Null,
             fp |-> Null, hop |-> Null, salamander |-> Null, method |-> Null, serverPassword |-> Null,
             users |-> <<Client("ann"), SwitchedOff("bob")>>, variants |-> {}, front |-> Null, fallbacks |-> {},
             congestion |-> Null]

AsIs   == [address |-> Null, fp |-> Null, alpn |-> Null, mode |-> Null, name |-> Null, hop |-> TRUE]
Varied == {[AsIs EXCEPT !.fp = "chrome", !.address = "cdn"], [AsIs EXCEPT !.name = "other"],
           [AsIs EXCEPT !.fp = "unsafe", !.alpn = <<>>]}
H3     == [enable |-> TRUE, name |-> Null, alpn |-> <<"h3">>]

Vless ==
  {[Listener EXCEPT !.transport = t, !.tls = s, !.fp = f, !.encryption = e] :
     t \in Transports, s \in Tlss \union {NoTls}, f \in {Null, "chrome", "unsafe"}, e \in {Null, "key"}}
  \union {[Listener EXCEPT !.transport = t, !.reality = Reality, !.fp = f] :
            t \in {t \in Transports : t.type \in {"raw", "xhttp", "grpc"}}, f \in {Null, "chrome", "unsafe"}}
  \union {[Listener EXCEPT !.tls = s, !.flow = "vision"] : s \in Tlss}
  \union {[Listener EXCEPT !.transport = Over("xhttp"), !.tls = H3,
                           !.variants = {[AsIs EXCEPT !.alpn = <<"h3">>, !.mode = "packet-up"]}]}
\* parse_trojan reads no mode, nor REALITY.
OtherTypes ==
  {[Listener EXCEPT !.type = "trojan", !.transport = t, !.tls = s, !.fp = f, !.variants = Varied] :
     t \in {t \in Transports : t.mode = Null}, s \in Tlss \union {NoTls}, f \in {Null, "chrome", "unsafe"}}
  \union {[Listener EXCEPT !.type = "vmess", !.transport = t, !.tls = s] :
            t \in {t \in Transports : t.mode = Null}, s \in Tlss \union {NoTls}}
  \union {[Listener EXCEPT !.type = "shadowsocks", !.method = "2022", !.serverPassword = "server", !.users = users] :
            users \in {<<Client("ann"), SwitchedOff("bob")>>, <<SwitchedOff("ann"), SwitchedOff("bob")>>}}
  \union {[Listener EXCEPT !.type = "shadowsocks", !.method = "aes", !.users = <<Client("ann")>>]}
  \union {[Listener EXCEPT !.type = t] : t \in {"socks", "http"}}
  \union {[Listener EXCEPT !.type = "hysteria2", !.tls = s, !.salamander = x, !.hop = "range",
                           !.variants = {[AsIs EXCEPT !.hop = FALSE]}] : s \in Tlss, x \in {Null, "obfs"}}
  \union {[Listener EXCEPT !.type = t, !.tls = s, !.fp = f, !.congestion = "cubic"] :
            t \in {"anytls", "naive", "tuic"}, s \in Tlss, f \in {Null, "chrome"}}

FrontOf(path) == [Listener EXCEPT !.tag = "f", !.port = 2, !.fallbacks = {[listener |-> "l", path |-> path]}]
Fronts(t) ==
  {[FrontOf(path) EXCEPT !.type = type, !.tls = s] :
     type \in {"vless", "trojan"}, s \in Tlss, path \in {Null} \union {p \in {t.path} : t.type \in {"ws", "httpupgrade"}}}
  \union {[FrontOf(Null) EXCEPT !.reality = Reality] : x \in {x \in {t.type} : x \in {"xhttp", "grpc"}}}

Served ==
  {[listeners |-> <<[l EXCEPT !.shareAddress = a, !.sharePort = p]>>, onion |-> onion] :
     l \in Vless \union OtherTypes, a \in {Null, "own"}, p \in {Null, 9}, onion \in {{}, {"l"}}}
  \union UNION {{[listeners |-> <<[Listener EXCEPT !.transport = t, !.front = f], f>>, onion |-> {}] : f \in Fronts(t)} :
                t \in Transports}

-----------------------------------------------------------------------------
(* Subscriptions served *)

Vlessly == L!Dial([host |-> "host", port |-> 1], "vless", <<"key", "ann">>, L!NoTls, L!Plain)
Naively == [Vlessly EXCEPT !.type = "naive"]
Shadow  == [tag |-> "l", port |-> 1, address |-> Null, users |-> <<Client("ann"), SwitchedOff("bob"), Client("cat")>>,
            handshake |-> "site", name |-> Null, fp |-> Null, method |-> "2022", key |-> "server"]
Shadows == {[Shadow EXCEPT !.address = a, !.name = n, !.fp = f] : a \in {Null, "own"}, n \in {Null, "name"}, f \in {Null, "chrome"}}

Item(tag, variant, outbound) == [tag |-> tag, variant |-> variant, linked |-> TRUE, outbound |-> outbound, hops |-> {}]
Hopping == LET client == L!ShadowClient(Shadow, Client("ann"))
           IN  [Item(<<"c">>, Null, client.outbound) EXCEPT !.linked = FALSE, !.hops = client.hops]
Items == {Item(tag, variant, ob) : tag \in {<<"a">>, <<"a", "onion">>, <<"auto">>, <<"auto", "2">>}, variant \in {Null, "onion"},
                                   ob \in {Vlessly, Bad}}
         \union {Item(<<"b">>, Null, Naively), Item(<<"b">>, Null, Null), Hopping}
Requests == [query : {Null, "base64", "links", "clash", "sing-box", "html"}, agent : {"clash", "sing-box", "mozilla", "other"},
             accepts : BOOLEAN]

FormatsInit ==
  \/ \E shadow \in Shadows : input = [kind |-> "shadow", shadow |-> shadow]
  \/ \E items \in UpTo(3, Items) : input = [kind |-> "items", items |-> items]
  \/ \E request \in Requests, row \in BOOLEAN, items \in {<<Hopping, Item(<<"b">>, Null, Naively)>>, <<Item(<<"a">>, Null, Vlessly), Item(<<"a">>, Null, Bad)>>} :
       input = [kind |-> "request", request |-> request, row |-> row, items |-> items]

\* Every format of a subscription dials what its links do (inbound_subscription.py:173).
FormatsAgree ==
  CASE input.kind = "shadow"  -> L!ShadowDials(input.shadow)
    [] input.kind = "items"   -> L!ConfigWhole(input.items)
    [] input.kind = "request" -> L!AnswerWhole(input.request, input.row, input.items)

-----------------------------------------------------------------------------
(* Subscriptions fetched *)

U == INSTANCE SubFetch WITH Deadline <- 3, MaxEntries <- 3, MaxRuns <- 5, Failed <- Bad, None <- Null

Entry == [remark |-> <<"x">>, reads |-> {"sing-box", "xray"}, near |-> "far", insecure |-> {}, broken |-> {}, named |-> TRUE,
          tcpTls |-> TRUE, reality |-> FALSE, muxes |-> TRUE, vision |-> FALSE, fragment |-> Null, hop |-> Null,
          files |-> FALSE, server |-> TRUE]
\* Of links, and of JSON.
Lines == {Entry, [Entry EXCEPT !.remark = <<"x", 2>>, !.reads = {"xray"}, !.vision = TRUE],
          [Entry EXCEPT !.remark = Null, !.insecure = {"sing-box"}], [Entry EXCEPT !.broken = {"sing-box"}, !.named = FALSE],
          [Entry EXCEPT !.broken = {"sing-box", "xray"}], [Entry EXCEPT !.near = "lan"]}
Docs  == {Entry, [Entry EXCEPT !.hop = "fragment", !.broken = {"xray"}, !.named = FALSE], [Entry EXCEPT !.hop = "other"],
          [Entry EXCEPT !.files = TRUE], [Entry EXCEPT !.near = "here"]}
Answer(kind, cost, entries) == [kind |-> kind, cost |-> cost, entries |-> entries]

FetchInit ==
  \E backend \in {"sing-box", "xray", "hybrid"}, loose, checks \in BOOLEAN :
    LET opts == [backend |-> backend, private |-> loose, insecure |-> loose, checks |-> checks, mark |-> 1,
                 tweaks |-> [fragment |-> "f", mux |-> "m"]]
    IN  \/ \E entries \in UpTo(4, Lines) : input = [opts |-> opts, answers |-> <<Answer("lines", 1, entries)>>]
        \/ \E kind \in {"xray", "sing-box"}, entries \in UpTo(3, Docs) :
             input = [opts |-> opts, answers |-> <<Answer(kind, 1, entries)>>]
        \/ \E answers \in UpTo(3, {Answer("error", 2, <<>>), Answer("lines", 2, <<>>), Answer("lines", 1, <<Entry>>),
                                  Answer("sing-box", 1, <<Entry>>)}) : input = [opts |-> opts, answers |-> answers]

-----------------------------------------------------------------------------
(* AmneziaWG configurations *)

Narrowed(address) == IF address = "net" THEN "host" ELSE address
A == INSTANCE AwgConfig WITH Headers <- {"interface", "peer", "other"}, VpnFields <- {"jc", "rekeytimeout"},
       Awg3Keys <- {"rekeytimeout"}, Privileged <- {"53"}, HostOf <- Narrowed, SafeMtu <- "1280", None <- Null, Refused <- Bad

Row(name, value) == [name |-> name, value |-> value]
Heads == {Row("interface", TRUE), Row("interface", FALSE), Row("peer", TRUE), Row("peer", FALSE), Row("other", TRUE)}
Keys  == {Row("table", "auto"), Row("dns", "ns"), Row("address", "net"), Row("listenport", "53"), Row("fwmark", "7"),
          Row("postup", "cmd"), Row("jc", "4"), Row("jc", "9"), Row("rekeytimeout", "5"), Row("mtu", "1420")}

AwgInit ==
  \/ \E head \in Heads, key \in Keys, rest \in UpTo(2, Heads \union Keys) : input = <<head, key>> \o rest
  \/ \E rows \in [1..3 -> Heads \union Keys], key \in Keys :
       input = <<Row("interface", TRUE), key>> \o rows
  \/ \E rows \in UpTo(3, Heads \union Keys) :
       input = <<Row("interface", TRUE)>> \o rows \o <<Row("peer", TRUE), Row("endpoint", "name")>>

-----------------------------------------------------------------------------
(* AmneziaWG listeners: x1, ..., x9 *)

Has(address, public) == [address |-> address, public |-> public]
Nobody == Has(Null, Null)
Of(x, y) == [u \in {"u1", "u2"} |-> IF u = "u1" THEN x ELSE y]

V == INSTANCE AwgInbound WITH Names <- <<"u1", "u2">>, End <- 4, JunkHigh <- 1, Gap <- 1, JunkMax <- 2, Pads <- 1..2,
       Difference <- 1, Kinds <- 1..2, MaxPrepares <- 3, MaxChanges <- 2, None <- Null, Down <- Bad,
       Decls <- {Of(Has(3, Null), Nobody), Of(Has(Null, <<0, "own">>), Has(3, Null))},
       Obfuscations <- {<<>>, "s2" :> 2},
       spec <- x1, state <- x2, conf <- x3, run <- x4, pc <- x5, got <- x6, handed <- x7, crossed <- x8, counts <- x9

PeersInit == V!Init /\ x10 = Off
PeersNext == V!Next /\ UNCHANGED x10

ObfuscationInit ==
  \E declared \in UNION {[S -> 0..2] : S \in SUBSET {"jmin", "jmax", "s1", "s2", "h1"}} :
    \E stored \in {<<>>} \union {[f \in {"jmin", "jmax", "s1", "s2", "h1", "h2"} |-> IF f \in S THEN 2 ELSE 1] :
                                S \in SUBSET {"jmin", "jmax", "s1", "s2", "h1", "h2"}} :
      input = [declared |-> declared, stored |-> stored]

-----------------------------------------------------------------------------
(* Apps *)

N == INSTANCE AppRoutes WITH Wrapped <- {"tun", "tproxy", "zapret"}, Refused <- Bad, None <- Null

AppHosts == [tags : {{}, {"x"}, {"x", "y"}}, groups : {{}, {"g"}}, interfaces : SUBSET {"x"}, profiles : SUBSET {"x", "y"},
             enabled : {{}, {"tun", "zapret", "proxychains"}}, pins : {<<>>, <<"tun">>, <<"tproxy">>, <<"tun", "tproxy">>},
             up : {{}, {"tun"}, {"tproxy"}, {"y"}}]
AppInit ==
  \E host \in AppHosts, route \in {Null, "direct", "proxychains", "tun", "tproxy", "zapret"} :
    \E target \in {Null} \union {N!Target(kind, name) : kind \in {Null, "awg", "outbound"}, name \in {"x", "y", "g"}} :
      input = [host |-> host, route |-> route, target |-> target]

-----------------------------------------------------------------------------
(* What where tells *)

WR == INSTANCE WhereRoutes WITH None <- Null

SingRules == [kind : {"names", "ips", "action"}, bound : {Null, "inbound", "v6"}, hit : BOOLEAN, readable : {TRUE}, outbound : {"warp", "direct"}]
             \union [kind : {"set"}, bound : {Null, "inbound", "v6"}, hit : BOOLEAN, readable : BOOLEAN, outbound : {"warp", "direct"}]
SomeSing  == {[rules |-> rules, final |-> "proxy"] :
                rules \in {<<>>} \union {<<[kind |-> "names", bound |-> Null, hit |-> hit, readable |-> TRUE, outbound |-> "direct"]>> : hit \in BOOLEAN}}
Final     == [tag |-> "final", entries |-> <<>>, ip |-> FALSE, user |-> Null, listeners |-> Null, ports |-> Null, target |-> "final"]
Plainish(entry) == <<[kind |-> entry[1], hit |-> entry[2], checkable |-> entry[3]]>>
XrayRules ==
  {[Final EXCEPT !.tag = "rule", !.entries = Plainish(e), !.listeners = l, !.ports = p, !.target = t] :
     e \in {"domain", "geosite"} \X BOOLEAN \X BOOLEAN, l \in {Null, {"l1"}}, p \in {Null, {1}}, t \in {"direct", "block"}}
  \union {[Final EXCEPT !.tag = "via", !.listeners = {"l2"}, !.target = "warp"],
           [Final EXCEPT !.tag = "guard", !.entries = Plainish(<<"domain", TRUE, TRUE>>), !.ip = TRUE, !.target = "proxy"],
           [Final EXCEPT !.tag = "ips", !.ip = TRUE, !.target = "block"]}
Conns == [listener : {"l1", "l2"}, port : {1, 2}, user : {"ann"}]

Domain == <<"www", "site", "org">>
SomeLists == SUBSET {<<"site", "org">>, Domain}
WhereInit ==
  \/ \E rules \in UpTo(2, SingRules) : input = [kind |-> "sing", config |-> [rules |-> rules, final |-> "proxy"]]
  \/ \E rules \in UpTo(2, XrayRules), conn \in Conns : input = [kind |-> "xray", rules |-> Append(rules, Final), conn |-> conn]
  \/ \E lists \in [excluded : SomeLists, pinned : SomeLists, sites : {{}, {<<"site", "org">>}}, learned : SomeLists],
        routed \in {<<>>, <<"site", "org">> :> "warp"}, config \in SomeSing \union {Null},
        connections \in SUBSET {[host |-> <<"a">> \o Domain, exit |-> "direct"], [host |-> <<"org">>, exit |-> "warp"]} :
       input = [kind |-> "verdict", host |-> [lists |-> lists, routed |-> routed, config |-> config, connections |-> connections]]

\* What where tells of a domain is the way a connection by its name takes, where it
\* says so without a hedge (proxy_ctl.py:5676).
WhereTells ==
  CASE input.kind = "sing"    -> WR!SingBoxTold(input.config)
    [] input.kind = "xray"    -> WR!XrayTold(input.rules, "final", input.conn)
    [] input.kind = "verdict" -> WR!VerdictTold(input.host, Domain)

-----------------------------------------------------------------------------
(* Probes *)

Z == INSTANCE ProbeWalk WITH MaxHops <- 3, None <- Null

Judgements == {"dead", "ok", "wall", "blocked"}
Paths      == <<"/", "/robots.txt">>
Hops ==
  {Z!Answer(TRUE, code, page, Null) : code \in {"2xx", "403", "404"}, page \in {Null, "address"}}
  \union {Z!Answer(TRUE, "3xx", Null, Z!Place(block, site, lan)) : block, site, lan \in BOOLEAN}
  \union {Z!Answer(FALSE, "000", Null, Null), Z!Answer(TRUE, "000", Null, Null), Z!Answer(TRUE, "3xx", Null, Null)}

ProbeInit ==
  \/ \E got \in [{"direct", "e1", "e2", "e3"} -> [{"/"} -> Judgements]], rest \in {<<>>, <<"e3">>} :
       input = [kind |-> "walk", got |-> got, first |-> <<"e1", "e2">>, rest |-> rest, paths |-> <<"/">>]
  \/ \E got \in [{"direct", "e1", "e2"} -> [{Paths[1], Paths[2]} -> Judgements]] :
       input = [kind |-> "walk", got |-> got, first |-> <<"e1">>, rest |-> <<"e2">>, paths |-> Paths]
  \/ \E chain \in UpTo(4, Hops) : chain # <<>> /\ input = [kind |-> "chain", chain |-> chain]


-----------------------------------------------------------------------------
\* What a server hands out is what it takes: a share link, read as a client of
\* this project reads it, is answered by the listener it is for as its user if
\* and only if the manager lets the user in, also through a fallback, a variant
\* or the onion (build_share_link, proxy_inbound.py:510).  And no entry of a
\* subscription costs another its place: what a fetch writes is each of the first
\* usable answer's entries that its backend takes (main, fetch-subscription.py:284);
\* the copy that is kept of it passes for no other's, and is what the proxy runs.
\* An AmneziaWG client that was handed its configuration gets through, whatever
\* prepares, crashes and other users come after (prepare, awg_inbound.py:338).
\* An AmneziaWG configuration from outside, read by awg-quick once it is rendered,
\* is no more than its tunnel (as_outbound, amneziawg_config.py:444), and its link
\* brings it back.  Those who were moved to another server get through there, and an
\* import takes nothing from whoever was there before (import_bundle, inbound_manager.py:916).
EndsAgree ==
  /\ part = "links" => L!LinksDial(input) /\ L!LinksClash(input)
  /\ part = "formats" => FormatsAgree
  /\ part = "where" => WhereTells
  /\ part = "fetch" => U!FetchKeeps(input.answers, input.opts)
  /\ part = "cache" => SB!CacheHolds
  /\ part = "peers" => V!ClientsDial
  /\ part = "bundle" => IB!BundleHolds
  /\ part = "apps" => N!AddedRuns(input.host, input.route, input.target)
  /\ part = "obfuscation" => V!ObfuscationAgrees(input.declared, input.stored)
  /\ part = "awg" => A!OutboundKeepsHost(input, "mark", [x \in {"name"} |-> "addr"]) /\ A!LinkComesBack(input)

LinksInit == input \in Served

RenderInit ==
  \/ part = "links" /\ LinksInit
  \/ part = "formats" /\ FormatsInit
  \/ part = "fetch" /\ FetchInit
  \/ part = "awg" /\ AwgInit
  \/ part = "obfuscation" /\ ObfuscationInit
  \/ part = "probe" /\ ProbeInit
  \/ part = "apps" /\ AppInit
  \/ part = "where" /\ WhereInit

-----------------------------------------------------------------------------
MonthLens == <<4, 2, 3, 4>>

P == INSTANCE InboundPolicy WITH DayLen <- 2, Months <- MonthLens, MaxTime <- 30,
                                 SizeUnits <- [G |-> 10, B |-> 1], SpanUnits <- [d |-> 2]

Number(n) == [form |-> "number", n |-> n]
Raws == {[form |-> "none"], [form |-> "flag", on |-> TRUE], [form |-> "flag", on |-> FALSE],
         [form |-> "period", period |-> "weekly"]}
        \union {Number(n) : n \in {-1, 0, 1, 29, 30}}
        \union [form : {"text"}, tenths : {0, 1, 15}, unit : {"G", "B", "x"}]
        \union [form : {"span", "relative"}, n : {0, 1, 20}, unit : {"d", "x"}]
        \union {[form |-> "date", n |-> d] : d \in {1, 14, 20}}
        \union {[form |-> "pair", up |-> Number(u), down |-> [form |-> "text", tenths |-> d, unit |-> "B"]] :
                  u \in {-1, 0, 1}, d \in {0, 5, 10}}

PolicyInit ==
  \/ \E f \in P!Fields, raw \in Raws, now \in {2, 25} : input = [kind |-> "raw", field |-> f, raw |-> raw, now |-> now]
  \/ \E period \in P!Periods \union {Null}, start, first, now \in P!Moments :
       /\ start <= first /\ first <= now
       /\ input = [kind |-> "roll", period |-> period, start |-> start, first |-> first, now |-> now]

\* What is written is taken for the same when it is read again: an entry that
\* normalize() made is never dropped by load_policies, a restart later
\* (check_stored, inbound_policy.py:256).
StoredComesBack ==
  input.kind = "raw" =>
    LET entry == P!Normalize(input.field :> input.raw, input.now)
    IN  entry # Bad => P!LoadPolicy(entry, input.now) = entry

\* One unit of traffic each moment, as the day's counters have it at time t.
Counted(t) == [d \in 1..P!Day(t) |-> Min({t - P!Midnight(d), 2})]
Policy == [P!DefaultPolicy EXCEPT !["trafficPeriod"] = input.period]
Rolled == P!RollPeriod(Policy, P!RollPeriod(Policy, P!StartPeriod(Counted(input.start), input.start), input.first), input.now)

Boundaries ==
  LET first == P!Day(input.start)
  IN  {P!Midnight(d) : d \in
         CASE input.period = "daily"   -> 1..13
           [] input.period = "weekly"  -> {first + 7}
           [] input.period = "monthly" -> {P!FirstDay[m] + Min({P!DayOfMonth(first), MonthLens[m]}) - 1 : m \in 1..4}
           [] OTHER                  -> {}}

\* Rolled on any two occasions, a period begins at the latest boundary before
\* now: a month too short for the anchor's day does not move the next.  What
\* is held against the limit is the traffic since then, also on the day the
\* period began (roll_period, _add_period, period_traffic, inbound_policy.py:438).
PeriodIsRight ==
  input.kind = "roll" =>
    /\ Rolled.start = Max({input.start} \union {b \in Boundaries : input.start < b /\ b <= input.now})
    /\ P!PeriodTraffic(Counted(input.now), Rolled) = input.now - Rolled.start

PoliciesKeep == part = "policy" => StoredComesBack /\ PeriodIsRight

-----------------------------------------------------------------------------
G == INSTANCE SupervisorGroups WITH Pids <- {p1, p2}, Units <- {"u1", "u2"}, Remain <- {"u2"}, Other <- "other", None <- Null,
       MaxBorn <- 3, MaxDeaths <- 2, MaxFaults <- 1,
       procs <- gProcs, held <- gHeld, leaving <- gLeaving, file <- gFile, daemon <- gDaemon,
       only <- gOnly, ended <- gEnded, born <- gBorn, deaths <- gDeaths, faults <- gFaults

GroupsOff == /\ gProcs = Off /\ gHeld = Off /\ gLeaving = Off /\ gFile = Off /\ gDaemon = Off
             /\ gOnly = Off /\ gEnded = Off /\ gBorn = Off /\ gDeaths = Off /\ gFaults = Off

OrphansEnded  == part = "groups" => G!OrphansEnded /\ G!NothingBehind
StrangersLive == [][part = "groups" => G!StrangersLive]_gvars

-----------------------------------------------------------------------------
\* Units a, b, w.  Plain: nothing depends on anything.
Deps    == {"a", "b", "w"}
NoUnits == [u \in Deps |-> <<>>]
NoSets  == [u \in Deps |-> {}]
Plain == [requires |-> NoUnits, wants |-> NoUnits, wantedBy |-> NoSets, partOf |-> NoSets, conflicts |-> NoUnits,
          up |-> {}, timers |-> {}, paths |-> {}, oneshot |-> {}, stays |-> {}, restart |-> {},
          refuses |-> FALSE, fails |-> FALSE, calls |-> 2, exits |-> 1, verbs |-> {}, boot |-> <<>>, changes |-> {}]

Mutual == [Plain EXCEPT !.requires = [NoUnits EXCEPT !["a"] = <<"b">>, !["b"] = <<"a">>],
                        !.up = {"a", "b"}, !.verbs = {"start", "stop"}]
\* w watches over a.
Watchdog == [Plain EXCEPT !.partOf = [NoSets EXCEPT !["w"] = {"a"}], !.wantedBy = [NoSets EXCEPT !["w"] = {"a"}],
                          !.restart = {"a"}, !.up = {"a", "w"}]
\* a requires b.
Chain  == [Watchdog EXCEPT !.requires = [NoUnits EXCEPT !["a"] = <<"b">>], !.restart = {"a", "b"}, !.up = Deps,
                           !.calls = 1]
Rivals == [Plain EXCEPT !.conflicts = [NoUnits EXCEPT !["a"] = <<"b">>, !["b"] = <<"a">>],
                        !.partOf = [NoSets EXCEPT !["w"] = {"a"}]]

DepTopologies ==
  {[Mutual EXCEPT !.fails = TRUE],
   [Watchdog EXCEPT !.verbs = {"stop", "restart"}, !.exits = 0],
   [Watchdog EXCEPT !.verbs = {"stop", "restart"}, !.calls = 1],
   [Watchdog EXCEPT !.verbs = {"restart"}, !.fails = TRUE, !.calls = 1],
   [Watchdog EXCEPT !.verbs = {"restart"}, !.fails = TRUE, !.exits = 0],
   [Watchdog EXCEPT !.verbs = {"shutdown", "start", "try-restart"}, !.exits = 0],
   [Watchdog EXCEPT !.verbs = {"shutdown", "start"}, !.calls = 1],
   [Chain EXCEPT !.verbs = {"stop", "restart", "shutdown"}, !.fails = TRUE],
   [Chain EXCEPT !.verbs = {"boot"}, !.boot = <<"a", "b">>, !.wants = [NoUnits EXCEPT !["b"] = <<"w">>],
                 !.up = {}, !.refuses = TRUE],
   [Chain EXCEPT !.boot = <<"a">>, !.up = {"a", "b"},
                 !.changes = {[lost |-> {"w"}, changed |-> {"a"}], [lost |-> {}, changed |-> {"a", "b"}]}],
   [Watchdog EXCEPT !.boot = <<"a", "w">>, !.up = {"a"}, !.verbs = {"restart"},
                    !.changes = {[lost |-> {"w"}, changed |-> {"a"}]}, !.exits = 0],
   [Rivals EXCEPT !.verbs = {"start", "stop"}, !.up = {"a", "w"}],
   [Rivals EXCEPT !.paths = {"b"}, !.oneshot = {"b"}, !.verbs = {"restart"}, !.up = {"a", "w"}],
   [Rivals EXCEPT !.timers = {"b"}, !.stays = {"b"}, !.verbs = {"shutdown"}, !.up = {"a", "b"}]}

D == INSTANCE SupervisorDeps WITH UnitList <- <<"a", "b", "w">>, Clients <- {c1, c2}, None <- Null,
       Topologies <- DepTopologies,
       topo <- dTopo, state <- dState, cancel <- dCancel, ever <- dEver, job <- dJob, todo <- dTodo,
       ret <- dRet, started <- dStarted, stopped <- dStopped, timers <- dTimers, lost <- dLost,
       popped <- dPopped, quit <- dQuit, calls <- dCalls, exits <- dExits, asked <- dAsked,
       others <- dOthers, hurt <- dHurt

DepsOff == /\ dTopo = Off /\ dState = Off /\ dCancel = Off /\ dEver = Off /\ dJob = Off /\ dTodo = Off
           /\ dRet = Off /\ dStarted = Off /\ dStopped = Off /\ dTimers = Off /\ dLost = Off
           /\ dPopped = Off /\ dQuit = Off /\ dCalls = Off /\ dExits = Off /\ dAsked = Off
           /\ dOthers = Off /\ dHurt = Off

BoundFollow == part = "deps" => D!BoundFollow
NoneStuck   == (part = "deps" => D!NoneStuck) /\ (part = "timers" => TI!TimersHold)

-----------------------------------------------------------------------------
Names      == {"ann", "Ann", "bob", "dan"}
LowerOf    == [n \in Names |-> IF n = "Ann" THEN "ann" ELSE n]
Ranks      == [Ann |-> 1, ann |-> 2, bob |-> 3, dan |-> 4, awg |-> 5, ss |-> 6, l1 |-> 7, l2 |-> 8, l3 |-> 9]
DanUser    == [dan |-> [order |-> 2, uuid |-> FALSE, password |-> TRUE]]
Declared   == [awg |-> [type |-> "amneziawg", port |-> 1, users |-> <<"dan">>, capacity |-> 2, method |-> "none",
                        serverPassword |-> FALSE, order |-> 1000],
               ss  |-> [type |-> "shadowsocks", port |-> 2, users |-> <<>>, capacity |-> -1, method |-> "other",
                        serverPassword |-> FALSE, order |-> 0]]
Template   == <<[kind |-> "self"], [kind |-> "via", via |-> "block", tags |-> {}], [kind |-> "final"]>>

Plainly == [type |-> "vless", port |-> 3, via |-> Null, users |-> <<"ann">>, order |-> 1, method |-> "none",
            serverPassword |-> FALSE, shape |-> TRUE, sound |-> TRUE, plain |-> TRUE, loopback |-> TRUE,
            fronted |-> TRUE, fallbacks |-> {}]
Listeners ==
  {Plainly, [Plainly EXCEPT !.port = 4, !.via = "block"], [Plainly EXCEPT !.port = 4, !.fallbacks = {"l2"}, !.plain = FALSE],
   [Plainly EXCEPT !.port = 4, !.fallbacks = {"l1"}, !.plain = FALSE],
   [Plainly EXCEPT !.port = 5, !.fallbacks = {"l1"}, !.loopback = FALSE], [Plainly EXCEPT !.port = 5, !.fallbacks = {"l1", "l3"}],
   [Plainly EXCEPT !.port = 2, !.order = 0], [Plainly EXCEPT !.port = 4, !.users = <<"ann", "dan", "ann">>],
   [Plainly EXCEPT !.type = "shadowsocks", !.users = <<"ann", "dan">>, !.method = "2022-aes", !.port = 4],
   [Plainly EXCEPT !.port = 4, !.order = 0, !.loopback = FALSE, !.users = <<>>]}
SomeUsers == [ann |-> [order |-> 1, listeners |-> {"awg", "l2"}, shape |-> TRUE],
              Ann |-> [order |-> 2, listeners |-> {"ss", "l1"}, shape |-> TRUE],
              bob |-> [order |-> 1, listeners |-> {"awg", "ss", "l3"}, shape |-> TRUE]]
UserEntries == [order : {1, 2, 3}, listeners : SUBSET {"awg", "ss"}, shape : {TRUE}]
               \union {[order |-> 1, listeners |-> {}, shape |-> FALSE]}

M == INSTANCE InboundMerge WITH Lower <- LowerOf, Rank <- Ranks, DeclUsers <- DanUser, DeclNumbers <- {2},
       DeclListeners <- Declared, Vias <- {"proxy", "block"}, Ports <- 2..5, DefaultVia <- "proxy",
       SourceSize <- 6, None <- Null

SomeOf(domain, values) == UNION {[d -> values] : d \in SUBSET domain}
MergeInit ==
  \E off \in {{}, {"ann", "bob"}}, busy \in {{}, {4}} :
    \/ \E listeners \in SomeOf({"l1", "l2", "l3"}, Listeners) :
         input = [off |-> off, busy |-> busy, spool |-> [users |-> SomeUsers, listeners |-> listeners]]
    \/ \E users \in SomeOf({"ann", "Ann", "bob"}, UserEntries) :
         input = [off |-> off, busy |-> {}, spool |-> [users |-> users, listeners |-> [l1 |-> Plainly]]]

SpoolFits == part = "merge" =>
  M!Fits(input.spool, input.busy, input.off) /\ M!Routed(input.spool, input.busy, input.off, Template)

S == INSTANCE InboundSpool WITH Lower <- LowerOf, Rank <- Ranks, DeclUsers <- DanUser, DeclNumbers <- {2},
       DeclListeners <- Declared, Vias <- {"proxy", "block"}, Ports <- 2..5, DefaultVia <- "proxy",
       SourceSize <- 6, None <- Null,
       Procs <- {p1, p2}, UserNames <- {"ann", "Ann"}, Entries <- [l1 |-> Plainly], MaxCmds <- 4, MaxKills <- 1,
       files <- sFiles, lock <- sLock, cmd <- sCmd, cmds <- sCmds, kills <- sKills, gone <- sGone, torn <- sTorn

SpoolOff == sFiles = Off /\ sLock = Off /\ sCmd = Off /\ sCmds = Off /\ sKills = Off /\ sGone = Off /\ sTorn = Off

\* What one command of a lock leaves is what the next one works on, killed in
\* the middle or not: a user or listener that was removed from the inbounds' spool
\* stays so (inbound_runtime.py:234), no change of a group is lost, and an outbound
\* of proxy-ctl's spool is never found half written.  So are zapret's lists, which
\* nfqws2 appends to (proxy_ctl.py:5231), the marking that runs of apps share
\* (proxy_ctl.py:6439), and the limits and bans of nftables, which others flush
\* (inbound_netfilter.py:164): what is left standing is what is wanted of each.
\* The supervisor's lock and socket are the one daemon's that serves (proxy_supervisor.py:1343).
LocksHold ==
  /\ part = "spool" => S!RemovedStay
  /\ part = "daemon" => SD!DaemonHolds
  /\ part = "slices" => H!SlicesHold
  /\ part = "zapret" => K!ListsKeep
  /\ part = "limits" => NL!NetHolds
  /\ NoneLost /\ EntriesWhole

-----------------------------------------------------------------------------
Init ==
  \/ part = "policy" /\ PolicyInit /\ GroupsOff /\ DepsOff /\ SpoolOff /\ AllOff
  \/ part = "groups" /\ G!Init /\ input = Off /\ DepsOff /\ SpoolOff /\ AllOff
  \/ part = "deps" /\ D!Init /\ input = Off /\ GroupsOff /\ SpoolOff /\ AllOff
  \/ part = "merge" /\ MergeInit /\ GroupsOff /\ DepsOff /\ SpoolOff /\ AllOff
  \/ part = "spool" /\ S!Init /\ input = Off /\ GroupsOff /\ DepsOff /\ AllOff
  \/ part = "peers" /\ PeersInit /\ input = Off /\ GroupsOff /\ DepsOff /\ SpoolOff
  \/ RenderInit /\ GroupsOff /\ DepsOff /\ SpoolOff /\ AllOff
  \/ DaemonInit /\ input = Off /\ GroupsOff /\ DepsOff /\ SpoolOff
  \/ CtlInit /\ input = Off /\ GroupsOff /\ DepsOff /\ SpoolOff

Next ==
  /\ part' = part
  /\ \/ part = "groups" /\ G!Next /\ UNCHANGED <<input, dvars, svars, xvars>>
     \/ part = "deps" /\ D!Next /\ UNCHANGED <<input, gvars, svars, xvars>>
     \/ part = "spool" /\ S!Next /\ UNCHANGED <<input, gvars, dvars, xvars>>
     \/ part = "peers" /\ PeersNext /\ UNCHANGED <<input, gvars, dvars, svars>>
     \/ DaemonNext /\ UNCHANGED <<input, gvars, dvars, svars>>
     \/ CtlNext /\ UNCHANGED <<input, gvars, dvars, svars>>

Spec == Init /\ [][Next]_<<part, input, gvars, dvars, svars, xvars>>
=============================================================================
