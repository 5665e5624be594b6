------------------------------ MODULE CtlBroker ------------------------------
(***************************************************************************)
(* `proxy-ctl outbounds test` through proxy-suite-clash-api, the broker    *)
(* before the backend's API (src/pkgs/proxy-ctl/proxy_ctl.py).             *)
(*                                                                         *)
(* A command asks for the delay of each outbound at once, then downloads   *)
(* through each in turn, by a selector of the tests' own.  The broker      *)
(* takes its callers off a listen queue, and serves each in a thread while *)
(* it has a slot for it.  Other local users call it as well, and may send  *)
(* nothing; the backend may be down, and answer late.                      *)
(***************************************************************************)
EXTENDS Integers, Sequences, FiniteSets, Functions

CONSTANTS
  Tags, First,   \* the outbounds under test; the first of the tests' selector
  Members,       \* members' further requests: [kind, scopes]
  Strangers,     \* callers in no userControl group
  Slots, Queue,  \* CLASH_BROKER_MAX_CLIENTS and request_queue_size
  None

Test(tag)     == [kind |-> "delay", of |-> tag, scopes |-> {}]
Download(tag) == [kind |-> "switch", of |-> tag, scopes |-> {}]
Other(m)      == [kind |-> m.kind, of |-> None, scopes |-> m.scopes]
Stranger(s)   == [kind |-> "silent", of |-> s, scopes |-> None]
Callers == {Test(tag) : tag \in Tags} \union {Download(tag) : tag \in Tags}
           \union {Other(m) : m \in Members} \union {Stranger(s) : s \in Strangers}

VARIABLES
  api,       \* whether the backend runs, and its API answers
  selected,  \* what each selector has: the tests', and another
  queue,     \* the callers that are not accepted yet
  free,      \* the semaphore
  threads,   \* the callers being served
  call,      \* [Callers -> "new", "sent", "accepted", or its answer]
  cell,      \* [Tags -> the exit its download measured, None before]
  unjust,    \* callers that were turned away although there was a slot for each
  late,      \* switches given up while they were under way
  undone     \* the outbounds switched to that the backend forgot before their download

vars == <<api, selected, queue, free, threads, call, cell, unjust, late, undone>>

-----------------------------------------------------------------------------
(* The broker                                                              *)

\* _broker_allows: a delay test is of the configured URL, and names are read as the API's
\* router does.
Allows(request) ==
  \/ "*" \in request.scopes
  \/ request.kind \in {"delay", "switch", "proxies"}
  \/ request.kind = "connections" /\ "secrets" \in request.scopes
  \/ request.kind = "select" /\ "routing" \in request.scopes

Going(c) == call[c] \in {"sent", "accepted"}
Ends(c, answer) == call' = [call EXCEPT ![c] = IF Going(c) THEN answer ELSE @]

\* Turned away, because there are more at once than it has slots.
Turned(c) == unjust' = IF Cardinality(threads \union Range(queue) \union {c}) > Slots THEN unjust ELSE unjust \union {c}

\* Mutant: whom it turns away costs a slot.
Accept_takes ==
  /\ queue # <<>> /\ queue' = Tail(queue)
  /\ LET c == Head(queue)
     IN  IF free = 0
         THEN Ends(c, "no API") /\ Turned(c) /\ UNCHANGED <<free, threads>>
         ELSE /\ free' = free - 1 /\ UNCHANGED unjust
              /\ IF c.scopes = None THEN Ends(c, "no API") /\ UNCHANGED threads
                 ELSE threads' = threads \union {c} /\ Ends(c, "accepted")
  /\ UNCHANGED <<api, selected, cell, late, undone>>
\* verify_request and process_request: a stranger is closed on, and who finds no slot as well.
Accept ==
  /\ queue # <<>> /\ queue' = Tail(queue)
  /\ LET c == Head(queue)
     IN  IF c.scopes = None
         THEN Ends(c, "no API") /\ UNCHANGED <<free, threads, unjust>>
         ELSE IF free = 0
         THEN Ends(c, "no API") /\ Turned(c) /\ UNCHANGED <<free, threads>>
         ELSE free' = free - 1 /\ threads' = threads \union {c} /\ Ends(c, "accepted") /\ UNCHANGED unjust
  /\ UNCHANGED <<api, selected, cell, late, undone>>

\* Mutant: only a thread that answers gives its slot back.
Released_answered(c) == IF Going(c) THEN free + 1 ELSE free
\* process_request_thread, however it ends.
Released(c) == free + 1

Switched(c) == IF c.kind = "switch" THEN [selected EXCEPT !.test = c.of]
               ELSE IF c.kind = "select" THEN [selected EXCEPT !.other = c.scopes] ELSE selected

\* A thread answers: what its caller may not ask, and what the API says.
Answer(c) ==
  /\ c \in threads /\ threads' = threads \ {c} /\ free' = Released(c)
  /\ IF ~Allows(c) THEN Ends(c, "refused") /\ UNCHANGED selected
     ELSE IF ~api THEN Ends(c, "no API") /\ UNCHANGED selected
     ELSE selected' = Switched(c) /\ Ends(c, "ok")
  /\ UNCHANGED <<api, queue, cell, unjust, late, undone>>

\* A member that sends nothing, until the broker's timeout.
Silent(c) ==
  /\ c \in threads /\ c.of = None /\ threads' = threads \ {c} /\ free' = Released(c) /\ Ends(c, "cut")
  /\ UNCHANGED <<api, selected, queue, cell, unjust, late, undone>>

-----------------------------------------------------------------------------
(* The callers                                                             *)

Sends(c) == call' = [call EXCEPT ![c] = "sent"] /\ queue' = Append(queue, c)
Room == Len(queue) < Queue
CallUnchanged == UNCHANGED <<api, selected, free, threads, cell, undone>>

Done(c) == call[c] \notin {"new", "sent", "accepted"}

\* cmd_outbounds_test: the delays at once.
AskDelay(tag) == call[Test(tag)] = "new" /\ Room /\ Sends(Test(tag)) /\ CallUnchanged /\ UNCHANGED <<unjust, late>>

\* Mutant: the downloads in the pool as well.
Turn_any(tag) == \A other \in Tags : Done(Test(other))
\* One after the other, and after the delays.
Turn(tag) ==
  /\ \A other \in Tags : Done(Test(other))
  /\ \A other \in Tags \ {tag} : call[Download(other)] = "new" \/ cell[other] # None

AskDownload(tag) ==
  /\ call[Download(tag)] = "new" /\ Turn(tag) /\ Room /\ Sends(Download(tag)) /\ CallUnchanged /\ UNCHANGED <<unjust, late>>

AskOther(c) == call[c] = "new" /\ c.of \notin Tags /\ Room /\ Sends(c) /\ CallUnchanged /\ UNCHANGED <<unjust, late>>

\* _UnixHTTPConnection.connect: a full queue is waited out, but not past its deadline.
GivesUp(c) ==
  /\ call[c] = "new" /\ ~Room /\ (c.kind = "switch" => Turn(c.of))
  /\ call' = [call EXCEPT ![c] = "no API"] /\ Turned(c)
  /\ CallUnchanged /\ UNCHANGED <<queue, late>>

\* The caller's own timeout; the broker may answer it yet.
Late(c) ==
  /\ Going(c) /\ call' = [call EXCEPT ![c] = "no API"] /\ late' = (late \/ c.kind = "switch")
  /\ CallUnchanged /\ UNCHANGED <<queue, unjust>>

\* _test_download: the test listener's connection goes where the selector is as it dials,
\* and nowhere while the backend is down.
Measure(tag) ==
  /\ cell[tag] = None /\ Done(Download(tag))
  /\ cell' = [cell EXCEPT ![tag] = IF call[Download(tag)] # "ok" THEN call[Download(tag)]
                                   ELSE IF api THEN selected.test ELSE "failed"]
  /\ UNCHANGED <<api, selected, queue, free, threads, call, unjust, late, undone>>

\* The backend stops ...
Down == api /\ api' = FALSE /\ UNCHANGED <<selected, queue, free, threads, call, cell, unjust, late, undone>>

Fresh == [test |-> First, other |-> {}]
\* ... and starts again, with no choice kept: it has no cache_file.
Up ==
  /\ ~api /\ api' = TRUE /\ selected' = Fresh
  /\ undone' = undone \union {tag \in Tags : call[Download(tag)] = "ok" /\ cell[tag] = None}
  /\ UNCHANGED <<queue, free, threads, call, cell, unjust, late>>

-----------------------------------------------------------------------------
Init ==
  /\ api \in BOOLEAN /\ selected = Fresh /\ queue = <<>> /\ free = Slots /\ threads = {}
  /\ call = [c \in Callers |-> "new"] /\ cell = [tag \in Tags |-> None]
  /\ unjust = {} /\ late = FALSE /\ undone = {}

Next ==
  \/ Accept \/ Down \/ Up
  \/ \E c \in Callers : Answer(c) \/ Silent(c) \/ AskOther(c) \/ GivesUp(c) \/ Late(c)
  \/ \E tag \in Tags : AskDelay(tag) \/ AskDownload(tag) \/ Measure(tag)

-----------------------------------------------------------------------------
\* No slot is lost, however its caller's request ends: the broker serves as many as ever.
SlotsKept == free + Cardinality(threads) = Slots

\* Nobody is told "no API" while there is a slot for everyone who calls: a burst it has
\* the slots for is served whole.
BurstServed == unjust = {}

\* A speed is told of the outbound it was measured through, unless its switch was answered
\* late, when the next's may be made while it still goes on, or the backend restarted between
\* the switch and the download, which then goes through the first (_test_download, proxy_ctl.py:2112).
SpeedsTold == \A tag \in Tags : cell[tag] \in Tags => cell[tag] = tag \/ late \/ (tag \in undone /\ cell[tag] = First)

\* Only who may route turns what the others' traffic goes through.
RoutingKept == selected.other # {} => "routing" \in selected.other \/ "*" \in selected.other

BrokerHolds == SlotsKept /\ BurstServed /\ SpeedsTold /\ RoutingKept
=============================================================================
