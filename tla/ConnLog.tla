-------------------------------- MODULE ConnLog --------------------------------
(***************************************************************************)
(* `proxy-ctl debug conns` (src/pkgs/proxy-ctl/proxy_ctl.py): looks at the *)
(* backend's connections once an interval, and says which wait for an      *)
(* answer.  Of a connection it sees the bytes sent and received so far, as *)
(* counts; between two looks it may send, receive, open and close.         *)
(***************************************************************************)
EXTENDS Naturals

CONSTANTS
  Ids, Stall,
  MaxTime, MaxBytes,  \* bounds: when time ends, bytes each way
  MaxOutages,         \* bound: looks the API does not answer
  None

VARIABLES
  now,
  conns,    \* [Ids -> None or [up, down, opened, since: the first send not answered, received]]
  used,     \* ids that were used: an id is one connection's
  live,     \* ConnectionLog.live
  looked,   \* this moment's look is done
  outages,
  blind     \* the last moment it could not look, or the one before it began

vars == <<now, conns, used, live, looked, outages, blind>>

-----------------------------------------------------------------------------
(* The connections                                                          *)

New == [up |-> 0, down |-> 0, opened |-> now, since |-> None, received |-> None]

Change(c, conn) == conns' = [conns EXCEPT ![c] = conn] /\ UNCHANGED <<now, live, looked, outages, blind>>

Open(c) == ~looked /\ c \notin used /\ used' = used \union {c} /\ Change(c, New)
Send(c) ==
  /\ ~looked /\ conns[c] # None /\ conns[c].up < MaxBytes
  /\ Change(c, [conns[c] EXCEPT !.up = @ + 1, !.since = IF @ = None THEN now ELSE @])
  /\ UNCHANGED used
Receive(c) ==
  /\ ~looked /\ conns[c] # None /\ conns[c].down < MaxBytes
  /\ Change(c, [conns[c] EXCEPT !.down = @ + 1, !.since = None, !.received = now])
  /\ UNCHANGED used
Close(c) == ~looked /\ conns[c] # None /\ Change(c, None) /\ UNCHANGED used

-----------------------------------------------------------------------------
(* ConnectionLog.step                                                       *)

Entry == [opened |-> now, up |-> 0, down |-> 0, answered |-> 0, waiting |-> None, stalled |-> FALSE]

\* Mutant: what it sent before the answer is still waited for.
Answered_down(st, conn) == [st EXCEPT !.waiting = None, !.stalled = FALSE]
\* It received since the last look.
Answered(st, conn) == [st EXCEPT !.answered = conn.up, !.waiting = None, !.stalled = FALSE]

\* Mutant: the time starts again with each send.
Waits_again(st, conn) == conn.up > st.up
\* It has sent, and nothing has come: a new connection has waited since it opened.
Waits(st, conn) == conn.up > st.answered /\ st.waiting = None

Judged(st, conn) ==
  LET next == IF conn.down # st.down THEN Answered(st, conn)
              ELSE IF Waits(st, conn) THEN [st EXCEPT !.waiting = IF st.down = 0 THEN st.opened ELSE now]
              ELSE st
      stalls == Stall > 0 /\ next.waiting # None /\ now - next.waiting >= Stall
  IN  [next EXCEPT !.stalled = @ \/ stalls, !.up = conn.up, !.down = conn.down]

\* A look: what is gone is closed, what is new opens.
Look ==
  /\ ~looked /\ looked' = TRUE
  /\ live' = [c \in Ids |-> IF conns[c] = None THEN None
                            ELSE Judged(IF live[c] = None THEN Entry ELSE live[c], conns[c])]
  /\ UNCHANGED <<now, conns, used, outages, blind>>

\* Mutant: what was seen before is kept.
Forgotten_kept == live
\* lost(): the backend did not answer, and may have started again.
Forgotten == [c \in Ids |-> None]

Unanswered ==
  /\ ~looked /\ outages < MaxOutages /\ looked' = TRUE
  /\ outages' = outages + 1 /\ blind' = now /\ live' = Forgotten
  /\ \/ UNCHANGED conns
     \/ conns' = [c \in Ids |-> None]
  /\ UNCHANGED <<now, used>>

\* A backend that starts again may count its connections from the first again.
Reused == blind = now /\ looked /\ used' = {c \in Ids : conns[c] # None} /\ used' # used
          /\ UNCHANGED <<now, conns, live, looked, outages, blind>>

Passes == looked /\ now < MaxTime /\ now' = now + 1 /\ looked' = FALSE /\ UNCHANGED <<conns, used, live, outages, blind>>

-----------------------------------------------------------------------------
Old == [up |-> 1, down |-> 1, opened |-> 0, since |-> None, received |-> 0]

Init ==
  /\ now = 1 /\ looked = FALSE /\ outages = 0 /\ blind = 0
  /\ conns \in [Ids -> {None, Old, [Old EXCEPT !.down = 0, !.since = 0, !.received = None]}]
  /\ used = {c \in Ids : conns[c] # None}
  /\ live = [c \in Ids |-> None]

Next ==
  \/ \E c \in Ids : Open(c) \/ Send(c) \/ Receive(c) \/ Close(c)
  \/ Look \/ Unanswered \/ Reused \/ Passes

-----------------------------------------------------------------------------
\* What it calls stalled waits for an answer, and has for that long: since it sent, or
\* since it opened if nothing was ever received (ConnectionLog, proxy_ctl.py:7531).
StalledWaits ==
  looked => \A c \in Ids : live[c] # None /\ live[c].stalled =>
    /\ conns[c] # None /\ conns[c].since # None
    /\ now - (IF conns[c].received = None THEN conns[c].opened ELSE conns[c].since) >= Stall

\* What waits for that long it calls stalled, unless it sent before the look that showed
\* its last answer (for what was answered before the log began, its first look), or an
\* outage came between.
WaitingStalls ==
  looked /\ blind # now => \A c \in Ids :
    conns[c] # None /\ conns[c].since # None =>
      LET conn == conns[c]
      IN  /\ conn.since > blind
          /\ conn.received # None => conn.received < conn.since /\ conn.since > blind + 1
          /\ now - conn.since >= Stall
          => live[c].stalled

ConnLogHolds == StalledWaits /\ WaitingStalls
=============================================================================
