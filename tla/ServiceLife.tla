----------------------------- MODULE ServiceLife -----------------------------
(***************************************************************************)
(* What the supervisor promises of one service to those who only ask       *)
(* is-active and look at the process table: a state, and whether its main  *)
(* process is there (running or not yet reaped).  No locks, no threads, no *)
(* commands: SupervisorUnit implements it.                                 *)
(***************************************************************************)
VARIABLES phase, running

vars == <<phase, running>>

Down == {"inactive", "failed", "auto-restart"}

Init == phase = "inactive" /\ running = FALSE

\* A start of a unit that is down.
Start ==
    /\ phase \in Down
    /\ phase' = "activating" /\ UNCHANGED running

\* A restart called off or refused, a failure reset, a start refused.
Settle ==
    /\ phase \in Down
    /\ phase' \in {"inactive", "failed"} /\ UNCHANGED running

\* Only an activation starts the main process, and only one.
Launch ==
    /\ phase = "activating" /\ running = FALSE
    /\ running' = TRUE /\ UNCHANGED phase

\* The process ends: by itself, by a stop, or by a start that fails after all.
End ==
    /\ running = TRUE /\ phase \in {"activating", "active", "deactivating"}
    /\ running' = FALSE /\ UNCHANGED phase

Up ==
    /\ phase = "activating"
    /\ phase' = "active" /\ UNCHANGED running

\* A start fails, or a oneshot is over.
Finish ==
    /\ phase = "activating" /\ running = FALSE
    /\ phase' \in {"inactive", "failed"} /\ UNCHANGED running

\* Restart= decides once the process is gone.
Decide ==
    /\ phase = "active" /\ running = FALSE
    /\ phase' \in Down /\ UNCHANGED running

\* A stop takes the unit down whether it is up or still coming up ...
Stop ==
    /\ phase \in {"active", "activating"}
    /\ phase' = "deactivating" /\ UNCHANGED running

\* ... and is over once the process is gone.
Stopped ==
    /\ phase = "deactivating" /\ running = FALSE
    /\ phase' = "inactive" /\ UNCHANGED running

Next == Start \/ Settle \/ Launch \/ End \/ Up \/ Finish \/ Decide \/ Stop \/ Stopped

Spec == Init /\ [][Next]_vars

=============================================================================
