-------------------------- MODULE MCSupervisorUnit --------------------------
(* Small instances of SupervisorUnit for TLC. *)
EXTENDS SupervisorUnit, TLC

CONSTANTS c1, c2, c3, p1, p2, p3

\* Clients are interchangeable, and so are main processes.
Symmetry == Permutations(Clients) \union Permutations(Procs)

AllVerbs  == {"start", "stop", "restart", "try-restart", "reload", "reset-failed"}
JobVerbs   == AllVerbs \ {"reset-failed"}
LiveVerbs  == {"start", "stop"}
ResetVerbs == {"start", "reset-failed"}
=============================================================================
