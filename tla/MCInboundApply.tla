--------------------------- MODULE MCInboundApply ---------------------------
(* Small instances of InboundApply for TLC. *)
EXTENDS InboundApply, TLC

CONSTANTS u1, g1, g2, g3

Symmetry == Permutations(Gens)

Least == [creds |-> {1}, shapes |-> {1}, rules |-> {1}, sings |-> {NoSing}, tokens |-> {1}, ips |-> {},
          awg |-> TRUE, may |-> {"api"}, changes |-> 1, downs |-> 0, crashes |-> 0]

\* Changes of every kind with a unit that stays up.
Changing == [Least EXCEPT !.creds = {1, 2}, !.shapes = {1, 2}, !.rules = {1, 2},
                          !.may = {"api", "outputs", "render"}, !.changes = 2]

\* One change among stops, crashes and failures.
Failing  == [Least EXCEPT !.sings = {NoSing, 1, 2}, !.ips = {1}, !.downs = 1, !.crashes = 1,
                          !.may = {"api", "outputs", "restart", "render", "prepare", "cut", "traffic"}]

Safe  == {Changing, Failing}
Live  == {[Least EXCEPT !.rules = {1, 2}, !.downs = 1]}
Twice == {[Least EXCEPT !.shapes = {1, 2}, !.awg = FALSE, !.may = {"parallel"}, !.changes = 2]}

\* Rules, links and listeners have no order: one of each to start from is enough.
FirstInit == Init /\ want.shape = 1 /\ want.rules = 1 /\ want.token = 1
FirstSpec == FirstInit /\ [][Next]_vars

\* ... and everybody there at first.
ServedInit     == FirstInit /\ \A u \in Users : want.users[u] # Out
ServedLiveSpec == ServedInit /\ [][Next]_vars /\ Fairness
=============================================================================
