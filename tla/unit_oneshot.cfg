CONSTANTS
  c1 = c1
  c2 = c2
  c3 = c3
  p1 = p1
  p2 = p2
  p3 = p3
  None = None
  Clients = {c1, c2, c3}
  Procs = {p1}
  Type = "oneshot"
  Restart = "no"
  RemainAfterExit = FALSE
  Requires = TRUE
  Conditional = FALSE
  LoadCredential = TRUE
  Burst = 0
  Verbs <- AllVerbs
SPECIFICATION Spec
SYMMETRY Symmetry
INVARIANTS ActivatingIsStopped
CHECK_DEADLOCK FALSE
