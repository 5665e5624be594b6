CONSTANTS
  c1 = c1
  c2 = c2
  c3 = c3
  p1 = p1
  p2 = p2
  p3 = p3
  None = None
  Clients = {c1, c2}
  Procs = {p1}
  Type = "oneshot"
  Restart = "no"
  RemainAfterExit = FALSE
  Requires = FALSE
  Conditional = FALSE
  LoadCredential = FALSE
  Burst = 0
  Verbs <- LiveVerbs
SPECIFICATION LiveSpec

PROPERTY WaitSettledEnds
CHECK_DEADLOCK FALSE
