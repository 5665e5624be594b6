CONSTANTS
  c1 = c1
  c2 = c2
  c3 = c3
  p1 = p1
  p2 = p2
  p3 = p3
  None = None
  Clients = {c1, c2}
  Procs = {p1}
  Type = "simple"
  Restart = "on-failure"
  RemainAfterExit = FALSE
  Requires = TRUE
  Conditional = FALSE
  LoadCredential = FALSE
  Burst = 0
  Verbs <- JobVerbs
SPECIFICATION LiveSpec

PROPERTIES StopReturns RestartEnds ExitReaped
