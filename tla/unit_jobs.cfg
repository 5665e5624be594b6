CONSTANTS
  c1 = c1
  c2 = c2
  c3 = c3
  p1 = p1
  p2 = p2
  p3 = p3
  None = None
  Clients = {c1, c2}
  Procs = {p1, p2, p3}
  Type = "simple"
  Restart = "on-failure"
  RemainAfterExit = FALSE
  Requires = TRUE
  Conditional = TRUE
  LoadCredential = TRUE
  Burst = 1
  Verbs <- JobVerbs
SPECIFICATION JobSpec
SYMMETRY Symmetry
INVARIANTS TypeOK OneProcess DownIsDown UpIsUp StopPostOnce SignalsOwnGroup GroupEnded RestartPending
PROPERTIES NotUndone LifeSpec
