CONSTANTS
  u1 = u1
  g1 = g1
  g2 = g2
  g3 = g3
  Out = Out
  None = None
  NoSing = NoSing
  Users = {u1}
  Gens = {g1, g2, g3}
  Confs <- Twice
SPECIFICATION FirstSpec
SYMMETRY Symmetry
INVARIANTS OneApply
CHECK_DEADLOCK FALSE
