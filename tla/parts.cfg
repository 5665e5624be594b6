CONSTANTS
  Null = Null
  Bad = Bad
  Off = Off
  p1 = p1
  p2 = p2
  c1 = c1
  c2 = c2
SPECIFICATION Spec
INVARIANTS PoliciesKeep OrphansEnded BoundFollow NoneStuck SpoolFits LocksHold FailoverSettles MovesOneRow EndsAgree ScreensKeepUp 
PROPERTIES StrangersLive
SYMMETRY Symmetry
CHECK_DEADLOCK FALSE
