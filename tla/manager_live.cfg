CONSTANTS
  DayLen = 2
  Months <- MCMonths
  MaxTime = 40
  SizeUnits <- MCUnits
  SpanUnits <- MCUnits
  Null = Null
  Bad = Bad
  Runtime = {"a", "b"}
  Declared = {"d"}
  DeclaredPolicy <- MCDeclaredPolicy
  NameOrder <- MCOrder
  Ips = {1, 2, 3}
  Clients = {"c1", "c2"}
  Scenarios <- MCScenarios
SPECIFICATION LiveSpec

PROPERTIES TermStarts Settles
CHECK_DEADLOCK FALSE
