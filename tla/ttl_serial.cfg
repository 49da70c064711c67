CONSTANTS
  Setters = {s1}
  Commands = {cmd}
  Main = main
  Values = {0, 5, 128}
  lan = lan
  mangler = mangler
  increment = increment
  lookalike = lookalike
  Others <- MCOthers
  Carries <- MCCarries
  Legacy = 64
  MaxSets = 3
  MaxFaults = 1
  MaxCrashes = 1
SPECIFICATION Spec
INVARIANTS TypeOK NoPilingUp FileIsRequested
PROPERTY UndisturbedSetSettles
CHECK_DEADLOCK FALSE
