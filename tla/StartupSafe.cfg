\* Every call of the start may fail, and numbers may not fit.
SPECIFICATION FairSpec
CONSTANTS
  Ports <- SmallPorts
  ThreadCounts <- SmallCounts
  PortValues = 4
  ThreadValues = 4
  Env = {"init", "messaging", "bind", "certificates", "addServer"}
CHECK_DEADLOCK FALSE
INVARIANTS TypeOK ThreadsFindServices NoThreadSurvivesMain
PROPERTIES StartEnds ComesUp
