\* The server thread cannot bind its port.
SPECIFICATION Spec
CONSTANTS
  Ports <- FewPorts
  ThreadCounts <- FewCounts
  PortValues = 4
  ThreadValues = 4
  Env = {"bind"}
CHECK_DEADLOCK FALSE
INVARIANTS InitReports
