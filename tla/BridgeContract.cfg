\* The library keeps its contract; the worker may wait forever for kyouko.
SPECIFICATION Spec
CONSTANTS
  s1 = s1
  s2 = s2
  s3 = s3
  NoSession = NoSession
  SharedClient = SharedClient
  NoClient = NoClient
  Sessions <- ThreeSessions
  MaxMail = 2
  Env = {"ack_fails", "forward_fails", "stop"}
SYMMETRY Symmetry
CHECK_DEADLOCK FALSE
INVARIANTS TypeOK StreamExclusive LinkedSession OwnedConnection AttachedIsGranted
PROPERTIES TurnsSpec QuietHandover
