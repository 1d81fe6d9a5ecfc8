\* Messages to kyouko may be lost and threads may be stopped, nothing else fails.
SPECIFICATION FairSpec
CONSTANTS
  s1 = s1
  s2 = s2
  s3 = s3
  NoSession = NoSession
  SharedClient = SharedClient
  NoClient = NoClient
  Sessions <- TwoSessions
  MaxMail = 2
  Env = {"forward_fails", "stop"}
CHECK_DEADLOCK FALSE
INVARIANTS FreshSession
PROPERTIES DuplexSpec TurnReturns SessionCloses StopsUnlessWaiting
