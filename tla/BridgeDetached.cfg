\* closeClient does not wait for the callback that is running.
SPECIFICATION Spec
CONSTANTS
  s1 = s1
  s2 = s2
  s3 = s3
  NoSession = NoSession
  SharedClient = SharedClient
  NoClient = NoClient
  Sessions <- TwoSessions
  MaxMail = 1
  Env = {"detached_close"}
CHECK_DEADLOCK FALSE
INVARIANTS LinkedSession
