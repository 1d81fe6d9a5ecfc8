\* The write of an initial response fails: the turn stays away from the next
\* websocket of the same thread.
SPECIFICATION Spec
CONSTANTS
  s1 = s1
  s2 = s2
  s3 = s3
  NoSession = NoSession
  SharedClient = SharedClient
  NoClient = NoClient
  Sessions <- TwoSessions
  MaxMail = 1
  Env = {"ack_fails"}
CHECK_DEADLOCK FALSE
INVARIANTS FreshSession
