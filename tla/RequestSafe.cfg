\* Two requests at a time; clients come and go, calls fail.
SPECIFICATION FairSpec
CONSTANTS
  w1 = w1
  w2 = w2
  Workers <- TwoWorkers
  Clients = {"misaki", "kyouko"}
  Targets = {"kyouko"}
  NewReply <- NewMessage
  Env = {"disconnect", "no_reply", "overflow"}
CHECK_DEADLOCK FALSE
INVARIANTS TypeOK Consent OwnAnswer ErrorsLookLikeErrors
PROPERTIES AnsweredWhileAlive
