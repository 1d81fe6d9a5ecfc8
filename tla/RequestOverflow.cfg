\* A uri holds an integer that does not fit into an int.
SPECIFICATION FairSpec
CONSTANTS
  w1 = w1
  w2 = w2
  Workers <- OneWorker
  Clients = {"misaki"}
  Targets = {"misaki"}
  NewReply <- NewMessage
  Env = {"overflow"}
CHECK_DEADLOCK FALSE
PROPERTIES AnsweredAnyway
