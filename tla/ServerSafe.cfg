\* Everything may fail; fewer websockets than workers.
SPECIFICATION FairSpec
CONSTANTS
  k1 = k1
  k2 = k2
  k3 = k3
  k4 = k4
  w1 = w1
  w2 = w2
  w3 = w3
  NoSocket = NoSocket
  Server = Server
  Nobody = Nobody
  Sockets <- FourSockets
  Workers <- ThreeWorkers
  MaxWebsockets = 2
  Env = {"start_fails", "accept_fails", "stop"}
CHECK_DEADLOCK FALSE
INVARIANTS TypeOK OneOwner NothingLeaks ContextReady
PROPERTIES PoolSpec EveryConnectionServed
