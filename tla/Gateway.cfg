\* Every worker may run a websocket, and faults may cost all of them.
SPECIFICATION GatewayFairSpec
CONSTANTS
  k1 = k1
  k2 = k2
  k3 = k3
  w1 = w1
  w2 = w2
  NoSocket = NoSocket
  Server = Server
  Nobody = Nobody
  Sockets <- ThreeSockets
  Workers <- TwoWorkers
  MaxWebsockets = 2
  MaxFaults = 2
  Env = {"start_fails", "accept_fails", "stop"}
CHECK_DEADLOCK FALSE
INVARIANTS GatewayTypeOK OneWorkerPerFault
PROPERTIES ServedDespiteFaults
