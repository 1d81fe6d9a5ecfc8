-------------------------------- MODULE Gateway --------------------------------
(***************************************************************************)
(* The http-server and its pool, composed with what runWebsocket does on   *)
(* each worker.  A worker object outlives its websockets, and with it the  *)
(* flag m_waitForInput: a fault in one websocket reaches connections that  *)
(* came later.  The websockets of a worker are those of WebsocketTurns,    *)
(* which WebsocketBridge implements; no thread is stopped in a websocket.  *)
(***************************************************************************)
EXTENDS HttpServer

CONSTANTS MaxFaults    \* faults in the life of the gateway

VARIABLES
  websocket,      \* turn state of each worker
  faults          \* faults so far

bridge == <<websocket, faults>>

ASSUME GatewayAssumption == MaxFaults \in Nat /\ IsFiniteSet(Workers)

Turns == INSTANCE WebsocketTurns

GatewayInit ==
  /\ Init
  /\ websocket = [w \in Workers |-> Turns!Fresh]
  /\ faults = 0

Turn(w, Step(_)) ==
  \E t \in Step(websocket[w]) : websocket' = [websocket EXCEPT ![w] = t]
NoFault == UNCHANGED faults
Fault == faults < MaxFaults /\ faults' = faults + 1

-----------------------------------------------------------------------------
(* The websockets of worker w; the pool notices their begin and their end. *)
OpenSession(w) == ServeWebsocket(w) /\ Turn(w, Turns!Open) /\ NoFault
AwaitTurn(w) == Turn(w, Turns!AwaitTurn) /\ NoFault /\ UNCHANGED vars
ReadMessage(w) == Turn(w, Turns!Read) /\ NoFault /\ UNCHANGED vars

PeerLeavesCaughtInLoop(w) ==
  /\ websocket[w].phase = "read"
  /\ websocket' = [websocket EXCEPT ![w].phase = "turn"]
  /\ NoFault /\ UNCHANGED vars

PeerLeaves(w) == WebsocketEnds(w) /\ Turn(w, Turns!PeerLeaves) /\ NoFault
Respond(w) == Turn(w, Turns!Respond) /\ NoFault /\ UNCHANGED vars
RespondFails(w) == WebsocketEnds(w) /\ Turn(w, Turns!RespondFails) /\ Fault
Forward(w) == Turn(w, Turns!Forward) /\ NoFault /\ UNCHANGED vars
ForwardLost(w) == Turn(w, Turns!ForwardLost) /\ Fault /\ UNCHANGED vars
Answer(w) == Turn(w, Turns!Answer) /\ NoFault /\ UNCHANGED vars

-----------------------------------------------------------------------------
(* What HttpServer does without a websocket.                               *)
PoolProceed(w) ==
  \/ FindEmpty(w) \/ TakeFront(w) \/ PopFront(w)
  \/ ServeRequest(w) \/ DeleteSocket(w)

PoolNext ==
  /\ ServerNext \/ \E w \in Workers : PoolProceed(w) \/ Lock(w) \/ WorkerStops(w)
  /\ UNCHANGED bridge

GatewayProceed(w) ==
  \/ PoolProceed(w) /\ UNCHANGED bridge
  \/ OpenSession(w) \/ AwaitTurn(w) \/ Respond(w) \/ RespondFails(w)
  \/ Forward(w) \/ ForwardLost(w)

GatewayNext ==
  \/ PoolNext
  \/ \E w \in Workers :
       GatewayProceed(w) \/ ReadMessage(w) \/ PeerLeaves(w) \/ Answer(w)

gatewayVars == <<vars, bridge>>
GatewaySpec == GatewayInit /\ [][GatewayNext]_gatewayVars

(* As in HttpServer; besides, kyouko answers, no peer stays forever and    *)
(* every write to a peer ends: only here something is assumed of peers.    *)
GatewayFairness ==
  /\ WF_gatewayVars(PushSocket /\ UNCHANGED bridge)
  /\ \A w \in Workers :
       /\ WF_gatewayVars(GatewayProceed(w)) /\ WF_gatewayVars(Answer(w))
       /\ SF_gatewayVars(Lock(w) /\ UNCHANGED bridge)
       /\ SF_gatewayVars(PeerLeaves(w))
       /\ WF_gatewayVars(ReadMessage(w) \/ PeerLeaves(w))

GatewayFairSpec == GatewaySpec /\ GatewayFairness

-----------------------------------------------------------------------------
GatewayTypeOK ==
  /\ TypeOK
  /\ websocket \in [Workers -> Turns!States]
  /\ faults \in 0 .. MaxFaults

(* A worker that can never again read from a websocket: nothing is under   *)
(* way that would set m_waitForInput.                                      *)
Lame(s) == s.phase \in {"none", "turn"} /\ ~s.waitForInput /\ ~s.due
LameWorkers == {w \in Workers : Lame(websocket[w])}

(* No worker is lost without a fault of its own: a fault in one websocket  *)
(* costs the gateway one worker and never two, although the worker passes  *)
(* its flag on to every websocket after.                                   *)
OneWorkerPerFault == Cardinality(LameWorkers) <= faults

(* As long as there were fewer faults than workers, every queued           *)
(* connection is taken by a worker, however many websockets are opened.    *)
ServedDespiteFaults ==
  [](faults < Cardinality(Workers)) => EveryConnectionServed
=============================================================================
