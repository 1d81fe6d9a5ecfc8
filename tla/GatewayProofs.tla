----------------------------- MODULE GatewayProofs -----------------------------
(***************************************************************************)
(* Theorems about Gateway for every number of workers, sockets and faults. *)
(***************************************************************************)
EXTENDS Gateway, HttpServerProofs

(* Of the server the gateway only restricts when a websocket ends, so all  *)
(* theorems about HttpServer hold of it.                                   *)
THEOREM GatewayIsServer == GatewaySpec => Spec
<1>1. GatewayInit => Init
  BY DEF GatewayInit
<1>2. [GatewayNext]_gatewayVars => [Next]_vars
  <2>. SUFFICES ASSUME GatewayNext PROVE [Next]_vars
    BY DEF gatewayVars, vars
  <2>1. CASE PoolNext
    BY <2>1 DEF PoolNext, PoolProceed, Next, WorkerNext, Proceed
  <2>2. ASSUME NEW u \in Workers, GatewayProceed(u) PROVE [Next]_vars
    BY <2>2 DEF GatewayProceed, PoolProceed, OpenSession, AwaitTurn, Respond,
       RespondFails, Forward, ForwardLost, Next, WorkerNext, Proceed
  <2>3. ASSUME NEW u \in Workers, ReadMessage(u) \/ PeerLeaves(u) \/ Answer(u)
        PROVE [Next]_vars
    BY <2>3 DEF ReadMessage, PeerLeaves, Answer, Next, WorkerNext
  <2>. QED
    BY <2>1, <2>2, <2>3 DEF GatewayNext
<1>. QED
  BY <1>1, <1>2, PTL DEF GatewaySpec, Spec

-----------------------------------------------------------------------------
(* While a worker reads it has the turn, and it forwards only to a backend. *)
Sound(s) ==
  /\ s \in Turns!States
  /\ s.phase = "read" => s.waitForInput
  /\ s.phase = "forward" => s.client # "none"

(* The steps of one worker's websockets: only a fault makes it lame.       *)
LEMMA TurnSteps ==
  ASSUME NEW s, Sound(s)
  PROVE  /\ \A t \in Turns!Open(s) \cup Turns!AwaitTurn(s) \cup Turns!Read(s)
                     \cup Turns!PeerLeaves(s) \cup Turns!Respond(s)
                     \cup Turns!Forward(s) \cup Turns!Answer(s) :
              Sound(t) /\ (Lame(t) => Lame(s))
         /\ \A t \in Turns!RespondFails(s) \cup Turns!ForwardLost(s) : Sound(t)
<1>. USE DEF Sound, Lame, Turns!States, Turns!Phases, Turns!Backends, Turns!When,
     Turns!Ended, Turns!Fresh
<1>1. \A t \in Turns!Open(s) : Sound(t) /\ (Lame(t) => Lame(s))
  BY DEF Turns!Open
<1>2. \A t \in Turns!AwaitTurn(s) : Sound(t) /\ (Lame(t) => Lame(s))
  BY DEF Turns!AwaitTurn
<1>3. \A t \in Turns!Read(s) : Sound(t) /\ (Lame(t) => Lame(s))
  <2>1. CASE s.client = "none"
    BY <2>1 DEF Turns!Read
  <2>2. CASE s.client # "none"
    BY <2>2 DEF Turns!Read
  <2>. QED
    BY <2>1, <2>2
<1>4. \A t \in Turns!PeerLeaves(s) : Sound(t) /\ (Lame(t) => Lame(s))
  BY DEF Turns!PeerLeaves
<1>5. \A t \in Turns!Respond(s) : Sound(t) /\ (Lame(t) => Lame(s))
  BY DEF Turns!Respond
<1>6. \A t \in Turns!Forward(s) : Sound(t) /\ (Lame(t) => Lame(s))
  BY DEF Turns!Forward
<1>7. \A t \in Turns!Answer(s) : Sound(t) /\ (Lame(t) => Lame(s))
  BY DEF Turns!Answer
<1>8. \A t \in Turns!RespondFails(s) : Sound(t)
  BY DEF Turns!RespondFails
<1>9. \A t \in Turns!ForwardLost(s) : Sound(t)
  BY DEF Turns!ForwardLost
<1>. QED
  BY <1>1, <1>2, <1>3, <1>4, <1>5, <1>6, <1>7, <1>8, <1>9

-----------------------------------------------------------------------------
GatewayInv ==
  /\ websocket = [w \in Workers |-> websocket[w]]
  /\ \A w \in Workers : Sound(websocket[w])
  /\ faults \in 0 .. MaxFaults

(* Faults are counted one by one, and each makes at most one worker lame.  *)
Fewer == LameWorkers' \subseteq LameWorkers /\ faults' = faults
OneMore(w) == LameWorkers' \subseteq LameWorkers \cup {w} /\ faults' = faults + 1

LEMMA BridgeSteps ==
  ASSUME GatewayInv, [GatewayNext]_gatewayVars
  PROVE  GatewayInv' /\ (Fewer \/ \E w \in Workers : OneMore(w))
<1>. USE GatewayAssumption DEF GatewayAssumption, GatewayInv, LameWorkers, Fault, NoFault
<1>1. ASSUME UNCHANGED bridge PROVE GatewayInv' /\ Fewer
  BY <1>1 DEF bridge, Fewer
<1>2. ASSUME NEW u \in Workers, NEW t, websocket' = [websocket EXCEPT ![u] = t],
             NoFault, Sound(t), Lame(t) => Lame(websocket[u])
      PROVE  GatewayInv' /\ Fewer
  BY <1>2 DEF Fewer
<1>3. ASSUME NEW u \in Workers, NEW t, websocket' = [websocket EXCEPT ![u] = t],
             Fault, Sound(t)
      PROVE  GatewayInv' /\ OneMore(u)
  BY <1>3 DEF OneMore
<1>4. ASSUME NEW u \in Workers,
             \/ OpenSession(u) \/ AwaitTurn(u) \/ ReadMessage(u) \/ PeerLeaves(u)
             \/ Respond(u) \/ Forward(u) \/ Answer(u)
      PROVE  GatewayInv' /\ Fewer
  <2>1. PICK t \in Turns!Open(websocket[u]) \cup Turns!AwaitTurn(websocket[u])
                  \cup Turns!Read(websocket[u]) \cup Turns!PeerLeaves(websocket[u])
                  \cup Turns!Respond(websocket[u]) \cup Turns!Forward(websocket[u])
                  \cup Turns!Answer(websocket[u]) :
          websocket' = [websocket EXCEPT ![u] = t] /\ NoFault
    BY <1>4 DEF OpenSession, AwaitTurn, ReadMessage, PeerLeaves, Respond, Forward,
       Answer, Turn
  <2>2. Sound(t) /\ (Lame(t) => Lame(websocket[u]))
    BY TurnSteps
  <2>. QED
    BY <1>2, <2>1, <2>2
<1>5. ASSUME NEW u \in Workers, RespondFails(u) \/ ForwardLost(u)
      PROVE  GatewayInv' /\ OneMore(u)
  <2>1. PICK t \in Turns!RespondFails(websocket[u]) \cup Turns!ForwardLost(websocket[u]) :
          websocket' = [websocket EXCEPT ![u] = t] /\ Fault
    BY <1>5 DEF RespondFails, ForwardLost, Turn
  <2>2. Sound(t)
    BY TurnSteps
  <2>. QED
    BY <1>3, <2>1, <2>2
<1>. QED
  BY <1>1, <1>4, <1>5 DEF GatewayNext, PoolNext, GatewayProceed, gatewayVars

LEMMA BridgeInvariant == GatewaySpec => [](GatewayInv /\ OneWorkerPerFault)
<1>1. GatewayInit => GatewayInv /\ OneWorkerPerFault
  <2>. SUFFICES ASSUME GatewayInit PROVE GatewayInv /\ OneWorkerPerFault
    OBVIOUS
  <2>1. GatewayInv
    BY GatewayAssumption DEF GatewayAssumption, GatewayInit, GatewayInv, Sound,
       Turns!States, Turns!Fresh, Turns!Phases, Turns!Backends
  <2>2. LameWorkers = {}
    BY DEF GatewayInit, LameWorkers, Lame, Turns!Fresh
  <2>3. Cardinality({}) = 0
    BY FS_EmptySet
  <2>4. OneWorkerPerFault
    BY <2>2, <2>3 DEF GatewayInit, OneWorkerPerFault
  <2>. QED
    BY <2>1, <2>4
<1>2. GatewayInv /\ OneWorkerPerFault /\ [GatewayNext]_gatewayVars
        => (GatewayInv /\ OneWorkerPerFault)'
  <2>. SUFFICES ASSUME GatewayInv, OneWorkerPerFault, [GatewayNext]_gatewayVars
                PROVE  GatewayInv' /\ OneWorkerPerFault'
    OBVIOUS
  <2>1. GatewayInv' /\ (Fewer \/ \E w \in Workers : OneMore(w))
    BY BridgeSteps
  <2>2. IsFiniteSet(LameWorkers)
    BY GatewayAssumption, FS_Subset DEF GatewayAssumption, LameWorkers
  <2>3. Cardinality(LameWorkers) \in Nat /\ faults \in Nat
    BY <2>2, FS_CardinalityType, GatewayAssumption
    DEF GatewayAssumption, GatewayInv
  <2>4. CASE Fewer
    <3>1. Cardinality(LameWorkers') <= Cardinality(LameWorkers) /\ IsFiniteSet(LameWorkers')
      BY <2>2, <2>4, FS_Subset DEF Fewer
    <3>2. Cardinality(LameWorkers') \in Nat
      BY <3>1, FS_CardinalityType
    <3>. QED
      BY <2>1, <2>3, <2>4, <3>1, <3>2 DEF Fewer, OneWorkerPerFault
  <2>5. ASSUME NEW w \in Workers, OneMore(w) PROVE OneWorkerPerFault'
    <3>. DEFINE More == LameWorkers \cup {w}
    <3>1. IsFiniteSet(More) /\ Cardinality(More) <= Cardinality(LameWorkers) + 1
      <4>1. /\ IsFiniteSet(More)
            /\ Cardinality(More) = IF w \in LameWorkers THEN Cardinality(LameWorkers)
                                    ELSE Cardinality(LameWorkers) + 1
        BY <2>2, FS_AddElement
      <4>. HIDE DEF More
      <4>. QED
        BY <2>3, <4>1
    <3>2. LameWorkers' \subseteq More
      BY <2>5 DEF OneMore
    <3>. HIDE DEF More
    <3>3. IsFiniteSet(LameWorkers') /\ Cardinality(LameWorkers') <= Cardinality(More)
      BY <3>1, <3>2, FS_Subset
    <3>4. Cardinality(LameWorkers') \in Nat /\ Cardinality(More) \in Nat
      BY <3>1, <3>3, FS_CardinalityType
    <3>. QED
      BY <2>3, <2>5, <3>1, <3>3, <3>4 DEF OneMore, OneWorkerPerFault
  <2>. QED
    BY <2>1, <2>4, <2>5
<1>. QED
  BY <1>1, <1>2, PTL DEF GatewaySpec

(* Every variable of the composition keeps its type.                       *)
THEOREM GatewayTypeCorrect == GatewaySpec => []GatewayTypeOK
<1>1. TypeOK /\ GatewayInv => GatewayTypeOK
  BY DEF GatewayInv, Sound, GatewayTypeOK
<1>. QED
  BY <1>1, GatewayIsServer, TypeCorrect, BridgeInvariant, PTL

(* However many websockets come and go on however many workers, a fault    *)
(* makes at most one worker useless for websockets.                        *)
THEOREM FaultsCostOneWorker == GatewaySpec => []OneWorkerPerFault
BY BridgeInvariant, PTL

(* In the composition, too, no socket is shared or used after its deletion.*)
THEOREM GatewaySocketsHaveOneOwner == GatewaySpec => []OneOwner
BY GatewayIsServer, SocketsHaveOneOwner, PTL

(* And however many workers are stuck in their websockets, connections are *)
(* handed out in the order of their arrival, each to one worker.           *)
THEOREM GatewayHandsOutInOrder == GatewaySpec => PoolSpec
BY GatewayIsServer, HandsOutInOrder, PTL

-----------------------------------------------------------------------------
(* The gateway as what it is made of: the server, one bridge per worker of *)
(* which only WebsocketTurns is known, and the rule that ties them, that a *)
(* worker is in a session of the pool exactly while its bridge has one.    *)
Coupled == \A w \in Workers : workerPc[w] = "session" <=> websocket[w].phase # "none"

Faultless(s) ==
  Turns!Open(s) \cup Turns!AwaitTurn(s) \cup Turns!Read(s) \cup Turns!PeerLeaves(s)
  \cup Turns!Respond(s) \cup Turns!Forward(s) \cup Turns!Answer(s)
Faulty(s) == Turns!RespondFails(s) \cup Turns!ForwardLost(s)

(* A bridge takes any turn but that of a stopped thread, faults are        *)
(* counted, and no other thread steps at the same time.                    *)
TakesTurn(w, t) ==
  /\ websocket' = [websocket EXCEPT ![w] = t]
  /\ t \in Turns!Next(websocket[w]) \ {Turns!Stopped}
  /\ (NoFault /\ t \in Faultless(websocket[w])) \/ (Fault /\ t \in Faulty(websocket[w]))
  /\ (t.phase = "none" <=> websocket[w].phase = "none") => UNCHANGED vars

BridgesStep == UNCHANGED bridge \/ \E w \in Workers : \E t \in Turns!States : TakesTurn(w, t)

Composition ==
  /\ Spec
  /\ websocket = [w \in Workers |-> Turns!Fresh] /\ faults = 0
  /\ [][BridgesStep]_gatewayVars
  /\ []Coupled

LEMMA EntersSession ==
  ASSUME TypeOK, [Next]_vars, NEW w \in Workers,
         workerPc[w] # "session", workerPc'[w] = "session"
  PROVE  ServeWebsocket(w)
<1>1. PICK u \in Workers : WorkerNext(u)
  BY DEF Next, ServerNext, StartServer, StartFails, CreateSocket, Accept,
     AcceptFails, LockToAdd, PushSocket, ServerStops, vars
<1>2. u = w
  BY <1>1 DEF TypeOK, WorkerNext, Proceed, FindEmpty, TakeFront, PopFront,
     ServeRequest, ServeWebsocket, DeleteSocket, Lock, WebsocketEnds, WorkerStops, Goto
<1>. QED
  BY <1>1, <1>2 DEF TypeOK, WorkerNext, Proceed, FindEmpty, TakeFront, PopFront,
     ServeRequest, DeleteSocket, Lock, WebsocketEnds, WorkerStops, Goto

LEMMA LeavesSession ==
  ASSUME TypeOK, [Next]_vars, NEW w \in Workers,
         workerPc[w] = "session", workerPc'[w] # "session"
  PROVE  WebsocketEnds(w)
<1>1. PICK u \in Workers : WorkerNext(u)
  BY DEF Next, ServerNext, StartServer, StartFails, CreateSocket, Accept,
     AcceptFails, LockToAdd, PushSocket, ServerStops, vars
<1>2. u = w
  BY <1>1 DEF TypeOK, WorkerNext, Proceed, FindEmpty, TakeFront, PopFront,
     ServeRequest, ServeWebsocket, DeleteSocket, Lock, WebsocketEnds, WorkerStops, Goto
<1>. QED
  BY <1>1, <1>2 DEF WorkerNext, Proceed, FindEmpty, TakeFront, PopFront,
     ServeRequest, ServeWebsocket, DeleteSocket, Lock, WorkerStops, Goto

(* Only these turns leave a session as open or as closed as it was.        *)
LEMMA StaysInSession ==
  ASSUME NEW s \in Turns!States,
         NEW t \in Turns!AwaitTurn(s) \cup Turns!Read(s) \cup Turns!Respond(s)
                  \cup Turns!Forward(s) \cup Turns!ForwardLost(s) \cup Turns!Answer(s)
  PROVE  t.phase = "none" <=> s.phase = "none"
<1>. USE DEF Turns!States, Turns!When
<1>1. CASE t \in Turns!Read(s)
  <2>1. CASE s.client = "none"
    BY <1>1, <2>1 DEF Turns!Read
  <2>2. CASE s.client # "none"
    BY <1>1, <2>2 DEF Turns!Read
  <2>. QED
    BY <2>1, <2>2
<1>2. CASE t \in Turns!AwaitTurn(s) \cup Turns!Answer(s)
  BY <1>2 DEF Turns!AwaitTurn, Turns!Answer
<1>3. CASE t \in Turns!Respond(s)
  BY <1>3 DEF Turns!Respond
<1>4. CASE t \in Turns!Forward(s) \cup Turns!ForwardLost(s)
  BY <1>4 DEF Turns!Forward, Turns!ForwardLost
<1>. QED
  BY <1>1, <1>2, <1>3, <1>4

(* Whatever the bridges may do in a step, the gateway may do.              *)
LEMMA GatewayAllows ==
  ASSUME TypeOK, GatewayInv, Coupled, Coupled', [Next]_vars, [BridgesStep]_gatewayVars
  PROVE  [GatewayNext]_gatewayVars
<1>. USE DEF GatewayInv, Sound
<1>1. CASE UNCHANGED bridge
  <2>1. SUFFICES ASSUME Next PROVE GatewayNext
    BY <1>1 DEF gatewayVars
  <2>2. \A u \in Workers : ~ServeWebsocket(u) /\ ~WebsocketEnds(u)
    BY <1>1 DEF bridge, Coupled, TypeOK, ServeWebsocket, WebsocketEnds, Goto
  <2>. QED
    BY <1>1, <2>1, <2>2 DEF Next, WorkerNext, Proceed, GatewayNext, PoolNext, PoolProceed
<1>2. ASSUME NEW w \in Workers, NEW t \in Turns!States, TakesTurn(w, t)
      PROVE  GatewayNext
  <2>. DEFINE s == websocket[w]
  <2>1. s \in Turns!States /\ websocket'[w] = t
    BY <1>2 DEF TakesTurn
  <2>2. \/ NoFault /\ t \in Faultless(s)
        \/ Fault /\ t \in Faulty(s)
    BY <1>2 DEF TakesTurn
  <2>3. CASE s.phase = "none" /\ t.phase # "none"
    <3>1. ServeWebsocket(w)
      BY <2>1, <2>3, EntersSession DEF Coupled
    <3>2. NoFault /\ t \in Turns!Open(s)
      BY <2>1, <2>2, <2>3 DEF Faultless, Faulty, Turns!When, Turns!States,
         Turns!AwaitTurn, Turns!Read, Turns!PeerLeaves, Turns!Respond, Turns!Forward,
         Turns!Answer, Turns!RespondFails, Turns!ForwardLost
    <3>. QED
      BY <1>2, <3>1, <3>2 DEF TakesTurn, GatewayNext, GatewayProceed, OpenSession, Turn
  <2>4. CASE s.phase # "none" /\ t.phase = "none"
    <3>1. WebsocketEnds(w)
      BY <2>1, <2>4, LeavesSession DEF Coupled
    <3>2. t \notin Turns!ForwardLost(s)
      BY <2>1, <2>4 DEF Turns!When, Turns!States, Turns!ForwardLost
    <3>3. t \in Faultless(s) => t \in Turns!PeerLeaves(s)
      BY <2>1, <2>4, StaysInSession DEF Faultless, Turns!When, Turns!Open
    <3>. QED
      BY <1>2, <2>2, <3>1, <3>2, <3>3
      DEF TakesTurn, Faulty, GatewayNext, GatewayProceed, PeerLeaves, RespondFails, Turn
  <2>5. CASE t.phase = "none" <=> s.phase = "none"
    <3>1. UNCHANGED vars
      BY <1>2, <2>5 DEF TakesTurn
    <3>2. t \notin Turns!Open(s)
      BY <2>1, <2>5 DEF Turns!When, Turns!States, Turns!Open
    <3>3. t \notin Turns!PeerLeaves(s) \cup Turns!RespondFails(s)
      <4>1. Turns!Ended(s).phase = "none"
        BY DEF Turns!Ended, Turns!Fresh
      <4>. QED
        BY <2>5, <4>1 DEF Turns!When, Turns!PeerLeaves, Turns!RespondFails
    <3>. QED
      BY <1>2, <2>2, <3>1, <3>2, <3>3
      DEF TakesTurn, Faultless, Faulty, GatewayNext, GatewayProceed, AwaitTurn,
         ReadMessage, Respond, Forward, ForwardLost, Answer, Turn
  <2>. QED
    BY <2>3, <2>4, <2>5
<1>. QED
  BY <1>1, <1>2 DEF BridgesStep, gatewayVars, bridge

(* And whatever the gateway does is a step of its parts.                   *)
LEMMA GatewayComposes ==
  ASSUME TypeOK, GatewayInv, Coupled, GatewayInv', [GatewayNext]_gatewayVars
  PROVE  [BridgesStep]_gatewayVars /\ Coupled'
<1>. USE DEF GatewayInv, Sound
<1>1. CASE UNCHANGED gatewayVars
  BY <1>1 DEF gatewayVars, vars, bridge, Coupled
<1>2. CASE PoolNext
  <2>1. BridgesStep
    BY <1>2 DEF PoolNext, BridgesStep
  <2>2. ASSUME ServerNext PROVE Coupled'
    <3>1. websocket' = websocket
      BY <1>2 DEF PoolNext, bridge
    <3>2. workerPc' = workerPc
      BY <2>2 DEF ServerNext, StartServer, StartFails, CreateSocket, Accept,
         AcceptFails, LockToAdd, PushSocket, ServerStops
    <3>. QED
      BY <3>1, <3>2 DEF Coupled
  <2>3. ASSUME NEW u \in Workers, PoolProceed(u) \/ Lock(u) \/ WorkerStops(u)
        PROVE  Coupled'
    <3>1. websocket' = websocket
      BY <1>2 DEF PoolNext, bridge
    <3>2. \A w \in Workers : workerPc'[w] = "session" <=> workerPc[w] = "session"
      BY <2>3 DEF TypeOK, PoolProceed, FindEmpty, TakeFront, PopFront,
         ServeRequest, DeleteSocket, Lock, WorkerStops, Goto
    <3>. QED
      BY <3>1, <3>2 DEF Coupled
  <2>. QED
    BY <1>2, <2>1, <2>2, <2>3 DEF PoolNext
<1>3. ASSUME NEW w \in Workers, NEW t, websocket' = [websocket EXCEPT ![w] = t],
             \/ NoFault /\ t \in Faultless(websocket[w])
             \/ Fault /\ t \in Faulty(websocket[w]),
             \/ UNCHANGED vars /\ (t.phase = "none" <=> websocket[w].phase = "none")
             \/ ServeWebsocket(w) /\ t.phase # "none" /\ websocket[w].phase = "none"
             \/ WebsocketEnds(w) /\ t.phase = "none" /\ websocket[w].phase # "none"
      PROVE  [BridgesStep]_gatewayVars /\ Coupled'
  <2>1. websocket'[w] = t /\ t \in Turns!States
    BY <1>3
  <2>2. t \in Turns!Next(websocket[w]) \ {Turns!Stopped}
    BY <1>3, <2>1 DEF Faultless, Faulty, Turns!Next, Turns!States, Turns!Phases,
       Turns!Stopped, Turns!Fresh
  <2>3. TakesTurn(w, t)
    BY <1>3, <2>2 DEF TakesTurn
  <2>4. Coupled'
    BY <1>3, <2>1 DEF Coupled, TypeOK, vars, ServeWebsocket, WebsocketEnds, Goto
  <2>. QED
    BY <2>1, <2>3, <2>4 DEF BridgesStep
<1>4. ASSUME NEW w \in Workers,
             \/ OpenSession(w) \/ PeerLeaves(w) \/ RespondFails(w)
      PROVE  [BridgesStep]_gatewayVars /\ Coupled'
  <2>. DEFINE s == websocket[w]
  <2>1. s \in Turns!States
    OBVIOUS
  <2>2. CASE OpenSession(w)
    <3>1. PICK t \in Turns!Open(s) : websocket' = [websocket EXCEPT ![w] = t]
      BY <2>2 DEF OpenSession, Turn
    <3>2. s.phase = "none" /\ t.phase # "none"
      BY <2>1, <3>1 DEF Turns!Open, Turns!When, Turns!States
    <3>. QED
      BY <1>3, <2>2, <3>1, <3>2 DEF OpenSession, Faultless
  <2>3. CASE PeerLeaves(w)
    <3>1. PICK t \in Turns!PeerLeaves(s) : websocket' = [websocket EXCEPT ![w] = t]
      BY <2>3 DEF PeerLeaves, Turn
    <3>2. s.phase # "none" /\ t.phase = "none"
      BY <2>1, <3>1 DEF Turns!PeerLeaves, Turns!When, Turns!States, Turns!Ended,
         Turns!Fresh
    <3>. QED
      BY <1>3, <2>3, <3>1, <3>2 DEF PeerLeaves, Faultless
  <2>4. CASE RespondFails(w)
    <3>1. PICK t \in Turns!RespondFails(s) : websocket' = [websocket EXCEPT ![w] = t]
      BY <2>4 DEF RespondFails, Turn
    <3>2. s.phase # "none" /\ t.phase = "none"
      BY <2>1, <3>1 DEF Turns!RespondFails, Turns!When, Turns!States, Turns!Ended,
         Turns!Fresh
    <3>. QED
      BY <1>3, <2>4, <3>1, <3>2 DEF RespondFails, Faulty
  <2>. QED
    BY <1>4, <2>2, <2>3, <2>4
<1>5. ASSUME NEW w \in Workers,
             \/ AwaitTurn(w) \/ ReadMessage(w) \/ Respond(w) \/ Forward(w)
             \/ ForwardLost(w) \/ Answer(w)
      PROVE  [BridgesStep]_gatewayVars /\ Coupled'
  <2>. DEFINE s == websocket[w]
  <2>1. PICK t \in Turns!AwaitTurn(s) \cup Turns!Read(s) \cup Turns!Respond(s)
                   \cup Turns!Forward(s) \cup Turns!ForwardLost(s) \cup Turns!Answer(s) :
          /\ websocket' = [websocket EXCEPT ![w] = t] /\ UNCHANGED vars
          /\ \/ NoFault /\ t \in Faultless(s)
             \/ Fault /\ t \in Faulty(s)
    BY <1>5 DEF AwaitTurn, ReadMessage, Respond, Forward, ForwardLost, Answer, Turn,
       Faultless, Faulty
  <2>2. s \in Turns!States
    OBVIOUS
  <2>3. t.phase = "none" <=> s.phase = "none"
    BY <2>1, <2>2, StaysInSession
  <2>. QED
    BY <1>3, <2>1, <2>3
<1>. QED
  BY <1>1, <1>2, <1>4, <1>5 DEF GatewayNext, GatewayProceed, PoolNext

(* The gateway is its server and its bridges and nothing else: it allows   *)
(* every turn a bridge may take, in every worker and in any order, as long *)
(* as faults are counted, and the pool sees a session end when its bridge  *)
(* does.  What holds of GatewaySpec holds of the composition.              *)
THEOREM GatewayIsComposition == GatewaySpec <=> Composition
<1>1. GatewayInit <=> Init /\ websocket = [w \in Workers |-> Turns!Fresh] /\ faults = 0
  BY DEF GatewayInit
<1>2. GatewayInit => Coupled /\ GatewayInv
  <2>1. Turns!Fresh \in Turns!States /\ Turns!Fresh.phase = "none"
    BY DEF Turns!States, Turns!Fresh, Turns!Phases, Turns!Backends
  <2>. QED
    BY <2>1, GatewayAssumption
    DEF GatewayAssumption, GatewayInit, Init, Coupled, GatewayInv, Sound
<1>3. GatewayInv /\ [GatewayNext]_gatewayVars => GatewayInv'
  BY BridgeSteps
<1>4. TypeOK /\ GatewayInv /\ Coupled /\ GatewayInv' /\ [GatewayNext]_gatewayVars
      => [BridgesStep]_gatewayVars /\ Coupled'
  BY GatewayComposes
<1>5. /\ TypeOK /\ GatewayInv /\ Coupled /\ Coupled' /\ [Next]_vars
      /\ [BridgesStep]_gatewayVars
      => [GatewayNext]_gatewayVars
  BY GatewayAllows
<1>6. GatewaySpec => Composition
  BY <1>1, <1>2, <1>3, <1>4, GatewayIsServer, TypeCorrect, PTL
  DEF GatewaySpec, Composition
<1>7. Composition => GatewaySpec
  BY <1>1, <1>2, <1>3, <1>5, TypeCorrect, PTL DEF GatewaySpec, Composition, Spec
<1>. QED
  BY <1>6, <1>7
=============================================================================
