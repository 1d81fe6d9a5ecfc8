------------------------- MODULE WebsocketBridgeProofs -------------------------
(***************************************************************************)
(* Theorems about WebsocketBridge for every set of sessions, every bound   *)
(* on the mail and every environment Env allows.                           *)
(***************************************************************************)
EXTENDS WebsocketBridge, TLAPS

(* Where the worker is while a session may own a client, and after the     *)
(* initial response of an accepted session.                                *)
Answered == {"loop", "spin", "read", "forward", "end", "close", "join"}
MayOwn == {"register", "ack"} \cup Answered

(* Who owns which client: holds whatever the environment does.             *)
ClientInv ==
  /\ live <=> pc \notin {"idle", "done"}
  /\ live => webSocket \in Sessions
  /\ client # NoClient => pc \in MayOwn /\ granted = target
  /\ client \in Sessions => client = webSocket /\ target = "kyouko"
  /\ client \in Sessions => live /\ (IsOpen(client) <=> pc # "join")
  /\ client = SharedClient => target = "shiori"
  /\ pc = "register" => client \in Sessions
  /\ pc = "forward" => client # NoClient
  /\ pc = "attach" => granted = target

Ownership == ClientInv /\ OwnedConnection

(* How the callback of the session's client relates to the worker: holds   *)
(* under LibraryContract.                                                  *)
CallbackInv ==
  \A c \in Sessions :
    /\ mail[c] > 0 => asked[c]
    /\ cb[c] # "none" =>
         asked[c] /\ client = c /\ (conn[c] = "linked" \/ (conn[c] = "closed" /\ pc = "join"))
    /\ asked[c] => conn[c] # "none"
    /\ asked[c] /\ IsOpen(c) => pc \in Answered
    /\ cb[c] = "write" => ~waitForInput
    /\ cb[c] = "check" => ~waitForInput \/ websocketClosed

(* What the worker knows at its program points.                            *)
TurnInv ==
  /\ websocketClosed => pc \in {"idle", "accept", "start", "close", "join", "over", "done"}
  /\ pc = "read" => waitForInput
  /\ live /\ client = NoClient /\ pc # "over" => conn[webSocket] = "none"

Handshake == CallbackInv /\ TurnInv

-----------------------------------------------------------------------------
(* Every variable keeps its type: TypeOK is an invariant of the bridge.    *)
THEOREM TypeCorrect == Spec => []TypeOK
<1>1. Init => TypeOK
  <2>. SUFFICES ASSUME Init PROVE TypeOK
    OBVIOUS
  <2>1. conn \in [Sessions \cup {SharedClient} -> ConnState]
    BY DEF Init, ConnState
  <2>2. mail \in [Sessions -> 0 .. MaxMail]
    BY BridgeAssumption DEF Init, BridgeAssumption
  <2>3. cb \in [Sessions -> CallbackPc] /\ asked \in [Sessions -> BOOLEAN]
    BY DEF Init, CallbackPc
  <2>. QED
    BY <2>1, <2>2, <2>3 DEF Init, TypeOK, WorkerPc, NoTarget
<1>2. TypeOK /\ [Next]_vars => TypeOK'
  <2>. SUFFICES ASSUME TypeOK, [Next]_vars PROVE TypeOK'
    OBVIOUS
  <2>. USE BridgeAssumption DEF TypeOK, flags, stream, login, kyouko
  <2>1. CASE AcceptFails
    BY <2>1 DEF AcceptFails, Goto, WorkerPc
  <2>2. CASE AcceptWebsocket
    BY <2>2 DEF AcceptWebsocket, Goto, WorkerPc
  <2>3. CASE ThreadEnds
    BY <2>3 DEF ThreadEnds, Goto, WorkerPc
  <2>4. CASE StartWebsocket
    BY <2>4 DEF StartWebsocket, Goto, WorkerPc
  <2>5. CASE LoopTop
    BY <2>5 DEF LoopTop, WorkerPc
  <2>6. CASE AwaitTurn
    BY <2>6 DEF AwaitTurn, WorkerPc
  <2>7. CASE ReadMessage
    BY <2>7 DEF ReadMessage, WorkerPc
  <2>8. CASE ReadFails
    BY <2>8 DEF ReadFails, Goto, WorkerPc
  <2>9. CASE AckSent
    BY <2>9 DEF AckSent, Goto, WorkerPc
  <2>10. CASE AckFails
    BY <2>10 DEF AckFails, Goto, WorkerPc
  <2>11. CASE ForwardMessage
    BY <2>11 DEF ForwardMessage, Goto, TurnAfterForward, WorkerPc
  <2>12. CASE EndSession
    BY <2>12 DEF EndSession, Goto, WorkerPc
  <2>13. CASE ParseInitial
    BY <2>13 DEF ParseInitial, WorkerPc
  <2>14. CASE CheckPermission
    BY <2>14 DEF CheckPermission, WorkerPc, Targets, NoTarget
  <2>15. CASE AttachShiori
    BY <2>15 DEF AttachShiori, Goto, WorkerPc
  <2>16. CASE AttachKyouko
    <3>1. conn' \in [Sessions \cup {SharedClient} -> ConnState]
      BY <2>16 DEF AttachKyouko, ConnState
    <3>. QED
      BY <2>16, <3>1 DEF AttachKyouko, Goto, WorkerPc
  <2>17. CASE AttachRefused
    BY <2>17 DEF AttachRefused, Goto, WorkerPc
  <2>18. CASE RegisterCallback
    <3>1. conn' \in [Sessions \cup {SharedClient} -> ConnState]
      BY <2>18 DEF RegisterCallback, ConnState
    <3>. QED
      BY <2>18, <3>1 DEF RegisterCallback, Goto, WorkerPc
  <2>19. CASE CloseClient
    <3>1. conn' \in [Sessions \cup {SharedClient} -> ConnState]
      BY <2>19 DEF CloseClient, IsTemporary, ConnState
    <3>. QED
      BY <2>19, <3>1 DEF CloseClient, Goto, WorkerPc
  <2>20. CASE ReleaseClient
    BY <2>20 DEF ReleaseClient, Goto, IsTemporary, WorkerPc
  <2>21. CASE LeaveSession
    BY <2>21 DEF LeaveSession, Goto, WorkerPc, Targets, NoTarget
  <2>22. CASE StopThread
    BY <2>22 DEF StopThread
  <2>23. ASSUME NEW s \in Sessions, OpenWebsocket(s) PROVE TypeOK'
    BY <2>23 DEF OpenWebsocket, Goto, WorkerPc, Targets, NoTarget
  <2>24. ASSUME NEW s \in Sessions, Deliver(s) PROVE TypeOK'
    BY <2>24 DEF Deliver, MoveCallback, worker, CallbackPc, BridgeAssumption
  <2>25. ASSUME NEW s \in Sessions, SendEntry(s) PROVE TypeOK'
    BY <2>25 DEF SendEntry, MoveCallback, worker, CallbackPc
  <2>26. ASSUME NEW s \in Sessions, PollTurn(s) PROVE TypeOK'
    BY <2>26 DEF PollTurn, MoveCallback, worker, CallbackPc
  <2>27. ASSUME NEW s \in Sessions, PollClosed(s) PROVE TypeOK'
    BY <2>27 DEF PollClosed, MoveCallback, worker, CallbackPc
  <2>28. ASSUME NEW s \in Sessions, CheckClosed(s) PROVE TypeOK'
    BY <2>28 DEF CheckClosed, MoveCallback, worker, CallbackPc
  <2>29. ASSUME NEW s \in Sessions, SendDone(s) PROVE TypeOK'
    BY <2>29 DEF SendDone, MoveCallback, worker, CallbackPc
  <2>30. ASSUME NEW s \in Sessions, KyoukoStreams(s) PROVE TypeOK'
    BY <2>30 DEF KyoukoStreams, worker, IsOpen, BridgeAssumption
  <2>31. ASSUME NEW s \in Sessions, DeleteClient(s) PROVE TypeOK'
    BY <2>31 DEF DeleteClient, ConnState, BridgeAssumption
  <2>32. CASE UNCHANGED vars
    BY <2>32 DEF vars
  <2>. QED
    BY <2>1, <2>2, <2>3, <2>4, <2>5, <2>6, <2>7, <2>8, <2>9, <2>10, <2>11,
       <2>12, <2>13, <2>14, <2>15, <2>16, <2>17, <2>18, <2>19, <2>20, <2>21,
       <2>22, <2>23, <2>24, <2>25, <2>26, <2>27, <2>28, <2>29, <2>30, <2>31,
       <2>32 DEF Next, Worker, Proceed, WithPeer, Callback
<1>. QED
  BY <1>1, <1>2, PTL DEF Spec

-----------------------------------------------------------------------------
(* The session and its client stay together, whatever the environment does *)
(* and however a websocket ends.                                           *)
LEMMA OwnershipInvariant == Spec => []Ownership
<1>. USE BridgeAssumption DEF BridgeAssumption, flags, stream, login, kyouko
<1>1. Init => Ownership
  BY DEF Init, Ownership, ClientInv, OwnedConnection, IsOpen, MayOwn, Answered
<1>2. TypeOK /\ Ownership /\ [Next]_vars => Ownership'
  <2>. SUFFICES ASSUME TypeOK, Ownership, [Next]_vars PROVE Ownership'
    OBVIOUS
  <2>. USE DEF TypeOK, Ownership, ClientInv, OwnedConnection, IsOpen, MayOwn,
              Answered
  <2>1. CASE AcceptFails
    BY <2>1 DEF AcceptFails, Goto
  <2>2. CASE AcceptWebsocket
    BY <2>2 DEF AcceptWebsocket, Goto
  <2>3. CASE ThreadEnds
    BY <2>3 DEF ThreadEnds, Goto
  <2>4. CASE StartWebsocket
    BY <2>4 DEF StartWebsocket, Goto
  <2>5. CASE LoopTop
    BY <2>5 DEF LoopTop
  <2>6. CASE AwaitTurn
    BY <2>6 DEF AwaitTurn
  <2>7. CASE ReadMessage
    BY <2>7 DEF ReadMessage
  <2>8. CASE ReadFails
    BY <2>8 DEF ReadFails, Goto
  <2>9. CASE AckSent
    BY <2>9 DEF AckSent, Goto
  <2>10. CASE AckFails
    BY <2>10 DEF AckFails, Goto
  <2>11. CASE ForwardMessage
    BY <2>11 DEF ForwardMessage, Goto, TurnAfterForward
  <2>12. CASE EndSession
    BY <2>12 DEF EndSession, Goto
  <2>13. CASE ParseInitial
    BY <2>13 DEF ParseInitial
  <2>14. CASE CheckPermission
    BY <2>14 DEF CheckPermission
  <2>15. CASE AttachShiori
    BY <2>15 DEF AttachShiori, Goto
  <2>16. CASE AttachKyouko
    BY <2>16 DEF AttachKyouko, Goto
  <2>17. CASE AttachRefused
    BY <2>17 DEF AttachRefused, Goto
  <2>18. CASE RegisterCallback
    BY <2>18 DEF RegisterCallback, Goto
  <2>19. CASE CloseClient
    BY <2>19 DEF CloseClient, Goto, IsTemporary
  <2>20. CASE ReleaseClient
    BY <2>20 DEF ReleaseClient, Goto, IsTemporary
  <2>21. CASE LeaveSession
    BY <2>21 DEF LeaveSession, Goto
  <2>22. CASE StopThread
    BY <2>22 DEF StopThread
  <2>23. ASSUME NEW s \in Sessions, OpenWebsocket(s) PROVE Ownership'
    BY <2>23 DEF OpenWebsocket, Goto
  <2>24. ASSUME NEW s \in Sessions, Deliver(s) PROVE Ownership'
    BY <2>24 DEF Deliver, MoveCallback, worker
  <2>25. ASSUME NEW s \in Sessions, SendEntry(s) PROVE Ownership'
    BY <2>25 DEF SendEntry, MoveCallback, worker
  <2>26. ASSUME NEW s \in Sessions, PollTurn(s) PROVE Ownership'
    BY <2>26 DEF PollTurn, MoveCallback, worker
  <2>27. ASSUME NEW s \in Sessions, PollClosed(s) PROVE Ownership'
    BY <2>27 DEF PollClosed, MoveCallback, worker
  <2>28. ASSUME NEW s \in Sessions, CheckClosed(s) PROVE Ownership'
    BY <2>28 DEF CheckClosed, MoveCallback, worker
  <2>29. ASSUME NEW s \in Sessions, SendDone(s) PROVE Ownership'
    BY <2>29 DEF SendDone, MoveCallback, worker
  <2>30. ASSUME NEW s \in Sessions, KyoukoStreams(s) PROVE Ownership'
    BY <2>30 DEF KyoukoStreams, worker, IsOpen
  <2>31. ASSUME NEW s \in Sessions, DeleteClient(s) PROVE Ownership'
    BY <2>31 DEF DeleteClient
  <2>32. CASE UNCHANGED vars
    BY <2>32 DEF vars
  <2>. QED
    BY <2>1, <2>2, <2>3, <2>4, <2>5, <2>6, <2>7, <2>8, <2>9, <2>10, <2>11,
       <2>12, <2>13, <2>14, <2>15, <2>16, <2>17, <2>18, <2>19, <2>20, <2>21,
       <2>22, <2>23, <2>24, <2>25, <2>26, <2>27, <2>28, <2>29, <2>30, <2>31,
       <2>32 DEF Next, Worker, Proceed, WithPeer, Callback
<1>. QED
  BY <1>1, <1>2, TypeCorrect, PTL DEF Spec

(* Temporary clients belong to the running session and the shared client   *)
(* is never closed, in every environment.                                  *)
THEOREM ConnectionsOwned == Spec => []OwnedConnection
<1>1. Ownership => OwnedConnection
  BY DEF Ownership
<1>. QED
  BY <1>1, OwnershipInvariant, PTL

(* No backend is attached without the consent of misaki, in every          *)
(* environment.                                                            *)
THEOREM AttachmentsGranted == Spec => []AttachedIsGranted
<1>1. Ownership => AttachedIsGranted
  BY DEF Ownership, ClientInv, AttachedIsGranted
<1>. QED
  BY <1>1, OwnershipInvariant, PTL

-----------------------------------------------------------------------------
(* With the contract of the library, a callback runs only between the      *)
(* forwarding of a message and the end of closeClient, and it passes its   *)
(* polling loop only while the turn is not the websocket's.                *)
LEMMA HandshakeInvariant ==
  ASSUME LibraryContract PROVE Spec => []Handshake
<1>. USE BridgeAssumption DEF BridgeAssumption, flags, stream, login, kyouko
<1>1. Init => Handshake
  BY DEF Init, Handshake, CallbackInv, TurnInv, IsOpen, MayOwn, Answered
<1>2. TypeOK /\ Ownership /\ Handshake /\ [Next]_vars => Handshake'
  <2>. SUFFICES ASSUME TypeOK, Ownership, Handshake, [Next]_vars
                PROVE Handshake'
    OBVIOUS
  <2>0. "detached_close" \notin Env /\ "early_stream" \notin Env
    BY LibraryContract DEF LibraryContract
  <2>. USE <2>0 DEF TypeOK, Ownership, ClientInv, OwnedConnection, Handshake,
              CallbackInv, TurnInv, IsOpen, MayOwn, Answered
  <2>1. CASE AcceptFails
    BY <2>1 DEF AcceptFails, Goto
  <2>2. CASE AcceptWebsocket
    BY <2>2 DEF AcceptWebsocket, Goto
  <2>3. CASE ThreadEnds
    BY <2>3 DEF ThreadEnds, Goto
  <2>4. CASE StartWebsocket
    BY <2>4 DEF StartWebsocket, Goto
  <2>5. CASE LoopTop
    BY <2>5 DEF LoopTop
  <2>6. CASE AwaitTurn
    BY <2>6 DEF AwaitTurn
  <2>7. CASE ReadMessage
    BY <2>7 DEF ReadMessage
  <2>8. CASE ReadFails
    BY <2>8 DEF ReadFails, Goto
  <2>9. CASE AckSent
    BY <2>9 DEF AckSent, Goto
  <2>10. CASE AckFails
    BY <2>10 DEF AckFails, Goto
  <2>11. CASE ForwardMessage
    BY <2>11 DEF ForwardMessage, Goto, TurnAfterForward
  <2>12. CASE EndSession
    BY <2>12 DEF EndSession, Goto
  <2>13. CASE ParseInitial
    BY <2>13 DEF ParseInitial
  <2>14. CASE CheckPermission
    BY <2>14 DEF CheckPermission
  <2>15. CASE AttachShiori
    BY <2>15 DEF AttachShiori, Goto
  <2>16. CASE AttachKyouko
    BY <2>16 DEF AttachKyouko, Goto
  <2>17. CASE AttachRefused
    BY <2>17 DEF AttachRefused, Goto
  <2>18. CASE RegisterCallback
    BY <2>18 DEF RegisterCallback, Goto
  <2>19. CASE CloseClient
    <3>1. CASE IsTemporary
      BY <2>19, <3>1 DEF CloseClient, Goto, IsTemporary
    <3>2. CASE ~IsTemporary
      BY <2>19, <3>2 DEF CloseClient, Goto, IsTemporary
    <3>. QED
      BY <3>1, <3>2
  <2>20. CASE ReleaseClient
    BY <2>20 DEF ReleaseClient, Goto, IsTemporary
  <2>21. CASE LeaveSession
    BY <2>21 DEF LeaveSession, Goto
  <2>22. CASE StopThread
    BY <2>22 DEF StopThread
  <2>23. ASSUME NEW s \in Sessions, OpenWebsocket(s) PROVE Handshake'
    BY <2>23 DEF OpenWebsocket, Goto
  <2>24. ASSUME NEW s \in Sessions, Deliver(s) PROVE Handshake'
    BY <2>24 DEF Deliver, MoveCallback, worker
  <2>25. ASSUME NEW s \in Sessions, SendEntry(s) PROVE Handshake'
    BY <2>25 DEF SendEntry, MoveCallback, worker
  <2>26. ASSUME NEW s \in Sessions, PollTurn(s) PROVE Handshake'
    BY <2>26 DEF PollTurn, MoveCallback, worker
  <2>27. ASSUME NEW s \in Sessions, PollClosed(s) PROVE Handshake'
    BY <2>27 DEF PollClosed, MoveCallback, worker
  <2>28. ASSUME NEW s \in Sessions, CheckClosed(s) PROVE Handshake'
    BY <2>28 DEF CheckClosed, MoveCallback, worker
  <2>29. ASSUME NEW s \in Sessions, SendDone(s) PROVE Handshake'
    BY <2>29 DEF SendDone, MoveCallback, worker
  <2>30. ASSUME NEW s \in Sessions, KyoukoStreams(s) PROVE Handshake'
    BY <2>30 DEF KyoukoStreams, worker, IsOpen
  <2>31. ASSUME NEW s \in Sessions, DeleteClient(s) PROVE Handshake'
    BY <2>31 DEF DeleteClient
  <2>32. CASE UNCHANGED vars
    BY <2>32 DEF vars
  <2>. QED
    BY <2>1, <2>2, <2>3, <2>4, <2>5, <2>6, <2>7, <2>8, <2>9, <2>10, <2>11,
       <2>12, <2>13, <2>14, <2>15, <2>16, <2>17, <2>18, <2>19, <2>20, <2>21,
       <2>22, <2>23, <2>24, <2>25, <2>26, <2>27, <2>28, <2>29, <2>30, <2>31,
       <2>32 DEF Next, Worker, Proceed, WithPeer, Callback
<1>. QED
  BY <1>1, <1>2, TypeCorrect, OwnershipInvariant, PTL DEF Spec

(* The stream of a websocket is never used by two threads at once.         *)
THEOREM StreamNeverShared ==
  ASSUME LibraryContract PROVE Spec => []StreamExclusive
<1>1. Ownership /\ Handshake => StreamExclusive
  BY DEF Ownership, ClientInv, OwnedConnection, Handshake, CallbackInv,
         TurnInv, StreamExclusive, IsOpen, Answered
<1>. QED
  BY <1>1, HandshakeInvariant, OwnershipInvariant, PTL

(* Stream data reaches only the websocket its client was created for.      *)
THEOREM DataStaysInSession ==
  ASSUME LibraryContract PROVE Spec => []LinkedSession
<1>1. Ownership /\ Handshake => LinkedSession
  BY DEF Ownership, ClientInv, Handshake, CallbackInv, LinkedSession
<1>. QED
  BY <1>1, HandshakeInvariant, OwnershipInvariant, PTL
=============================================================================
