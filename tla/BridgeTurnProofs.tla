--------------------------- MODULE BridgeTurnProofs ---------------------------
(***************************************************************************)
(* The turn of a websocket: that every websocket starts with it, and that  *)
(* WebsocketBridge implements HalfDuplex and WebsocketTurns.  HalfDuplex   *)
(* needs initial responses that can be written and LibraryContract,        *)
(* WebsocketTurns and a quiet handover only the contract.                  *)
(***************************************************************************)
EXTENDS WebsocketBridgeProofs

(* While the turn is not at the peer the worker is between a read and the  *)
(* next one, or it leaves for good because it was stopped.                 *)
HasTurn == {"initial", "authorize", "attach", "register", "ack", "forward",
            "loop", "spin"}
Leaving == {"end", "close", "join", "over", "idle", "done"}
TurnKept == ~waitForInput => pc \in HasTurn \/ (abort /\ pc \in Leaving)

(* What the worker knows of the flags without any promise of the library.  *)
WorkerInv ==
  /\ websocketClosed =>
       pc \in {"idle", "accept", "start", "close", "join", "over", "done"}
  /\ pc = "read" => waitForInput

TurnAtHome == TurnKept /\ WorkerInv

(* Up to the end of the initial response nobody else gives the turn away.  *)
Replying == {"initial", "authorize", "attach", "register", "ack"}
ReplyInv == pc \in Replying => ~waitForInput

-----------------------------------------------------------------------------
(* Holds whatever the library and kyouko do.                               *)
LEMMA TurnInvariant ==
  ASSUME "ack_fails" \notin Env PROVE Spec => []TurnAtHome
<1>. USE DEF flags, stream, login, kyouko, TurnAtHome, TurnKept, WorkerInv, HasTurn, Leaving, TypeOK
<1>1. Init => TurnAtHome
  BY DEF Init
<1>2. TypeOK /\ TurnAtHome /\ [Next]_vars => TurnAtHome'
  <2>. SUFFICES ASSUME TypeOK, TurnAtHome, [Next]_vars PROVE TurnAtHome'
    OBVIOUS
  <2>1. CASE AcceptFails
    BY <2>1 DEF AcceptFails, Goto
  <2>2. CASE AcceptWebsocket
    BY <2>2 DEF AcceptWebsocket, Goto
  <2>3. CASE ThreadEnds
    BY <2>3 DEF ThreadEnds, Goto
  <2>4. CASE StartWebsocket
    BY <2>4 DEF StartWebsocket, Goto
  <2>5. CASE LoopTop
    BY <2>5 DEF LoopTop
  <2>6. CASE AwaitTurn
    BY <2>6 DEF AwaitTurn
  <2>7. CASE ReadMessage
    BY <2>7 DEF ReadMessage
  <2>8. CASE ReadFails
    BY <2>8 DEF ReadFails, Goto
  <2>9. CASE AckSent
    BY <2>9 DEF AckSent, Goto
  <2>10. CASE AckFails
    BY <2>10 DEF AckFails, Goto
  <2>11. CASE ForwardMessage
    BY <2>11 DEF ForwardMessage, Goto, TurnAfterForward
  <2>12. CASE EndSession
    BY <2>12 DEF EndSession, Goto
  <2>13. CASE ParseInitial
    BY <2>13 DEF ParseInitial
  <2>14. CASE CheckPermission
    BY <2>14 DEF CheckPermission
  <2>15. CASE AttachShiori
    BY <2>15 DEF AttachShiori, Goto
  <2>16. CASE AttachKyouko
    BY <2>16 DEF AttachKyouko, Goto
  <2>17. CASE AttachRefused
    BY <2>17 DEF AttachRefused, Goto
  <2>18. CASE RegisterCallback
    BY <2>18 DEF RegisterCallback, Goto
  <2>19. CASE CloseClient
    BY <2>19 DEF CloseClient, Goto
  <2>20. CASE ReleaseClient
    BY <2>20 DEF ReleaseClient, Goto
  <2>21. CASE LeaveSession
    BY <2>21 DEF LeaveSession, Goto
  <2>22. CASE StopThread
    BY <2>22 DEF StopThread
  <2>23. ASSUME NEW c \in Sessions, OpenWebsocket(c) PROVE TurnAtHome'
    BY <2>23 DEF OpenWebsocket, Goto
  <2>24. ASSUME NEW c \in Sessions, Deliver(c) PROVE TurnAtHome'
    BY <2>24 DEF Deliver, MoveCallback, worker
  <2>25. ASSUME NEW c \in Sessions, SendEntry(c) PROVE TurnAtHome'
    BY <2>25 DEF SendEntry, MoveCallback, worker
  <2>26. ASSUME NEW c \in Sessions, PollTurn(c) PROVE TurnAtHome'
    BY <2>26 DEF PollTurn, MoveCallback, worker
  <2>27. ASSUME NEW c \in Sessions, PollClosed(c) PROVE TurnAtHome'
    BY <2>27 DEF PollClosed, MoveCallback, worker
  <2>28. ASSUME NEW c \in Sessions, CheckClosed(c) PROVE TurnAtHome'
    BY <2>28 DEF CheckClosed, MoveCallback, worker
  <2>29. ASSUME NEW c \in Sessions, SendDone(c) PROVE TurnAtHome'
    BY <2>29 DEF SendDone, MoveCallback, worker
  <2>30. ASSUME NEW c \in Sessions, KyoukoStreams(c) PROVE TurnAtHome'
    BY <2>30 DEF KyoukoStreams, worker
  <2>31. ASSUME NEW c \in Sessions, DeleteClient(c) PROVE TurnAtHome'
    BY <2>31 DEF DeleteClient
  <2>32. CASE UNCHANGED vars
    BY <2>32 DEF vars
  <2>. QED
    BY <2>1, <2>2, <2>3, <2>4, <2>5, <2>6, <2>7, <2>8, <2>9, <2>10, <2>11,
       <2>12, <2>13, <2>14, <2>15, <2>16, <2>17, <2>18, <2>19, <2>20,
       <2>21, <2>22, <2>23, <2>24, <2>25, <2>26, <2>27, <2>28, <2>29,
       <2>30, <2>31, <2>32 DEF Next, Worker, Proceed, WithPeer, Callback
<1>. QED
  BY <1>1, <1>2, TypeCorrect, PTL DEF Spec

(* Every websocket of a thread starts with the turn at its peer, whatever  *)
(* the library does and however the last one ended, as long as the initial *)
(* responses can be written.                                               *)
THEOREM SessionsStartFresh ==
  ASSUME "ack_fails" \notin Env PROVE Spec => []FreshSession
<1>1. TurnAtHome => FreshSession
  BY DEF TurnAtHome, TurnKept, HasTurn, Leaving, FreshSession
<1>. QED
  BY <1>1, TurnInvariant, PTL

-----------------------------------------------------------------------------
(* Who writes, and when: the client of the session, after its backend was  *)
(* asked and before it is forgotten.                                       *)
LEMMA WriterFacts ==
  ASSUME Ownership, Handshake, NEW c \in Sessions, cb[c] \in {"check", "write"}
  PROVE  /\ client = c /\ webSocket = c /\ live /\ target = "kyouko"
         /\ pc \in Answered
         /\ cb[c] = "check" => ~waitForInput \/ websocketClosed
         /\ cb[c] = "write" => ~waitForInput
<1>1. /\ asked[c] /\ client = c
      /\ conn[c] = "linked" \/ (conn[c] = "closed" /\ pc = "join")
      /\ asked[c] /\ IsOpen(c) => pc \in Answered
      /\ cb[c] = "check" => ~waitForInput \/ websocketClosed
      /\ cb[c] = "write" => ~waitForInput
  BY DEF Handshake, CallbackInv
<1>2. webSocket = c /\ live /\ target = "kyouko"
  BY <1>1 DEF Ownership, ClientInv
<1>. QED
  BY <1>1, <1>2 DEF IsOpen, Answered

(* No callback runs before the first message has been forwarded.           *)
LEMMA ReplyInvariant ==
  ASSUME LibraryContract PROVE Spec => []ReplyInv
<1>. USE DEF flags, stream, login, kyouko, ReplyInv, Replying
<1>1. Init => ReplyInv
  BY DEF Init
<1>2. Ownership /\ Handshake /\ ReplyInv /\ [Next]_vars => ReplyInv'
  <2>. SUFFICES ASSUME Ownership, Handshake, ReplyInv, [Next]_vars PROVE ReplyInv'
    OBVIOUS
  <2>1. CASE AcceptFails
    BY <2>1 DEF AcceptFails, Goto
  <2>2. CASE AcceptWebsocket
    BY <2>2 DEF AcceptWebsocket, Goto
  <2>3. CASE ThreadEnds
    BY <2>3 DEF ThreadEnds, Goto
  <2>4. CASE StartWebsocket
    BY <2>4 DEF StartWebsocket, Goto
  <2>5. CASE LoopTop
    BY <2>5 DEF LoopTop
  <2>6. CASE AwaitTurn
    BY <2>6 DEF AwaitTurn
  <2>7. CASE ReadMessage
    BY <2>7 DEF ReadMessage
  <2>8. CASE ReadFails
    BY <2>8 DEF ReadFails, Goto
  <2>9. CASE AckSent
    BY <2>9 DEF AckSent, Goto
  <2>10. CASE AckFails
    BY <2>10 DEF AckFails, Goto
  <2>11. CASE ForwardMessage
    BY <2>11 DEF ForwardMessage, Goto, TurnAfterForward
  <2>12. CASE EndSession
    BY <2>12 DEF EndSession, Goto
  <2>13. CASE ParseInitial
    BY <2>13 DEF ParseInitial
  <2>14. CASE CheckPermission
    BY <2>14 DEF CheckPermission
  <2>15. CASE AttachShiori
    BY <2>15 DEF AttachShiori, Goto
  <2>16. CASE AttachKyouko
    BY <2>16 DEF AttachKyouko, Goto
  <2>17. CASE AttachRefused
    BY <2>17 DEF AttachRefused, Goto
  <2>18. CASE RegisterCallback
    BY <2>18 DEF RegisterCallback, Goto
  <2>19. CASE CloseClient
    BY <2>19 DEF CloseClient, Goto
  <2>20. CASE ReleaseClient
    BY <2>20 DEF ReleaseClient, Goto
  <2>21. CASE LeaveSession
    BY <2>21 DEF LeaveSession, Goto
  <2>22. CASE StopThread
    BY <2>22 DEF StopThread
  <2>23. ASSUME NEW c \in Sessions, OpenWebsocket(c) PROVE ReplyInv'
    BY <2>23 DEF OpenWebsocket, Goto
  <2>24. ASSUME NEW c \in Sessions, Deliver(c) PROVE ReplyInv'
    BY <2>24 DEF Deliver, MoveCallback, worker
  <2>25. ASSUME NEW c \in Sessions, SendEntry(c) PROVE ReplyInv'
    BY <2>25 DEF SendEntry, MoveCallback, worker
  <2>26. ASSUME NEW c \in Sessions, PollTurn(c) PROVE ReplyInv'
    BY <2>26 DEF PollTurn, MoveCallback, worker
  <2>27. ASSUME NEW c \in Sessions, PollClosed(c) PROVE ReplyInv'
    BY <2>27 DEF PollClosed, MoveCallback, worker
  <2>28. ASSUME NEW c \in Sessions, CheckClosed(c) PROVE ReplyInv'
    BY <2>28 DEF CheckClosed, MoveCallback, worker
  <2>29. ASSUME NEW c \in Sessions, SendDone(c) PROVE ReplyInv'
    BY <2>29, WriterFacts DEF SendDone, MoveCallback, worker, Answered
  <2>30. ASSUME NEW c \in Sessions, KyoukoStreams(c) PROVE ReplyInv'
    BY <2>30 DEF KyoukoStreams, worker
  <2>31. ASSUME NEW c \in Sessions, DeleteClient(c) PROVE ReplyInv'
    BY <2>31 DEF DeleteClient
  <2>32. CASE UNCHANGED vars
    BY <2>32 DEF vars
  <2>. QED
    BY <2>1, <2>2, <2>3, <2>4, <2>5, <2>6, <2>7, <2>8, <2>9, <2>10, <2>11,
       <2>12, <2>13, <2>14, <2>15, <2>16, <2>17, <2>18, <2>19, <2>20,
       <2>21, <2>22, <2>23, <2>24, <2>25, <2>26, <2>27, <2>28, <2>29,
       <2>30, <2>31, <2>32 DEF Next, Worker, Proceed, WithPeer, Callback
<1>. QED
  BY <1>1, <1>2, OwnershipInvariant, HandshakeInvariant, PTL DEF Spec

-----------------------------------------------------------------------------
(* The three variables of HalfDuplex, seen from a step of the bridge.      *)
Kept == OpenSession' = OpenSession /\ Turn' = Turn /\ Writes' = Writes

LEMMA NothingWritten ==
  ASSUME pc # "ack", \A c \in Sessions : cb[c] # "write"
  PROVE  Writes = {}
BY DEF Writes

(* Before and after the initial response no callback is at its write, and  *)
(* after the end of a session none is left.                                *)
LEMMA OneWriter ==
  ASSUME Ownership, Handshake, pc \notin Answered
  PROVE  \A c \in Sessions : cb[c] # "write"
BY WriterFacts

(* The beginning of the initial response is HalfDuplex's Write.            *)
LEMMA RespondBegins ==
  ASSUME TypeOK, Ownership, Handshake, ReplyInv, pc \in Replying \ {"ack"},
         pc' = "ack", UNCHANGED <<stream, flags, cb>>
  PROVE  Duplex!Write("worker")
<1>1. \A c \in Sessions : cb[c] # "write"
  BY OneWriter DEF Replying, Answered
<1>2. Writes = {}
  BY <1>1, NothingWritten
<1>3. live /\ webSocket \in Sessions
  BY DEF Ownership, ClientInv, Replying
<1>4. Writes' = {<<"worker", webSocket>>}
  BY <1>1 DEF Writes, stream
<1>5. OpenSession = webSocket /\ OpenSession' = webSocket /\ webSocket # NoSession
  BY <1>3, BridgeAssumption DEF OpenSession, stream, BridgeAssumption
<1>6. Turn = "torii" /\ Turn' = "torii"
  BY DEF ReplyInv, Turn, flags
<1>. QED
  BY <1>2, <1>4, <1>5, <1>6 DEF Duplex!Write

(* The end of a session is HalfDuplex's Close.                             *)
LEMMA SessionEnds ==
  ASSUME Ownership, Handshake, pc \in {"accept", "over"}, pc' = "idle", ~live',
         UNCHANGED <<webSocket, flags, cb>>
  PROVE  Duplex!Close
<1>1. \A c \in Sessions : cb[c] # "write"
  BY OneWriter DEF Answered
<1>2. Writes = {} /\ Writes' = {}
  BY <1>1 DEF Writes
<1>3. live /\ webSocket \in Sessions
  BY DEF Ownership, ClientInv
<1>. QED
  BY <1>2, <1>3, BridgeAssumption
  DEF Duplex!Close, OpenSession, Turn, flags, BridgeAssumption

(* The bridge implements HalfDuplex: every step is a step of the abstract  *)
(* protocol or leaves its variables alone.                                 *)
THEOREM BridgeAlternates ==
  ASSUME LibraryContract, "ack_fails" \notin Env PROVE Spec => DuplexSpec
<1>. USE DEF flags, stream, login, kyouko
<1>1. Init => Duplex!Init
  BY DEF Init, Duplex!Init, OpenSession, Turn, Writes
<1>2. TypeOK /\ Ownership /\ Handshake /\ TurnAtHome /\ ReplyInv /\ [Next]_vars
      => [Duplex!Next]_Duplex!vars
  <2>. SUFFICES ASSUME TypeOK, Ownership, Handshake, TurnAtHome, ReplyInv,
                       [Next]_vars
                PROVE  Duplex!Next \/ Kept
    BY DEF Kept, Duplex!vars
  <2>1. ASSUME NEW s \in Sessions, OpenWebsocket(s) PROVE Duplex!Next
    <3>1. ~live /\ live' /\ webSocket' = s
      BY <2>1 DEF OpenWebsocket, Goto, Ownership, ClientInv
    <3>2. waitForInput /\ waitForInput'
      BY <2>1 DEF OpenWebsocket, Goto, TurnAtHome, TurnKept, HasTurn
    <3>3. Writes' = Writes
      BY <2>1 DEF OpenWebsocket, Goto, Writes
    <3>4. Duplex!Open(s)
      BY <3>1, <3>2, <3>3 DEF Duplex!Open, OpenSession, Turn
    <3>. QED
      BY <3>4 DEF Duplex!Next
  <2>2. CASE ReadMessage
    <3>1. pc = "read" /\ waitForInput /\ live /\ webSocket \in Sessions
      BY <2>2 DEF ReadMessage, TurnAtHome, WorkerInv, Ownership, ClientInv
    <3>2. \A c \in Sessions : cb[c] # "write"
      BY <3>1, WriterFacts
    <3>3. Writes = {} /\ Writes' = {}
      BY <2>2, <3>1, <3>2 DEF ReadMessage, Writes
    <3>4. Duplex!Speak
      BY <2>2, <3>1, <3>3, BridgeAssumption
      DEF ReadMessage, Duplex!Speak, OpenSession, Turn, BridgeAssumption
    <3>. QED
      BY <3>4 DEF Duplex!Next
  <2>3. CASE AckSent
    <3>1. \A c \in Sessions : cb[c] # "write"
      BY <2>3, OneWriter DEF AckSent, Goto, Answered
    <3>2. Writes # {} /\ Writes' = {}
      BY <2>3, <3>1 DEF AckSent, Goto, Writes
    <3>3. Duplex!Written
      BY <2>3, <3>2 DEF AckSent, Duplex!Written, OpenSession, Turn
    <3>. QED
      BY <3>3 DEF Duplex!Next
  <2>4. CASE ForwardMessage
    <3>1. Writes' = Writes /\ OpenSession' = OpenSession
      BY <2>4 DEF ForwardMessage, Goto, Writes, OpenSession
    <3>2. CASE ~waitForInput /\ waitForInput'
      <4>1. target = "shiori"
        BY <2>4, <3>2 DEF ForwardMessage, TurnAfterForward
      <4>2. \A c \in Sessions : cb[c] # "write"
        BY <4>1, WriterFacts
      <4>3. Writes = {}
        BY <2>4, <4>2, NothingWritten DEF ForwardMessage, Goto
      <4>4. Duplex!TakeBack
        BY <3>1, <3>2, <4>3 DEF Duplex!TakeBack, Turn
      <4>. QED
        BY <4>4 DEF Duplex!Next
    <3>3. CASE waitForInput' = waitForInput
      BY <3>1, <3>3 DEF Kept, Turn
    <3>. QED
      BY <2>4, <3>2, <3>3 DEF ForwardMessage, TurnAfterForward, TypeOK
  <2>5. ASSUME NEW c \in Sessions, CheckClosed(c) PROVE Duplex!Next \/ Kept
    <3>1. CASE websocketClosed
      <4>1. \A d \in Sessions : cb'[d] = "write" <=> cb[d] = "write"
        BY <2>5, <3>1 DEF CheckClosed, MoveCallback, TypeOK
      <4>2. Writes' = Writes
        BY <2>5, <4>1 DEF CheckClosed, worker, Writes
      <4>. QED
        BY <2>5, <4>2 DEF CheckClosed, worker, Kept, OpenSession, Turn
    <3>2. CASE ~websocketClosed
      <4>1. cb[c] = "check" /\ cb' = [cb EXCEPT ![c] = "write"]
        BY <2>5, <3>2 DEF CheckClosed, MoveCallback
      <4>2. client = c /\ webSocket = c /\ live /\ ~waitForInput /\ pc \in Answered
        BY <3>2, <4>1, WriterFacts
      <4>3. \A d \in Sessions : cb[d] # "write"
        BY <4>1, <4>2, WriterFacts
      <4>4. Writes = {}
        BY <4>2, <4>3, NothingWritten DEF Answered
      <4>5. \A d \in Sessions : cb'[d] = "write" <=> d = c
        BY <4>1, <4>3 DEF TypeOK
      <4>6. Writes' = {<<"client", c>>}
        BY <2>5, <4>2, <4>5 DEF CheckClosed, worker, Writes, Answered
      <4>7. Duplex!Write("client")
        BY <2>5, <4>2, <4>4, <4>6, BridgeAssumption
        DEF CheckClosed, worker, Duplex!Write, OpenSession, Turn, BridgeAssumption
      <4>. QED
        BY <4>7 DEF Duplex!Next
    <3>. QED
      BY <3>1, <3>2
  <2>6. ASSUME NEW c \in Sessions, SendDone(c) PROVE Duplex!Next
    <3>1. cb[c] = "write" /\ cb' = [cb EXCEPT ![c] = "none"]
      BY <2>6 DEF SendDone, MoveCallback
    <3>2. client = c /\ pc \in Answered /\ ~waitForInput
      BY <3>1, WriterFacts
    <3>3. \A d \in Sessions : cb'[d] # "write"
      BY <3>1, <3>2, WriterFacts DEF TypeOK
    <3>4. Writes # {} /\ Writes' = {}
      BY <2>6, <3>1, <3>2, <3>3 DEF SendDone, worker, Writes, Answered
    <3>5. Duplex!Written
      BY <2>6, <3>4 DEF SendDone, worker, Duplex!Written, OpenSession, Turn
    <3>. QED
      BY <3>5 DEF Duplex!Next
  <2>7. CASE AcceptFails \/ LeaveSession
    <3>1. Duplex!Close
      BY <2>7, SessionEnds DEF AcceptFails, LeaveSession, Goto
    <3>. QED
      BY <3>1 DEF Duplex!Next
  <2>8. CASE pc \in Replying \ {"ack"} /\ pc' = "ack" /\ UNCHANGED <<stream, flags, cb>>
    BY <2>8, RespondBegins DEF Duplex!Next
  <2>9. CASE ParseInitial
    BY <2>8, <2>9 DEF ParseInitial, Replying, Kept, OpenSession, Turn, Writes
  <2>10. CASE CheckPermission
    BY <2>8, <2>10 DEF CheckPermission, Replying, Kept, OpenSession, Turn, Writes
  <2>11. CASE AttachShiori
    BY <2>8, <2>11 DEF AttachShiori, Goto, Replying
  <2>12. CASE AttachRefused
    BY <2>8, <2>12 DEF AttachRefused, Goto, Replying
  <2>13. CASE RegisterCallback
    BY <2>8, <2>13 DEF RegisterCallback, Goto, Replying
  <2>14. CASE AckFails
    BY <2>14 DEF AckFails
  <2>15. CASE AcceptWebsocket
    BY <2>15 DEF AcceptWebsocket, Goto, Kept, OpenSession, Turn, Writes
  <2>16. CASE ThreadEnds
    BY <2>16 DEF ThreadEnds, Goto, Kept, OpenSession, Turn, Writes
  <2>17. CASE StartWebsocket
    BY <2>17 DEF StartWebsocket, Goto, Kept, OpenSession, Turn, Writes
  <2>18. CASE LoopTop
    BY <2>18 DEF LoopTop, Kept, OpenSession, Turn, Writes
  <2>19. CASE AwaitTurn
    BY <2>19 DEF AwaitTurn, Kept, OpenSession, Turn, Writes
  <2>20. CASE ReadFails
    BY <2>20 DEF ReadFails, Goto, Kept, OpenSession, Turn, Writes
  <2>21. CASE EndSession
    BY <2>21 DEF EndSession, Goto, Kept, OpenSession, Turn, Writes
  <2>22. CASE AttachKyouko
    BY <2>22 DEF AttachKyouko, Goto, Kept, OpenSession, Turn, Writes
  <2>23. CASE CloseClient
    BY <2>23 DEF CloseClient, Goto, Kept, OpenSession, Turn, Writes
  <2>24. CASE ReleaseClient
    BY <2>24 DEF ReleaseClient, Goto, Kept, OpenSession, Turn, Writes
  <2>25. CASE StopThread
    BY <2>25 DEF StopThread, Kept, OpenSession, Turn, Writes
  <2>26. ASSUME NEW c \in Sessions, Deliver(c) PROVE Kept
    <3>1. \A d \in Sessions : cb'[d] = "write" <=> cb[d] = "write"
      BY <2>26 DEF Deliver, MoveCallback, TypeOK
    <3>2. Writes' = Writes
      BY <2>26, <3>1 DEF Deliver, worker, Writes
    <3>. QED
      BY <2>26, <3>2 DEF Deliver, worker, Kept, OpenSession, Turn
  <2>27. ASSUME NEW c \in Sessions, SendEntry(c) PROVE Kept
    <3>1. \A d \in Sessions : cb'[d] = "write" <=> cb[d] = "write"
      BY <2>27 DEF SendEntry, MoveCallback, TypeOK
    <3>2. Writes' = Writes
      BY <2>27, <3>1 DEF SendEntry, worker, Writes
    <3>. QED
      BY <2>27, <3>2 DEF SendEntry, worker, Kept, OpenSession, Turn
  <2>28. ASSUME NEW c \in Sessions, PollTurn(c) PROVE Kept
    <3>1. \A d \in Sessions : cb'[d] = "write" <=> cb[d] = "write"
      BY <2>28 DEF PollTurn, MoveCallback, TypeOK
    <3>2. Writes' = Writes
      BY <2>28, <3>1 DEF PollTurn, worker, Writes
    <3>. QED
      BY <2>28, <3>2 DEF PollTurn, worker, Kept, OpenSession, Turn
  <2>29. ASSUME NEW c \in Sessions, PollClosed(c) PROVE Kept
    <3>1. \A d \in Sessions : cb'[d] = "write" <=> cb[d] = "write"
      BY <2>29 DEF PollClosed, MoveCallback, TypeOK
    <3>2. Writes' = Writes
      BY <2>29, <3>1 DEF PollClosed, worker, Writes
    <3>. QED
      BY <2>29, <3>2 DEF PollClosed, worker, Kept, OpenSession, Turn
  <2>30. ASSUME NEW c \in Sessions, KyoukoStreams(c) PROVE Kept
    BY <2>30 DEF KyoukoStreams, worker, Kept, OpenSession, Turn, Writes
  <2>31. ASSUME NEW c \in Sessions, DeleteClient(c) PROVE Kept
    BY <2>31 DEF DeleteClient, Kept, OpenSession, Turn, Writes
  <2>32. CASE UNCHANGED vars
    BY <2>32 DEF vars, Kept, OpenSession, Turn, Writes
  <2>. QED
    BY <2>1, <2>2, <2>3, <2>4, <2>5, <2>6, <2>7, <2>9, <2>10, <2>11, <2>12,
       <2>13, <2>14, <2>15, <2>16, <2>17, <2>18, <2>19, <2>20, <2>21,
       <2>22, <2>23, <2>24, <2>25, <2>26, <2>27, <2>28, <2>29, <2>30,
       <2>31, <2>32
    DEF Next, Worker, Proceed, WithPeer, Callback
<1>. QED
  BY <1>1, <1>2, TypeCorrect, OwnershipInvariant, HandshakeInvariant,
     TurnInvariant, ReplyInvariant, PTL DEF Spec, DuplexSpec, Duplex!Spec

-----------------------------------------------------------------------------
(* A running thread ends a websocket that kyouko was asked on only with    *)
(* the turn at its peer: no answer of kyouko can change the turn any more. *)
EndedInv ==
  ~abort /\ pc \in {"end", "close", "join"} /\ client \in Sessions /\ asked[client]
    => waitForInput

LEMMA EndedInvariant ==
  ASSUME LibraryContract PROVE Spec => []EndedInv
<1>. USE DEF flags, stream, login, kyouko, EndedInv
<1>1. Init => EndedInv
  BY DEF Init
<1>2. TypeOK /\ Ownership /\ Handshake /\ EndedInv /\ [Next]_vars => EndedInv'
  <2>. SUFFICES ASSUME TypeOK, Ownership, Handshake, EndedInv, [Next]_vars
                PROVE  EndedInv'
    OBVIOUS
  <2>. USE DEF TypeOK, Ownership, ClientInv, Handshake, CallbackInv, TurnInv,
       IsOpen, Answered
  <2>1. CASE AcceptFails
    BY <2>1 DEF AcceptFails, Goto
  <2>2. CASE AcceptWebsocket
    BY <2>2 DEF AcceptWebsocket, Goto
  <2>3. CASE ThreadEnds
    BY <2>3 DEF ThreadEnds, Goto
  <2>4. CASE StartWebsocket
    BY <2>4 DEF StartWebsocket, Goto
  <2>5. CASE LoopTop
    BY <2>5 DEF LoopTop
  <2>6. CASE AwaitTurn
    BY <2>6 DEF AwaitTurn
  <2>7. CASE ReadMessage
    BY <2>7 DEF ReadMessage
  <2>8. CASE ReadFails
    BY <2>8 DEF ReadFails, Goto
  <2>9. CASE AckSent
    BY <2>9 DEF AckSent, Goto
  <2>10. CASE AckFails
    BY <2>10 DEF AckFails, Goto
  <2>11. CASE ForwardMessage
    BY <2>11 DEF ForwardMessage, Goto, TurnAfterForward
  <2>12. CASE EndSession
    BY <2>12 DEF EndSession, Goto
  <2>13. CASE ParseInitial
    BY <2>13 DEF ParseInitial
  <2>14. CASE CheckPermission
    BY <2>14 DEF CheckPermission
  <2>15. CASE AttachShiori
    BY <2>15 DEF AttachShiori, Goto
  <2>16. CASE AttachKyouko
    BY <2>16 DEF AttachKyouko, Goto
  <2>17. CASE AttachRefused
    BY <2>17 DEF AttachRefused, Goto
  <2>18. CASE RegisterCallback
    BY <2>18 DEF RegisterCallback, Goto
  <2>19. CASE CloseClient
    BY <2>19 DEF CloseClient, Goto, IsTemporary
  <2>20. CASE ReleaseClient
    BY <2>20 DEF ReleaseClient, Goto, IsTemporary
  <2>21. CASE LeaveSession
    BY <2>21 DEF LeaveSession, Goto
  <2>22. CASE StopThread
    BY <2>22 DEF StopThread
  <2>23. ASSUME NEW c \in Sessions, OpenWebsocket(c) PROVE EndedInv'
    BY <2>23 DEF OpenWebsocket, Goto
  <2>24. ASSUME NEW c \in Sessions, Deliver(c) PROVE EndedInv'
    BY <2>24 DEF Deliver, MoveCallback, worker
  <2>25. ASSUME NEW c \in Sessions, SendEntry(c) PROVE EndedInv'
    BY <2>25 DEF SendEntry, MoveCallback, worker
  <2>26. ASSUME NEW c \in Sessions, PollTurn(c) PROVE EndedInv'
    BY <2>26 DEF PollTurn, MoveCallback, worker
  <2>27. ASSUME NEW c \in Sessions, PollClosed(c) PROVE EndedInv'
    BY <2>27 DEF PollClosed, MoveCallback, worker
  <2>28. ASSUME NEW c \in Sessions, CheckClosed(c) PROVE EndedInv'
    BY <2>28 DEF CheckClosed, MoveCallback, worker
  <2>29. ASSUME NEW c \in Sessions, SendDone(c) PROVE EndedInv'
    BY <2>29 DEF SendDone, MoveCallback, worker
  <2>30. ASSUME NEW c \in Sessions, KyoukoStreams(c) PROVE EndedInv'
    BY <2>30 DEF KyoukoStreams, worker
  <2>31. ASSUME NEW c \in Sessions, DeleteClient(c) PROVE EndedInv'
    BY <2>31 DEF DeleteClient
  <2>32. CASE UNCHANGED vars
    BY <2>32 DEF vars
  <2>. QED
    BY <2>1, <2>2, <2>3, <2>4, <2>5, <2>6, <2>7, <2>8, <2>9, <2>10, <2>11,
       <2>12, <2>13, <2>14, <2>15, <2>16, <2>17, <2>18, <2>19, <2>20, <2>21, <2>22,
       <2>23, <2>24, <2>25, <2>26, <2>27, <2>28, <2>29, <2>30, <2>31, <2>32 DEF Next, Worker, Proceed, WithPeer, Callback
<1>. QED
  BY <1>1, <1>2, TypeCorrect, OwnershipInvariant, HandshakeInvariant, PTL DEF Spec

-----------------------------------------------------------------------------
(* The state of WebsocketTurns while the thread runs, part by part.        *)
Backend ==
  IF ~Attached THEN "none" ELSE IF client = SharedClient THEN "shiori" ELSE "kyouko"
Due == Attached /\ client \in Sessions /\ asked[client]
TurnSame ==
  Phase' = Phase /\ waitForInput' = waitForInput /\ Backend' = Backend /\ Due' = Due

Is(s, phase, wait, backend, due) ==
  /\ s \in Turns!States
  /\ s.phase = phase /\ s.waitForInput = wait /\ s.client = backend /\ s.due = due

Running == TypeOK /\ TypeOK' /\ ~abort /\ ~abort'

LEMMA RunningState ==
  ASSUME Running
  PROVE  /\ Is(TurnState, Phase, waitForInput, Backend, Due)
         /\ Is(TurnState', Phase', waitForInput', Backend', Due')
<1>. USE DEF Running, TypeOK, Is, Turns!States
<1>1. /\ Phase \in Turns!Phases /\ Backend \in Turns!Backends /\ Due \in BOOLEAN
      /\ Phase' \in Turns!Phases /\ Backend' \in Turns!Backends /\ Due' \in BOOLEAN
  BY DEF Phase, WorkerPc, Backend, Due, Attached, Turns!Phases, Turns!Backends
<1>2. TurnState = [phase |-> Phase, waitForInput |-> waitForInput,
                   client |-> Backend, due |-> Due]
  BY DEF TurnState, Backend, Due
<1>3. TurnState' = [phase |-> Phase', waitForInput |-> waitForInput',
                    client |-> Backend', due |-> Due']
  BY DEF TurnState, Backend, Due
<1>. QED
  BY <1>1, <1>2, <1>3

(* A step that leaves the parts alone leaves the state alone.              *)
LEMMA SameState ==
  ASSUME Running, TurnSame PROVE TurnState' = TurnState
BY RunningState DEF TurnSame, Is, Turns!States

LEMMA StoppedState ==
  ASSUME abort, [Next]_vars PROVE abort'
<1>. USE DEF flags, stream, login, kyouko, worker
<1>1. CASE UNCHANGED vars
  BY <1>1 DEF vars
<1>2. CASE Proceed
  BY <1>2 DEF Proceed, StartWebsocket, LoopTop, AwaitTurn, ForwardMessage,
     EndSession, ParseInitial, CheckPermission, AttachShiori, AttachKyouko,
     AttachRefused, RegisterCallback, CloseClient, ReleaseClient, LeaveSession,
     ThreadEnds
<1>3. CASE WithPeer
  BY <1>3 DEF WithPeer, OpenWebsocket, AcceptFails, AcceptWebsocket, ReadMessage,
     ReadFails, AckSent, AckFails
<1>4. ASSUME NEW c \in Sessions,
             Callback(c) \/ SendDone(c) \/ KyoukoStreams(c) \/ DeleteClient(c)
      PROVE  abort'
  BY <1>4 DEF Callback, Deliver, SendEntry, PollTurn, PollClosed, CheckClosed,
     SendDone, KyoukoStreams, DeleteClient
<1>5. CASE StopThread
  BY <1>5 DEF StopThread
<1>. QED
  BY <1>1, <1>2, <1>3, <1>4, <1>5 DEF Next, Worker

(* Outside its turns, and before the end of the initial response, a         *)
(* websocket has no backend.                                               *)
LEMMA Unattached ==
  ASSUME pc \notin {"loop", "spin", "read", "forward"}
  PROVE  ~Attached /\ Backend = "none" /\ ~Due
BY DEF Attached, Backend, Due, Phase

-----------------------------------------------------------------------------
(* The steps of one websocket, each as the step of WebsocketTurns that it  *)
(* implements.                                                             *)
LEMMA StartIsOpen ==
  ASSUME Ownership, Running, StartWebsocket
  PROVE  TurnState' \in Turns!Open(TurnState)
<1>1. /\ pc = "start" /\ pc' = "loop" /\ waitForInput' = waitForInput
      /\ client = NoClient /\ client' = NoClient
  BY DEF StartWebsocket, Goto, Ownership, ClientInv, MayOwn, Answered
<1>2. Is(TurnState, "none", waitForInput, "none", FALSE)
  BY <1>1, RunningState, Unattached DEF Phase, Is
<1>3. Phase' = "turn" /\ Backend' = "none" /\ Due' = FALSE
  BY <1>1 DEF Phase, Attached, Backend, Due
<1>4. Is(TurnState', "turn", waitForInput, "none", FALSE)
  BY <1>1, <1>3, RunningState
<1>. QED
  BY <1>2, <1>4 DEF Turns!Open, Turns!When, Is, Turns!States

LEMMA AwaitIsAwait ==
  ASSUME Handshake, Running, AwaitTurn
  PROVE  TurnState' \in Turns!AwaitTurn(TurnState)
<1>1. /\ pc = "spin" /\ pc' = "read" /\ waitForInput = TRUE
      /\ waitForInput' = waitForInput /\ client' = client /\ asked' = asked
  BY DEF AwaitTurn, Handshake, TurnInv, flags, kyouko, Running, TypeOK
<1>2. Is(TurnState, "turn", TRUE, Backend, Due)
  BY <1>1, RunningState DEF Phase
<1>3. Phase' = "read" /\ Backend' = Backend /\ Due' = Due
  BY <1>1 DEF Phase, Attached, Backend, Due
<1>4. Is(TurnState', "read", TRUE, Backend, Due)
  BY <1>1, <1>3, RunningState
<1>. QED
  BY <1>2, <1>4 DEF Turns!AwaitTurn, Turns!When, Is, Turns!States

LEMMA ReadIsRead ==
  ASSUME Running, ReadMessage
  PROVE  TurnState' \in Turns!Read(TurnState)
<1>1. /\ pc = "read" /\ waitForInput' = FALSE /\ client' = client /\ asked' = asked
      /\ pc' = IF client = NoClient THEN "initial" ELSE "forward"
  BY DEF ReadMessage, kyouko
<1>2. Is(TurnState, "read", waitForInput, Backend, Due)
  BY <1>1, RunningState DEF Phase
<1>3. CASE client = NoClient
  <2>1. Backend = "none" /\ Due = FALSE
    BY <1>3 DEF Attached, Backend, Due
  <2>2. Phase' = "respond" /\ Backend' = "none" /\ Due' = FALSE
    BY <1>1, <1>3 DEF Phase, Attached, Backend, Due
  <2>3. Is(TurnState', "respond", FALSE, "none", FALSE)
    BY <1>1, <2>2, RunningState
  <2>. QED
    BY <1>2, <2>1, <2>3 DEF Turns!Read, Turns!When, Is, Turns!States
<1>4. CASE client # NoClient
  <2>1. Backend # "none"
    BY <1>1, <1>4 DEF Backend, Attached, Phase
  <2>2. Phase' = "forward" /\ Backend' = Backend /\ Due' = Due
    BY <1>1, <1>4 DEF Phase, Attached, Backend, Due
  <2>3. Is(TurnState', "forward", FALSE, Backend, Due)
    BY <1>1, <2>2, RunningState
  <2>. QED
    BY <1>2, <2>1, <2>3 DEF Turns!Read, Turns!When, Is, Turns!States
<1>. QED
  BY <1>3, <1>4

(* Both exceptions of a websocket: its client goes, its turn stays.        *)
LEMMA FailureIsEnd ==
  ASSUME Running, pc' = "end", waitForInput' = waitForInput
  PROVE  TurnState' = Turns!Ended(TurnState)
<1>1. Phase' = "none" /\ Backend' = "none" /\ Due' = FALSE
  BY DEF Phase, Attached, Backend, Due
<1>2. Is(TurnState', "none", waitForInput, "none", FALSE)
  BY <1>1, RunningState
<1>3. TurnState.waitForInput = waitForInput
  BY RunningState DEF Is
<1>4. Is(Turns!Fresh, "none", TRUE, "none", FALSE)
  BY DEF Turns!Fresh, Is, Turns!States, Turns!Phases, Turns!Backends
<1>5. TurnState' = [Turns!Fresh EXCEPT !.waitForInput = waitForInput]
  BY <1>2, <1>4 DEF Is, Turns!States
<1>. QED
  BY <1>3, <1>5 DEF Turns!Ended

LEMMA AckIsRespond ==
  ASSUME Ownership, Handshake, Running, AckSent
  PROVE  TurnState' \in Turns!Respond(TurnState)
<1>1. /\ pc = "ack" /\ pc' = "loop" /\ waitForInput' = TRUE
      /\ client' = client /\ asked' = asked
  BY DEF AckSent, Goto, kyouko
<1>2. Is(TurnState, "respond", waitForInput, "none", FALSE)
  BY <1>1, RunningState, Unattached DEF Phase, Is
<1>3. ~(client \in Sessions /\ asked[client])
  BY <1>1 DEF Ownership, ClientInv, Handshake, CallbackInv, Answered
<1>4. Phase' = "turn" /\ Due' = FALSE
  BY <1>1, <1>3 DEF Phase, Due
<1>5. Is(TurnState', "turn", TRUE, Backend', FALSE)
  BY <1>1, <1>4, RunningState
<1>6. Backend' \in Turns!Backends
  BY <1>5 DEF Is, Turns!States
<1>7. TurnState' = [TurnState EXCEPT !.phase = "turn", !.waitForInput = TRUE,
                                     !.client = Backend']
  BY <1>2, <1>5 DEF Is, Turns!States
<1>8. TurnState.phase = "respond"
  BY <1>2 DEF Is
<1>. QED
  BY <1>6, <1>7, <1>8 DEF Turns!Respond, Turns!When

(* A message for kyouko may be lost on the way.                            *)
LEMMA ForwardIsForward ==
  ASSUME Ownership, Running, ForwardMessage
  PROVE  TurnState' \in Turns!Forward(TurnState) \cup Turns!ForwardLost(TurnState)
<1>1. /\ pc = "forward" /\ pc' = "loop" /\ client' = client
      /\ client \in Sessions \cup {SharedClient} /\ Attached /\ Attached'
  BY DEF ForwardMessage, Goto, Ownership, ClientInv, Running, TypeOK, Attached, Phase
<1>2. Is(TurnState, "forward", waitForInput, Backend, Due)
  BY <1>1, RunningState DEF Phase
<1>3. Phase' = "turn" /\ Backend' = Backend
  BY <1>1 DEF Phase, Backend
<1>4. Is(TurnState', "turn", waitForInput', Backend, Due')
  BY <1>3, RunningState
<1>5. CASE client = SharedClient
  <2>1. waitForInput' = TRUE
    BY <1>5 DEF ForwardMessage, TurnAfterForward, Ownership, ClientInv
  <2>2. Backend = "shiori" /\ Due' = FALSE
    BY <1>1, <1>5, BridgeAssumption DEF BridgeAssumption, Backend, Due
  <2>3. TurnState' = [TurnState EXCEPT !.phase = "turn", !.waitForInput = TRUE,
                                       !.due = FALSE]
    BY <1>2, <1>4, <2>1, <2>2 DEF Is, Turns!States
  <2>4. (TurnState.waitForInput \/ TurnState.client = "shiori") = TRUE
    BY <1>2, <2>2 DEF Is
  <2>5. TurnState.phase = "forward" /\ (TurnState.client = "kyouko") = FALSE
    BY <1>2, <2>2 DEF Is
  <2>6. TurnState' \in Turns!Forward(TurnState)
    BY <2>3, <2>4, <2>5 DEF Turns!Forward, Turns!When
  <2>. QED
    BY <2>6
<1>6. CASE client \in Sessions
  <2>1. waitForInput' = waitForInput
    BY <1>6 DEF ForwardMessage, TurnAfterForward, Ownership, ClientInv
  <2>2. Backend = "kyouko"
    BY <1>1, <1>6, BridgeAssumption DEF BridgeAssumption, Backend
  <2>3. asked' = asked \/ asked' = [asked EXCEPT ![client] = TRUE]
    BY DEF ForwardMessage
  <2>4. CASE asked' = asked
    <3>1. Due' = Due
      BY <1>1, <2>4 DEF Due
    <3>2. TurnState' = [TurnState EXCEPT !.phase = "turn", !.due = TurnState.due]
      BY <1>2, <1>4, <2>1, <3>1 DEF Is, Turns!States
    <3>3. TurnState.phase = "forward" /\ TurnState.client = "kyouko"
      BY <1>2, <2>2 DEF Is
    <3>4. TurnState' \in Turns!ForwardLost(TurnState)
      BY <3>2, <3>3 DEF Turns!ForwardLost, Turns!When
    <3>. QED
      BY <3>4
  <2>5. CASE asked' = [asked EXCEPT ![client] = TRUE]
    <3>1. Due' = TRUE
      BY <1>1, <1>6, <2>5 DEF Due, Running, TypeOK
    <3>2. TurnState' = [TurnState EXCEPT !.phase = "turn", !.waitForInput = waitForInput,
                                         !.due = TRUE]
      BY <1>2, <1>4, <2>1, <3>1 DEF Is, Turns!States
    <3>3. (TurnState.waitForInput \/ TurnState.client = "shiori") = waitForInput
      BY <1>2, <2>2 DEF Is, Turns!States
    <3>4. TurnState.phase = "forward" /\ (TurnState.client = "kyouko") = TRUE
      BY <1>2, <2>2 DEF Is
    <3>5. TurnState' \in Turns!Forward(TurnState)
      BY <3>2, <3>3, <3>4 DEF Turns!Forward, Turns!When
    <3>. QED
      BY <3>5
  <2>. QED
    BY <2>3, <2>4, <2>5
<1>. QED
  BY <1>1, <1>5, <1>6

LEMMA SendIsAnswer ==
  ASSUME Ownership, Handshake, EndedInv, Running, NEW c \in Sessions, SendDone(c)
  PROVE  TurnState' \in Turns!Answer(TurnState)
<1>1. /\ cb[c] = "write" /\ waitForInput' = TRUE
      /\ pc' = pc /\ client' = client /\ asked' = asked
  BY DEF SendDone, MoveCallback, worker, kyouko
<1>2. client = c /\ pc \in Answered /\ waitForInput = FALSE /\ asked[c] = TRUE
  BY <1>1, WriterFacts DEF Handshake, CallbackInv, Running, TypeOK
<1>3. pc \in {"loop", "spin", "forward"}
  BY <1>2 DEF Running, EndedInv, Answered, Handshake, TurnInv
<1>4. Due = TRUE
  BY <1>2, <1>3, BridgeAssumption DEF BridgeAssumption, Attached, Phase, Due
<1>5. Is(TurnState, Phase, FALSE, Backend, TRUE)
  BY <1>2, <1>4, RunningState
<1>6. Phase' = Phase /\ Backend' = Backend /\ Due' = TRUE
  BY <1>1, <1>4 DEF Phase, Attached, Backend, Due
<1>7. Is(TurnState', Phase, TRUE, Backend, TRUE)
  BY <1>1, <1>6, RunningState
<1>. QED
  BY <1>5, <1>7 DEF Turns!Answer, Turns!When, Is, Turns!States

(* Whatever fails, the websockets of one thread take their turns as        *)
(* WebsocketTurns says, which Gateway composes with the server.            *)
THEOREM BridgeTakesTurns ==
  ASSUME LibraryContract PROVE Spec => TurnsSpec
<1>1. Init => TurnState = Turns!Fresh
  BY DEF Init, TurnState, Phase, Attached, Turns!Fresh
<1>2. TypeOK /\ TypeOK' /\ Ownership /\ Handshake /\ EndedInv /\ [Next]_vars
      => [TurnState' \in Turns!Next(TurnState)]_TurnState
  <2>. SUFFICES ASSUME TypeOK, TypeOK', Ownership, Handshake, EndedInv, [Next]_vars
                PROVE  TurnState' \in Turns!Next(TurnState) \/ TurnState' = TurnState
    OBVIOUS
  <2>. USE DEF flags, stream, login, kyouko
  <2>1. CASE abort'
    BY <2>1 DEF TurnState, Turns!Next
  <2>. SUFFICES ASSUME ~abort' PROVE TurnState' \in Turns!Next(TurnState) \/ TurnSame
    <3>1. ~abort' => Running
      BY StoppedState DEF Running
    <3>. QED
      BY <2>1, <3>1, SameState
  <2>2. Running
    BY StoppedState DEF Running
  <2>3. CASE StartWebsocket
    BY <2>2, <2>3, StartIsOpen DEF Turns!Next
  <2>4. CASE AwaitTurn
    BY <2>2, <2>4, AwaitIsAwait DEF Turns!Next
  <2>5. CASE ReadMessage
    BY <2>2, <2>5, ReadIsRead DEF Turns!Next
  <2>6. CASE ReadFails \/ AckFails
    <3>1. TurnState' = Turns!Ended(TurnState)
      BY <2>2, <2>6, FailureIsEnd DEF ReadFails, AckFails, Goto
    <3>2. TurnState.phase = IF ReadFails THEN "read" ELSE "respond"
      BY <2>2, <2>6, RunningState DEF ReadFails, AckFails, Goto, Phase, Is
    <3>. QED
      BY <2>6, <3>1, <3>2
      DEF Turns!PeerLeaves, Turns!RespondFails, Turns!When, Turns!Next
  <2>7. CASE AckSent
    BY <2>2, <2>7, AckIsRespond DEF Turns!Next
  <2>8. CASE ForwardMessage
    BY <2>2, <2>8, ForwardIsForward DEF Turns!Next
  <2>9. ASSUME NEW c \in Sessions, SendDone(c) PROVE TurnState' \in Turns!Next(TurnState)
    BY <2>2, <2>9, SendIsAnswer DEF Turns!Next
  <2>. USE DEF Phase, Attached, Backend, Due, TurnSame
  <2>10. CASE AcceptFails
    BY <2>10 DEF AcceptFails, Goto
  <2>11. CASE AcceptWebsocket
    BY <2>11 DEF AcceptWebsocket, Goto
  <2>12. CASE ThreadEnds
    BY <2>12 DEF ThreadEnds, Goto
  <2>13. CASE EndSession
    BY <2>13 DEF EndSession, Goto
  <2>14. CASE CloseClient
    BY <2>14 DEF CloseClient, Goto
  <2>15. CASE ReleaseClient
    BY <2>15 DEF ReleaseClient, Goto
  <2>16. CASE LeaveSession
    BY <2>16 DEF LeaveSession, Goto
  <2>17. CASE AttachShiori
    BY <2>17 DEF AttachShiori, Goto
  <2>18. CASE AttachKyouko
    BY <2>18 DEF AttachKyouko, Goto
  <2>19. CASE AttachRefused
    BY <2>19 DEF AttachRefused, Goto
  <2>20. CASE RegisterCallback
    BY <2>20 DEF RegisterCallback, Goto
  <2>21. CASE LoopTop
    BY <2>21 DEF LoopTop
  <2>22. CASE ParseInitial
    BY <2>22 DEF ParseInitial
  <2>23. CASE CheckPermission
    BY <2>23 DEF CheckPermission
  <2>24. ASSUME NEW c \in Sessions, OpenWebsocket(c) PROVE TurnSame
    BY <2>24 DEF OpenWebsocket, Goto
  <2>25. ASSUME NEW c \in Sessions, Deliver(c) PROVE TurnSame
    BY <2>25 DEF Deliver, worker
  <2>26. ASSUME NEW c \in Sessions, SendEntry(c) PROVE TurnSame
    BY <2>26 DEF SendEntry, worker
  <2>27. ASSUME NEW c \in Sessions, PollTurn(c) PROVE TurnSame
    BY <2>27 DEF PollTurn, worker
  <2>28. ASSUME NEW c \in Sessions, PollClosed(c) PROVE TurnSame
    BY <2>28 DEF PollClosed, worker
  <2>29. ASSUME NEW c \in Sessions, CheckClosed(c) PROVE TurnSame
    BY <2>29 DEF CheckClosed, worker
  <2>30. ASSUME NEW c \in Sessions, KyoukoStreams(c) PROVE TurnSame
    BY <2>30 DEF KyoukoStreams, worker
  <2>31. ASSUME NEW c \in Sessions, DeleteClient(c) PROVE TurnSame
    BY <2>31 DEF DeleteClient, Running, TypeOK
  <2>32. CASE StopThread \/ UNCHANGED vars
    BY <2>32, <2>2 DEF StopThread, vars, Running
  <2>. QED
    BY <2>1, <2>2, <2>3, <2>4, <2>5, <2>6, <2>7, <2>8, <2>9,
       <2>10, <2>11, <2>12, <2>13, <2>14, <2>15, <2>16, <2>17,
       <2>18, <2>19, <2>20, <2>21, <2>22, <2>23, <2>24, <2>25,
       <2>26, <2>27, <2>28, <2>29, <2>30, <2>31, <2>32
    DEF Next, Worker, Proceed, WithPeer, Callback
<1>. QED
  BY <1>1, <1>2, TypeCorrect, OwnershipInvariant, HandshakeInvariant,
     EndedInvariant, PTL DEF Spec, TurnsSpec

(* No callback of an earlier websocket is left, not even in its polling    *)
(* loop, when m_webSocket is pointed at the next stream.                   *)
THEOREM HandoverIsQuiet ==
  ASSUME LibraryContract PROVE Spec => QuietHandover
<1>1. TypeOK /\ Ownership /\ Handshake /\ [Next]_vars
      => [webSocket' # webSocket => \A c \in Sessions : cb[c] = "none"]_vars
  <2>. SUFFICES ASSUME Ownership, Handshake, Next, webSocket' # webSocket
                PROVE  \A c \in Sessions : cb[c] = "none"
    OBVIOUS
  <2>. USE DEF flags, stream, login, kyouko, worker
  <2>1. ~Proceed
    BY DEF Proceed, StartWebsocket, LoopTop, AwaitTurn, ForwardMessage,
       EndSession, ParseInitial, CheckPermission, AttachShiori, AttachKyouko,
       AttachRefused, RegisterCallback, CloseClient, ReleaseClient, LeaveSession,
       ThreadEnds
  <2>2. /\ ~AcceptFails /\ ~AcceptWebsocket /\ ~ReadMessage /\ ~ReadFails
        /\ ~AckSent /\ ~AckFails /\ ~StopThread
    BY DEF AcceptFails, AcceptWebsocket, ReadMessage, ReadFails, AckSent, AckFails,
       StopThread
  <2>3. \A c \in Sessions :
          ~Callback(c) /\ ~SendDone(c) /\ ~KyoukoStreams(c) /\ ~DeleteClient(c)
    BY DEF Callback, Deliver, SendEntry, PollTurn, PollClosed, CheckClosed,
       SendDone, KyoukoStreams, DeleteClient
  <2>4. pc = "idle"
    BY <2>1, <2>2, <2>3 DEF Next, Worker, WithPeer, OpenWebsocket, Goto
  <2>5. client = NoClient
    BY <2>4 DEF Ownership, ClientInv, MayOwn, Answered
  <2>. QED
    BY <2>5, BridgeAssumption DEF Handshake, CallbackInv, BridgeAssumption
<1>. QED
  BY <1>1, TypeCorrect, OwnershipInvariant, HandshakeInvariant, PTL
  DEF Spec, QuietHandover
=============================================================================
