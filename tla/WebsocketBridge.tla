---------------------------- MODULE WebsocketBridge ----------------------------
(***************************************************************************)
(* One HttpWebsocketThread object serving websockets, one after another,   *)
(* and the threads of the messaging library that call back into it.        *)
(*                                                                         *)
(* The worker thread reads a message from the websocket, hands it to the   *)
(* backend client and, for kyouko, waits until the answer has been written *)
(* by streamDataCallback -> sendData, which runs on a thread of the        *)
(* temporary kyouko client.  The two threads share m_waitForInput,         *)
(* m_websocketClosed and m_webSocket without a lock; m_waitForInput is the *)
(* turn that decides which of them may use the stream.  Every step below   *)
(* makes at most one access to shared data that the other thread can see.  *)
(*                                                                         *)
(* A session is one websocket together with the temporary client that may  *)
(* be created for it (the role of m_uuid).  An identifier is reused once   *)
(* its client has been deleted, so the number of sessions is unbounded.    *)
(***************************************************************************)
EXTENDS Naturals

CONSTANTS
  Sessions,      \* identifiers of websocket sessions and their clients
  NoSession,     \* m_webSocket before the first websocket
  SharedClient,  \* the permanent client of shiori
  NoClient,      \* m_client == nullptr
  MaxMail,       \* bound on undelivered stream messages of one client
  Env            \* what the environment may do, see EnvBehaviours

(***************************************************************************)
(* What src/ does not decide, each off unless named in Env:                *)
(*   ack_fails       the write of the initial response may throw           *)
(*   forward_fails   sendStreamMessage may fail (its result is dropped)    *)
(*   early_stream    kyouko may stream before it got any message           *)
(*   detached_close  closeClient may return while a callback is running    *)
(*   stop            Thread::m_abort may be set (nothing in src/ does)     *)
(***************************************************************************)
EnvBehaviours ==
  {"ack_fails", "forward_fails", "early_stream", "detached_close", "stop"}

ASSUME BridgeAssumption ==
  /\ NoSession \notin Sessions
  /\ SharedClient \notin Sessions
  /\ NoClient \notin Sessions \cup {SharedClient}
  /\ MaxMail \in Nat \ {0}
  /\ Env \subseteq EnvBehaviours

VARIABLES
  pc,               \* where the worker thread is
  abort,            \* Thread::m_abort
  webSocket,        \* m_webSocket: the session whose stream it points to
  live,             \* does that stream (a local of handleSocket) still exist?
  waitForInput,     \* m_waitForInput
  websocketClosed,  \* m_websocketClosed
  client,           \* m_client
  target,           \* m_target
  granted,          \* target for which misaki granted the last check
  conn,             \* state of each backend client
  asked,            \* clients over which kyouko has received a message
  owed,             \* clients over which kyouko has a message to answer
  sent,             \* did the last message to a backend reach it?
  mail,             \* stream messages of kyouko not yet delivered
  cb                \* where each client's thread is inside sendData

flags  == <<waitForInput, websocketClosed>>
stream == <<webSocket, live>>
login  == <<target, granted>>
kyouko == <<asked, owed, sent, mail>>
vars == <<pc, abort, stream, flags, client, login, conn, kyouko, cb>>

Targets == {"shiori", "kyouko", "other"}
NoTarget == ""

WorkerPc == {"idle", "accept", "start", "loop", "spin", "read", "initial",
             "authorize", "attach", "register", "ack", "forward", "end",
             "close", "join", "over", "done"}
CallbackPc == {"none", "entry", "poll", "pollClosed", "check", "write"}
\* none: not existing; open: connected; linked: stream callback set; closed.
ConnState == {"none", "open", "linked", "closed"}
IsOpen(c) == conn[c] \in {"open", "linked"}

Goto(from, to) == pc = from /\ pc' = to

Init ==
  /\ pc = "idle" /\ abort = FALSE
  /\ webSocket = NoSession /\ live = FALSE
  /\ waitForInput = TRUE /\ websocketClosed = TRUE
  /\ client = NoClient /\ target = NoTarget /\ granted = NoTarget
  /\ conn = [c \in Sessions \cup {SharedClient} |->
               IF c = SharedClient THEN "open" ELSE "none"]
  /\ asked = [s \in Sessions |-> FALSE]
  /\ owed = [s \in Sessions |-> FALSE] /\ sent = TRUE
  /\ mail = [s \in Sessions |-> 0]
  /\ cb = [s \in Sessions |-> "none"]

-----------------------------------------------------------------------------
(* The worker thread: run, handleSocket, initWebsocket.                    *)

(* A queued connection asks for an upgrade; m_webSocket is pointed at the  *)
(* new stream.  The identifier is one of no remaining client.              *)
OpenWebsocket(s) ==
  /\ Goto("idle", "accept")
  /\ ~abort
  /\ conn[s] = "none" /\ cb[s] = "none"
  /\ webSocket' = s /\ live' = TRUE
  /\ granted' = NoTarget
  /\ UNCHANGED <<abort, flags, client, target, conn, kyouko, cb>>

(* accept() throws anything but `closed`: handleSocket returns and the     *)
(* stream is destroyed, m_webSocket keeps pointing to it.                  *)
AcceptFails ==
  /\ Goto("accept", "idle")
  /\ live' = FALSE
  /\ UNCHANGED <<abort, webSocket, flags, client, login, conn, kyouko, cb>>

AcceptWebsocket ==
  /\ Goto("accept", "start")
  /\ UNCHANGED <<abort, stream, flags, client, login, conn, kyouko, cb>>

ThreadEnds ==
  /\ Goto("idle", "done")
  /\ abort
  /\ UNCHANGED <<abort, stream, flags, client, login, conn, kyouko, cb>>

-----------------------------------------------------------------------------
(* The worker thread: runWebsocket.                                        *)

StartWebsocket ==
  /\ Goto("start", "loop")
  /\ websocketClosed' = FALSE
  /\ UNCHANGED <<abort, stream, waitForInput, client, login, conn, kyouko, cb>>

LoopTopIgnoresAbort ==
  /\ Goto("loop", "spin")
  /\ UNCHANGED <<abort, stream, flags, client, login, conn, kyouko, cb>>

LoopTop ==
  /\ pc = "loop"
  /\ pc' = IF abort THEN "end" ELSE "spin"
  /\ UNCHANGED <<abort, stream, flags, client, login, conn, kyouko, cb>>

(* The loop that sleeps until it is the websocket's turn.                  *)
AwaitTurn ==
  /\ pc = "spin"
  /\ waitForInput \/ websocketClosed
  /\ pc' = IF websocketClosed THEN "end" ELSE "read"
  /\ UNCHANGED <<abort, stream, flags, client, login, conn, kyouko, cb>>

ReadMessageAlwaysInitial ==
  /\ Goto("read", "initial")
  /\ waitForInput' = FALSE
  /\ UNCHANGED <<abort, stream, websocketClosed, client, login, conn, kyouko, cb>>

ReadMessage ==
  /\ pc = "read"
  /\ waitForInput' = FALSE
  /\ pc' = IF client = NoClient THEN "initial" ELSE "forward"
  /\ UNCHANGED <<abort, stream, websocketClosed, client, login, conn, kyouko, cb>>

ReadFailsAfterTurnTaken ==
  /\ Goto("read", "end")
  /\ waitForInput' = FALSE
  /\ UNCHANGED <<abort, stream, websocketClosed, client, login, conn, kyouko, cb>>

(* read() throws: the peer closed the websocket or the connection broke.   *)
ReadFails ==
  /\ Goto("read", "end")
  /\ UNCHANGED <<abort, stream, flags, client, login, conn, kyouko, cb>>

(* The initial response is written and the turn goes to the websocket.     *)
AckSent ==
  /\ Goto("ack", "loop")
  /\ waitForInput' = TRUE
  /\ UNCHANGED <<abort, stream, websocketClosed, client, login, conn, kyouko, cb>>

AckFails ==
  /\ "ack_fails" \in Env
  /\ Goto("ack", "end")
  /\ UNCHANGED <<abort, stream, flags, client, login, conn, kyouko, cb>>

TurnAfterForwardAlways == TRUE

(* Only for shiori the worker takes the turn back itself.                  *)
TurnAfterForward == IF target = "shiori" THEN TRUE ELSE waitForInput

(* Nobody looks at the result of sendStreamMessage.                        *)
ForwardMessage ==
  /\ Goto("forward", "loop")
  /\ sent' \in BOOLEAN
  /\ sent' \/ "forward_fails" \in Env
  /\ IF sent' /\ client \in Sessions
       THEN /\ asked' = [asked EXCEPT ![client] = TRUE]
            /\ owed' = [owed EXCEPT ![client] = TRUE]
       ELSE UNCHANGED <<asked, owed>>
  /\ waitForInput' = TurnAfterForward
  /\ UNCHANGED <<abort, stream, websocketClosed, client, login, conn, mail, cb>>

EndSessionFlagKept ==
  /\ Goto("end", "close")
  /\ UNCHANGED <<abort, stream, flags, client, login, conn, kyouko, cb>>

(* Reached at the end of the loop and from every exception handler.        *)
EndSession ==
  /\ Goto("end", "close")
  /\ websocketClosed' = TRUE
  /\ UNCHANGED <<abort, stream, waitForInput, client, login, conn, kyouko, cb>>

-----------------------------------------------------------------------------
(* The worker thread: processInitialMessage and closeClient.               *)

ParseInitial ==
  /\ pc = "initial"
  /\ \/ pc' = "ack" /\ UNCHANGED target              \* not a json-message
     \/ pc' = "authorize" /\ target' \in Targets
  /\ UNCHANGED <<abort, stream, flags, client, granted, conn, kyouko, cb>>

CheckPermissionDropped ==
  /\ Goto("authorize", "attach")
  /\ granted' \in {NoTarget, target}
  /\ UNCHANGED <<abort, stream, flags, client, target, conn, kyouko, cb>>

(* checkPermission fails, or misaki denies, or misaki grants.              *)
CheckPermission ==
  /\ pc = "authorize"
  /\ granted' \in {NoTarget, target}
  /\ pc' = IF granted' = target THEN "attach" ELSE "ack"
  /\ UNCHANGED <<abort, stream, flags, client, target, conn, kyouko, cb>>

AttachShiori ==
  /\ target = "shiori"
  /\ Goto("attach", "ack")
  /\ client' \in {NoClient, SharedClient}
  /\ UNCHANGED <<abort, stream, flags, login, conn, kyouko, cb>>

(* createTemporaryClient: without a stream callback of its own yet.        *)
AttachKyouko ==
  /\ target = "kyouko"
  /\ Goto("attach", "register")
  /\ client' = webSocket
  /\ conn' = [conn EXCEPT ![webSocket] = "open"]
  /\ UNCHANGED <<abort, stream, flags, login, kyouko, cb>>

AttachRefused ==
  /\ target # "shiori"
  /\ Goto("attach", "ack")
  /\ UNCHANGED <<abort, stream, flags, client, login, conn, kyouko, cb>>

RegisterCallback ==
  /\ Goto("register", "ack")
  /\ conn' = [conn EXCEPT ![client] = "linked"]
  /\ UNCHANGED <<abort, stream, flags, client, login, kyouko, cb>>

IsTemporaryAfterReset == client # NoClient /\ target = NoTarget

(* The test closeClient makes before it closes m_client.                   *)
IsTemporary == client # NoClient /\ target = "kyouko"

(* From here on the library starts no callback for a temporary client.    *)
CloseClient ==
  /\ Goto("close", "join")
  /\ conn' = IF IsTemporary THEN [conn EXCEPT ![client] = "closed"] ELSE conn
  /\ UNCHANGED <<abort, stream, flags, client, login, kyouko, cb>>

(* closeClient of the library returns, the client is up for deletion.      *)
ReleaseClient ==
  /\ Goto("join", "over")
  /\ IsTemporary => "detached_close" \in Env \/ cb[client] = "none"
  /\ client' = NoClient
  /\ UNCHANGED <<abort, stream, flags, login, conn, kyouko, cb>>

(* Back in handleSocket: members reset, the stream goes out of scope.      *)
LeaveSession ==
  /\ Goto("over", "idle")
  /\ client' = NoClient /\ target' = NoTarget
  /\ live' = FALSE
  /\ UNCHANGED <<abort, webSocket, flags, granted, conn, kyouko, cb>>

-----------------------------------------------------------------------------
(* The thread of temporary client c: streamDataCallback and sendData.      *)

MoveCallback(c, from, to) == cb[c] = from /\ cb' = [cb EXCEPT ![c] = to]
worker == <<pc, abort, stream, client, login, conn>>

DeliverUnchecked(c) ==
  /\ conn[c] = "linked"
  /\ MoveCallback(c, "none", "entry")
  /\ mail' = [mail EXCEPT ![c] = @ - 1]
  /\ UNCHANGED <<worker, flags, asked, owed, sent>>

(* The library calls streamDataCallback for the next stream message.       *)
Deliver(c) ==
  /\ conn[c] = "linked" /\ mail[c] > 0
  /\ MoveCallback(c, "none", "entry")
  /\ mail' = [mail EXCEPT ![c] = @ - 1]
  /\ UNCHANGED <<worker, flags, asked, owed, sent>>

SendEntryUnpolled(c) ==
  /\ MoveCallback(c, "entry", IF abort THEN "none" ELSE "check")
  /\ UNCHANGED <<worker, flags, kyouko>>

SendEntry(c) ==
  /\ MoveCallback(c, "entry", IF abort THEN "none" ELSE "poll")
  /\ UNCHANGED <<worker, flags, kyouko>>

PollTurn(c) ==
  /\ MoveCallback(c, "poll", IF waitForInput THEN "pollClosed" ELSE "check")
  /\ UNCHANGED <<worker, flags, kyouko>>

PollClosed(c) ==
  /\ MoveCallback(c, "pollClosed", IF websocketClosed THEN "check" ELSE "poll")
  /\ UNCHANGED <<worker, flags, kyouko>>

CheckClosed(c) ==
  /\ MoveCallback(c, "check", IF websocketClosed THEN "none" ELSE "write")
  /\ UNCHANGED <<worker, flags, kyouko>>

SendFailsTurnKept(c) ==
  /\ MoveCallback(c, "write", "none")
  /\ waitForInput' \in {TRUE, waitForInput}
  /\ UNCHANGED <<worker, websocketClosed, kyouko>>

(* The write returns or throws; both paths give the turn back.             *)
SendDone(c) ==
  /\ MoveCallback(c, "write", "none")
  /\ waitForInput' = TRUE
  /\ UNCHANGED <<worker, websocketClosed, kyouko>>

-----------------------------------------------------------------------------
(* kyouko, the thread cleanup of the library, and whoever stops threads.   *)

(* Once asked, kyouko may stream as often as it likes; the first stream    *)
(* message after a message is what it owed.                                *)
KyoukoStreams(c) ==
  /\ IsOpen(c) /\ mail[c] < MaxMail
  /\ asked[c] \/ "early_stream" \in Env
  /\ mail' = [mail EXCEPT ![c] = @ + 1]
  /\ owed' = [owed EXCEPT ![c] = FALSE]
  /\ UNCHANGED <<worker, flags, asked, sent, cb>>

(* A client scheduled for deletion goes when its thread is out of sendData.*)
DeleteClient(c) ==
  /\ conn[c] = "closed" /\ client # c /\ cb[c] = "none"
  /\ conn' = [conn EXCEPT ![c] = "none"]
  /\ asked' = [asked EXCEPT ![c] = FALSE]
  /\ owed' = [owed EXCEPT ![c] = FALSE]
  /\ mail' = [mail EXCEPT ![c] = 0]
  /\ UNCHANGED <<sent, pc, abort, stream, flags, client, login, cb>>

StopThread ==
  /\ "stop" \in Env /\ ~abort
  /\ abort' = TRUE
  /\ UNCHANGED <<pc, stream, flags, client, login, conn, kyouko, cb>>

-----------------------------------------------------------------------------
(* Steps the worker takes without its peer.                                *)
Proceed ==
  \/ StartWebsocket \/ LoopTop \/ AwaitTurn \/ ForwardMessage \/ EndSession
  \/ ParseInitial \/ CheckPermission
  \/ AttachShiori \/ AttachKyouko \/ AttachRefused \/ RegisterCallback
  \/ CloseClient \/ ReleaseClient \/ LeaveSession \/ ThreadEnds

(* Handshake, reads and writes are synchronous and without a timeout: they *)
(* end when the peer lets them.                                            *)
WithPeer ==
  \/ (\E s \in Sessions : OpenWebsocket(s)) \/ AcceptFails \/ AcceptWebsocket
  \/ ReadMessage \/ ReadFails \/ AckSent \/ AckFails

Worker == Proceed \/ WithPeer

Callback(c) ==
  \/ Deliver(c) \/ SendEntry(c) \/ PollTurn(c) \/ PollClosed(c) \/ CheckClosed(c)

Next ==
  \/ Worker
  \/ \E c \in Sessions :
       Callback(c) \/ SendDone(c) \/ KyoukoStreams(c) \/ DeleteClient(c)
  \/ StopThread

Spec == Init /\ [][Next]_vars

(* The scheduler runs every thread, calls of the library return, and       *)
(* kyouko answers each message it got once.  Nothing is assumed of peers.  *)
Fairness ==
  /\ WF_vars(Proceed)
  /\ \A c \in Sessions :
       WF_vars(Callback(c)) /\ WF_vars(owed[c] /\ KyoukoStreams(c))

FairSpec == Spec /\ Fairness

-----------------------------------------------------------------------------
TypeOK ==
  /\ pc \in WorkerPc /\ abort \in BOOLEAN
  /\ webSocket \in Sessions \cup {NoSession} /\ live \in BOOLEAN
  /\ waitForInput \in BOOLEAN /\ websocketClosed \in BOOLEAN
  /\ client \in Sessions \cup {SharedClient, NoClient}
  /\ target \in Targets \cup {NoTarget} /\ granted \in Targets \cup {NoTarget}
  /\ conn \in [Sessions \cup {SharedClient} -> ConnState]
  /\ asked \in [Sessions -> BOOLEAN]
  /\ owed \in [Sessions -> BOOLEAN] /\ sent \in BOOLEAN
  /\ mail \in [Sessions -> 0 .. MaxMail]
  /\ cb \in [Sessions -> CallbackPc]

(* The stream is not thread-safe: while sendData writes to m_webSocket     *)
(* (line 290) the worker is neither in read() nor in the write of the      *)
(* initial response, and no other callback writes.                         *)
StreamExclusive ==
  \A c \in Sessions : cb[c] = "write" =>
    /\ pc \notin {"read", "ack"}
    /\ \A d \in Sessions \ {c} : cb[d] # "write"

(* streamDataCallback forwards the data of a client to the websocket that  *)
(* client was created for, and that websocket still exists: never to the   *)
(* next websocket of the same thread.                                      *)
LinkedSession ==
  \A c \in Sessions : cb[c] = "write" => webSocket = c /\ live

(* Whatever ended the websocket before, a new one starts with the turn at  *)
(* its peer; runWebsocket waits for m_waitForInput before its first read.  *)
FreshSession == pc = "start" => waitForInput

(* What the library must promise for the handshake to work: closeClient    *)
(* waits for a running callback, and kyouko only answers.                  *)
LibraryContract == {"detached_close", "early_stream"} \cap Env = {}

(* A connected temporary client is always m_client of the running session  *)
(* with m_target "kyouko", so closeClient will find and close it; the      *)
(* shared shiori client is never closed by a websocket.                    *)
OwnedConnection ==
  /\ \A c \in Sessions : IsOpen(c) =>
       client = c /\ webSocket = c /\ live /\ target = "kyouko"
  /\ conn[SharedClient] = "open"

(* A websocket is attached to a backend only with the consent of misaki    *)
(* for that very backend, however many initial messages were tried.        *)
AttachedIsGranted == client # NoClient => granted = target

WaitsForKyouko == pc = "spin" /\ ~waitForInput /\ target = "kyouko"
MessageLost == WaitsForKyouko /\ ~sent

(* The peer takes what is written to it, be it after a long time.          *)
WritesEnd == []<>(pc # "ack") /\ \A c \in Sessions : []<>(cb[c] # "write")

(* A message read from the websocket ends the websocket's turn; the turn   *)
(* always comes back, by the worker or by an answer of kyouko, unless the  *)
(* thread is stopped, the peer blocks a write, or this very message did    *)
(* not reach kyouko: sendStreamMessage failed and its result was dropped.  *)
TurnReturns ==
  WritesEnd => (~waitForInput ~> waitForInput \/ abort \/ MessageLost)

(* A session that ended is torn down: the worker is not held forever by a  *)
(* callback that waits for its turn, only by one whose write is blocked.   *)
SessionCloses == WritesEnd => (pc = "end" ~> pc = "idle")

(* closeClient waits for a callback whose write the peer blocks.           *)
HeldByWrite == pc = "join" /\ IsTemporary /\ cb[client] = "write"

(* A thread that is asked to stop ends, except that it may wait forever    *)
(* for its peer (in the handshake, in read() or in a write), or for        *)
(* kyouko: the polling loop does not look at m_abort, and sendData of a    *)
(* stopped thread drops the answer without giving the turn back.           *)
StopsUnlessWaiting ==
  []<>abort =>
    <>[](pc \in {"accept", "read", "ack", "done"} \/ WaitsForKyouko \/ HeldByWrite)

-----------------------------------------------------------------------------
(* What HalfDuplex calls session, turn and writes; "ack" is the write of    *)
(* the initial response.                                                   *)
OpenSession == IF live THEN webSocket ELSE NoSession
Turn == IF waitForInput THEN "peer" ELSE "torii"
Writes ==
  (IF pc = "ack" THEN {<<"worker", webSocket>>} ELSE {}) \cup
  {<<"client", c>> : c \in {d \in Sessions : cb[d] = "write"}}

Duplex == INSTANCE HalfDuplex WITH
  Writers <- {"worker", "client"},
  session <- OpenSession, turn <- Turn, writes <- Writes

(* Reads and writes alternate as HalfDuplex promises, however a session    *)
(* ends: the stream belongs to one session, every write answers one        *)
(* message of the peer and carries data of that session.  Holds while the  *)
(* library keeps its contract and the initial response can be written.     *)
DuplexSpec == Duplex!Spec

-----------------------------------------------------------------------------
(* What WebsocketTurns calls its state.  A client counts from the end of   *)
(* the initial response to the end of the session; a stopped thread opens  *)
(* no more websockets.                                                     *)
Turns == INSTANCE WebsocketTurns

Phase ==
  CASE pc \in {"loop", "spin"} -> "turn"
    [] pc \in {"read", "forward"} -> pc
    [] pc \in {"initial", "authorize", "attach", "register", "ack"} -> "respond"
    [] OTHER -> "none"
Attached == Phase \in {"turn", "read", "forward"} /\ client # NoClient
TurnState ==
  IF abort THEN Turns!Stopped
    ELSE [phase |-> Phase, waitForInput |-> waitForInput,
          client |-> IF ~Attached THEN "none"
                       ELSE IF client = SharedClient THEN "shiori" ELSE "kyouko",
          due |-> Attached /\ client \in Sessions /\ asked[client]]

(* Whatever fails, the websockets of one thread take their turns as        *)
(* WebsocketTurns says: the turn a websocket leaves is the one the next    *)
(* one finds, and once a websocket ended nothing changes the turn, least   *)
(* of all a late answer of its client.                                     *)
TurnsSpec == TurnState = Turns!Fresh /\ [][TurnState' \in Turns!Next(TurnState)]_TurnState

(* When m_webSocket is pointed at the next stream no callback of an        *)
(* earlier websocket is left inside sendData, not even in its polling loop *)
(* (line 279), where it would take the next websocket's turn for its own.  *)
QuietHandover ==
  [][webSocket' # webSocket => \A c \in Sessions : cb[c] = "none"]_vars
=============================================================================
