------------------------------ MODULE HttpServer ------------------------------
(***************************************************************************)
(* The accept thread of HttpServer, its queue of sockets under             *)
(* m_queueMutex, and the pool of HttpWebsocketThreads that poll it.        *)
(*                                                                         *)
(* A socket is a pointer: its identifier is free again once the object has *)
(* been deleted.  What handleSocket does with a socket is WebsocketBridge  *)
(* and ControlRequest; here it is only whether the thread comes back soon  *)
(* (a request) or perhaps never (a websocket, a peer that never sends: all *)
(* reads are synchronous and without a timeout).                           *)
(***************************************************************************)
EXTENDS Naturals, Sequences, FiniteSets

CONSTANTS
  Sockets,        \* addresses of socket objects; bounds those alive at once
  NoSocket,       \* nullptr
  Workers,        \* the HttpWebsocketThreads
  Server,         \* the accept thread, as holder of the mutex
  Nobody,         \* no thread holds the mutex
  MaxWebsockets,  \* websockets the peers keep open at the same time
  Env             \* what may go wrong, see EnvBehaviours

(***************************************************************************)
(*   start_fails   the address, the port or a certificate is not usable    *)
(*   accept_fails  accept() may throw                                      *)
(*   stop          Thread::m_abort may be set (nothing in src/ does)       *)
(***************************************************************************)
EnvBehaviours == {"start_fails", "accept_fails", "stop"}

ASSUME ServerAssumption ==
  /\ NoSocket \notin Sockets
  /\ Server \notin Workers /\ Nobody \notin Workers /\ Nobody # Server
  /\ MaxWebsockets \in Nat
  /\ Env \subseteq EnvBehaviours

VARIABLES
  serverPc,   \* where the accept thread is
  certs,      \* has m_ctx got its certificate and key?
  fresh,      \* the socket the accept thread has created
  allocated,  \* socket objects that exist
  queue,      \* m_queue
  mutex,      \* the thread inside m_queueMutex
  workerPc,   \* where each worker is
  result      \* the socket getSocket gave to each worker

server == <<serverPc, certs, fresh>>
vars == <<server, allocated, queue, mutex, workerPc, result>>

ServerPc == {"start", "loop", "accept", "add", "push", "ended"}
WorkerPc == {"idle", "look", "pop", "serve", "session", "delete", "done"}

Init ==
  /\ serverPc = "start" /\ certs = FALSE /\ fresh = NoSocket
  /\ allocated = {} /\ queue = <<>> /\ mutex = Nobody
  /\ workerPc = [w \in Workers |-> "idle"]
  /\ result = [w \in Workers |-> NoSocket]

ServerGoto(from, to) == serverPc = from /\ serverPc' = to
Goto(w, from, to) == workerPc[w] = from /\ workerPc' = [workerPc EXCEPT ![w] = to]

-----------------------------------------------------------------------------
(* The accept thread: HttpServer::run and addSocket.                       *)

StartServer ==
  /\ ServerGoto("start", "loop")
  /\ certs' = TRUE
  /\ UNCHANGED <<fresh, allocated, queue, mutex, workerPc, result>>

StartFailsIgnored ==
  /\ "start_fails" \in Env
  /\ ServerGoto("start", "loop")
  /\ UNCHANGED <<certs, fresh, allocated, queue, mutex, workerPc, result>>

(* A constructor throws or loadCertificates returns false.                 *)
StartFails ==
  /\ "start_fails" \in Env
  /\ ServerGoto("start", "ended")
  /\ UNCHANGED <<certs, fresh, allocated, queue, mutex, workerPc, result>>

CreateSocket(s) ==
  /\ ServerGoto("loop", "accept")
  /\ s \notin allocated
  /\ allocated' = allocated \cup {s}
  /\ fresh' = s
  /\ UNCHANGED <<certs, queue, mutex, workerPc, result>>

Accept ==
  /\ ServerGoto("accept", "add")
  /\ UNCHANGED <<certs, fresh, allocated, queue, mutex, workerPc, result>>

(* The exception leaves the loop: the thread ends, the socket is lost.     *)
AcceptFails ==
  /\ "accept_fails" \in Env
  /\ ServerGoto("accept", "ended")
  /\ fresh' = NoSocket
  /\ UNCHANGED <<certs, allocated, queue, mutex, workerPc, result>>

LockToAdd ==
  /\ ServerGoto("add", "push")
  /\ mutex = Nobody
  /\ mutex' = Server
  /\ UNCHANGED <<certs, fresh, allocated, queue, workerPc, result>>

PushNull ==
  /\ ServerGoto("push", "loop")
  /\ queue' = Append(queue, NoSocket)
  /\ fresh' = NoSocket /\ mutex' = Nobody
  /\ UNCHANGED <<certs, allocated, workerPc, result>>

PushFront ==
  /\ ServerGoto("push", "loop")
  /\ queue' = <<fresh>> \o queue
  /\ fresh' = NoSocket /\ mutex' = Nobody
  /\ UNCHANGED <<certs, allocated, workerPc, result>>

PushSocket ==
  /\ ServerGoto("push", "loop")
  /\ queue' = Append(queue, fresh)
  /\ fresh' = NoSocket /\ mutex' = Nobody
  /\ UNCHANGED <<certs, allocated, workerPc, result>>

ServerStops ==
  /\ "stop" \in Env
  /\ ServerGoto("loop", "ended")
  /\ UNCHANGED <<certs, fresh, allocated, queue, mutex, workerPc, result>>

-----------------------------------------------------------------------------
(* A worker: HttpWebsocketThread::run and getSocket.                       *)

LockUnguarded(w) ==
  /\ Goto(w, "idle", "look")
  /\ UNCHANGED <<server, allocated, queue, mutex, result>>

Lock(w) ==
  /\ Goto(w, "idle", "look")
  /\ mutex = Nobody
  /\ mutex' = w
  /\ UNCHANGED <<server, allocated, queue, result>>

(* nullptr is returned and the worker sleeps before it tries again.        *)
FindEmpty(w) ==
  /\ Goto(w, "look", "idle")
  /\ queue = <<>>
  /\ mutex' = Nobody
  /\ UNCHANGED <<server, allocated, queue, result>>

TakeFrontOfTwo(w) ==
  /\ Goto(w, "look", IF Len(queue) > 1 THEN "pop" ELSE "idle")
  /\ queue # <<>>
  /\ result' = IF Len(queue) > 1 THEN [result EXCEPT ![w] = Head(queue)] ELSE result
  /\ mutex' = IF Len(queue) > 1 THEN mutex ELSE Nobody
  /\ UNCHANGED <<server, allocated, queue>>

(* m_queue.front(), while the queue still holds the pointer.               *)
TakeFront(w) ==
  /\ Goto(w, "look", "pop")
  /\ queue # <<>>
  /\ result' = [result EXCEPT ![w] = Head(queue)]
  /\ UNCHANGED <<server, allocated, queue, mutex>>

PopFront(w) ==
  /\ Goto(w, "pop", "serve")
  /\ queue' = Tail(queue)
  /\ mutex' = Nobody
  /\ UNCHANGED <<server, allocated, result>>

(* handleSocket returns after one request, or after a failed handshake.    *)
ServeRequest(w) ==
  /\ Goto(w, "serve", "delete")
  /\ UNCHANGED <<server, allocated, queue, mutex, result>>

OpenSessions == {w \in Workers : workerPc[w] = "session"}

(* handleSocket stays in runWebsocket for as long as the peer likes.       *)
ServeWebsocket(w) ==
  /\ Goto(w, "serve", "session")
  /\ Cardinality(OpenSessions) < MaxWebsockets
  /\ UNCHANGED <<server, allocated, queue, mutex, result>>

WebsocketEnds(w) ==
  /\ Goto(w, "session", "delete")
  /\ UNCHANGED <<server, allocated, queue, mutex, result>>

DeleteForgotten(w) ==
  /\ Goto(w, "delete", "idle")
  /\ result' = [result EXCEPT ![w] = NoSocket]
  /\ UNCHANGED <<server, allocated, queue, mutex>>

DeleteSocket(w) ==
  /\ Goto(w, "delete", "idle")
  /\ allocated' = allocated \ {result[w]}
  /\ result' = [result EXCEPT ![w] = NoSocket]
  /\ UNCHANGED <<server, queue, mutex>>

WorkerStops(w) ==
  /\ "stop" \in Env
  /\ Goto(w, "idle", "done")
  /\ UNCHANGED <<server, allocated, queue, mutex, result>>

-----------------------------------------------------------------------------
ServerNext ==
  \/ StartServer \/ StartFails \/ (\E s \in Sockets : CreateSocket(s))
  \/ Accept \/ AcceptFails \/ LockToAdd \/ PushSocket \/ ServerStops

(* Steps a worker takes without waiting for a lock or for the peer.        *)
Proceed(w) ==
  \/ FindEmpty(w) \/ TakeFront(w) \/ PopFront(w)
  \/ ServeRequest(w) \/ ServeWebsocket(w) \/ DeleteSocket(w)

WorkerNext(w) == Proceed(w) \/ Lock(w) \/ WebsocketEnds(w) \/ WorkerStops(w)

Next == ServerNext \/ \E w \in Workers : WorkerNext(w)

Spec == Init /\ [][Next]_vars

(* Every thread is scheduled; the mutex is free while the others sleep or  *)
(* wait for peers, so no thread misses it forever.  A websocket may stay   *)
(* open and a peer may never come: Accept and WebsocketEnds are not fair.  *)
Fairness ==
  /\ WF_vars(PushSocket)
  /\ \A w \in Workers : WF_vars(Proceed(w)) /\ SF_vars(Lock(w))

FairSpec == Spec /\ Fairness

-----------------------------------------------------------------------------
TypeOK ==
  /\ serverPc \in ServerPc /\ certs \in BOOLEAN
  /\ fresh \in Sockets \cup {NoSocket}
  /\ allocated \in SUBSET Sockets
  /\ queue \in Seq(Sockets)
  /\ mutex \in Workers \cup {Server, Nobody}
  /\ workerPc \in [Workers -> WorkerPc]
  /\ result \in [Workers -> Sockets \cup {NoSocket}]

Queued == {queue[i] : i \in DOMAIN queue}
Held == {result[w] : w \in Workers} \ {NoSocket}

(* No socket object is given to two workers, is queued twice, or is used   *)
(* or queued after one of them deleted it.                                 *)
OneOwner ==
  /\ \A v, w \in Workers : result[v] = result[w] => v = w \/ result[w] = NoSocket
  /\ \A i, j \in DOMAIN queue : queue[i] = queue[j] => i = j
  /\ \A w \in Workers : result[w] \in Queued => workerPc[w] = "pop"
  /\ Held \cup Queued \subseteq allocated

(* Every socket created by the accept thread is in somebody's hands; only  *)
(* an accept that throws loses one, and it is the last.                    *)
NothingLeaks ==
  LET lost == allocated \ (Held \cup Queued \cup {fresh}) IN
  lost # {} => serverPc = "ended" /\ Cardinality(lost) = 1

(* A worker starts the handshake with m_ctx, filled by another thread,     *)
(* only once certificate and key are in it.                                *)
ContextReady == \A w \in Workers : workerPc[w] \in {"serve", "session"} => certs

(* The queue and the pool hand connections out in the order they came,     *)
(* each to one worker (ConnectionPool).  Inside getSocket the front        *)
(* belongs to the worker although it is still in the queue.                *)
Popping == \E w \in Workers : workerPc[w] = "pop"
Waiting == IF Popping THEN Tail(queue) ELSE queue

pool == INSTANCE ConnectionPool WITH
  Connections <- Sockets, Threads <- Workers, NoConnection <- NoSocket,
  waiting <- Waiting, serving <- result

PoolSpec == pool!Spec

(* While the peers keep fewer websockets open than there are workers and   *)
(* no worker is stopped, every queued connection is taken by one, also     *)
(* after the accept thread has ended.                                      *)
EveryConnectionServed ==
  [](\A w \in Workers : workerPc[w] # "done") => \A s \in Sockets :
    s \in Queued ~> \E w \in Workers : result[w] = s /\ workerPc[w] = "serve"
=============================================================================
