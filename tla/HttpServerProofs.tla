--------------------------- MODULE HttpServerProofs ---------------------------
(***************************************************************************)
(* Theorems about HttpServer for every number of sockets and workers and   *)
(* every environment Env allows.                                           *)
(***************************************************************************)
EXTENDS HttpServer, FiniteSetTheorems, TLAPS

(* Who is inside m_queueMutex.                                             *)
MutexInv ==
  /\ mutex = Server <=> serverPc = "push"
  /\ \A w \in Workers : mutex = w <=> workerPc[w] \in {"look", "pop"}

(* When a thread has a socket in its hands.                                *)
HoldInv ==
  /\ fresh # NoSocket <=> serverPc \in {"accept", "add", "push"}
  /\ \A w \in Workers :
       result[w] # NoSocket <=> workerPc[w] \in {"pop", "serve", "session", "delete"}
  /\ \A w \in Workers :
       workerPc[w] = "pop" => queue # <<>> /\ result[w] = Head(queue)

(* Sockets in the queue, in the hands of workers and in those of the       *)
(* accept thread are alive and differ from each other.                     *)
QueueInv ==
  /\ \A i \in DOMAIN queue : queue[i] \in allocated /\ queue[i] # fresh
  /\ \A i, j \in DOMAIN queue : queue[i] = queue[j] => i = j
WorkerInv ==
  /\ fresh \in allocated \cup {NoSocket}
  /\ \A w \in Workers :
       result[w] # NoSocket => result[w] \in allocated /\ result[w] # fresh
  /\ \A v, w \in Workers : result[v] = result[w] => v = w \/ result[w] = NoSocket
ApartInv ==
  \A w \in Workers : workerPc[w] # "pop" => \A i \in DOMAIN queue : queue[i] # result[w]

IInv == MutexInv /\ HoldInv /\ QueueInv /\ WorkerInv /\ ApartInv

-----------------------------------------------------------------------------
(* Types and the inductive invariant are proved together: only the         *)
(* invariant says that the accept thread queues a socket and not nullptr.  *)
LEMMA Inductive == Spec => [](TypeOK /\ IInv)
<1>. USE ServerAssumption DEF ServerAssumption, server
<1>1. Init => TypeOK /\ IInv
  <2>1. Init => TypeOK
    <3>. SUFFICES ASSUME Init PROVE TypeOK
      OBVIOUS
    <3>1. queue \in Seq(Sockets)
      BY DEF Init
    <3>2. workerPc \in [Workers -> WorkerPc]
      BY DEF Init, WorkerPc
    <3>. QED
      BY <3>1, <3>2 DEF Init, TypeOK, ServerPc
  <2>2. Init => IInv
    BY DEF Init, IInv, MutexInv, HoldInv, QueueInv, WorkerInv, ApartInv
  <2>. QED
    BY <2>1, <2>2
<1>2. TypeOK /\ IInv /\ [Next]_vars => TypeOK'
  <2>. SUFFICES ASSUME TypeOK, IInv, [Next]_vars PROVE TypeOK'
    OBVIOUS
  <2>. USE DEF TypeOK
  <2>1. CASE StartServer
    BY <2>1 DEF StartServer, ServerGoto, ServerPc
  <2>2. CASE StartFails
    BY <2>2 DEF StartFails, ServerGoto, ServerPc
  <2>3. CASE Accept
    BY <2>3 DEF Accept, ServerGoto, ServerPc
  <2>4. CASE AcceptFails
    BY <2>4 DEF AcceptFails, ServerGoto, ServerPc
  <2>5. CASE LockToAdd
    BY <2>5 DEF LockToAdd, ServerGoto, ServerPc
  <2>6. CASE PushSocket
    <3>1. fresh \in Sockets
      BY <2>6 DEF PushSocket, ServerGoto, IInv, HoldInv
    <3>. QED
      BY <2>6, <3>1 DEF PushSocket, ServerGoto, ServerPc
  <2>7. CASE ServerStops
    BY <2>7 DEF ServerStops, ServerGoto, ServerPc
  <2>8. ASSUME NEW k \in Sockets, CreateSocket(k) PROVE TypeOK'
    BY <2>8 DEF CreateSocket, ServerGoto, ServerPc
  <2>9. ASSUME NEW u \in Workers, FindEmpty(u) PROVE TypeOK'
    BY <2>9 DEF FindEmpty, Goto, WorkerPc
  <2>10. ASSUME NEW u \in Workers, TakeFront(u) PROVE TypeOK'
    <3>1. Head(queue) \in Sockets
      BY <2>10 DEF TakeFront
    <3>. QED
      BY <2>10, <3>1 DEF TakeFront, Goto, WorkerPc
  <2>11. ASSUME NEW u \in Workers, PopFront(u) PROVE TypeOK'
    <3>1. queue # <<>>
      BY <2>11 DEF PopFront, Goto, IInv, HoldInv
    <3>2. Tail(queue) \in Seq(Sockets)
      BY <3>1
    <3>. QED
      BY <2>11, <3>2 DEF PopFront, Goto, WorkerPc
  <2>12. ASSUME NEW u \in Workers, ServeRequest(u) PROVE TypeOK'
    BY <2>12 DEF ServeRequest, Goto, WorkerPc
  <2>13. ASSUME NEW u \in Workers, ServeWebsocket(u) PROVE TypeOK'
    BY <2>13 DEF ServeWebsocket, Goto, WorkerPc
  <2>14. ASSUME NEW u \in Workers, DeleteSocket(u) PROVE TypeOK'
    BY <2>14 DEF DeleteSocket, Goto, WorkerPc
  <2>15. ASSUME NEW u \in Workers, Lock(u) PROVE TypeOK'
    BY <2>15 DEF Lock, Goto, WorkerPc
  <2>16. ASSUME NEW u \in Workers, WebsocketEnds(u) PROVE TypeOK'
    BY <2>16 DEF WebsocketEnds, Goto, WorkerPc
  <2>17. ASSUME NEW u \in Workers, WorkerStops(u) PROVE TypeOK'
    BY <2>17 DEF WorkerStops, Goto, WorkerPc
  <2>18. CASE UNCHANGED vars
    BY <2>18 DEF vars
  <2>. QED
    BY <2>1, <2>2, <2>3, <2>4, <2>5, <2>6, <2>7, <2>8, <2>9, <2>10, <2>11,
       <2>12, <2>13, <2>14, <2>15, <2>16, <2>17, <2>18 DEF Next, ServerNext,
       WorkerNext, Proceed
<1>3. TypeOK /\ IInv /\ [Next]_vars => IInv'
  <2>. SUFFICES ASSUME TypeOK, IInv, [Next]_vars PROVE IInv'
    OBVIOUS
  <2>. USE DEF TypeOK, IInv
  <2>1. CASE StartServer
    <3>1. MutexInv'
      BY <2>1 DEF StartServer, ServerGoto, MutexInv
    <3>2. HoldInv'
      BY <2>1 DEF StartServer, ServerGoto, HoldInv, MutexInv
    <3>3. QueueInv'
      BY <2>1 DEF StartServer, ServerGoto, QueueInv, HoldInv
    <3>4. WorkerInv'
      BY <2>1 DEF StartServer, ServerGoto, WorkerInv, HoldInv, QueueInv, ApartInv
    <3>5. ApartInv'
      BY <2>1 DEF StartServer, ServerGoto, ApartInv, HoldInv, QueueInv, WorkerInv,
         MutexInv
    <3>. QED
      BY <3>1, <3>2, <3>3, <3>4, <3>5 DEF IInv
  <2>2. CASE StartFails
    <3>1. MutexInv'
      BY <2>2 DEF StartFails, ServerGoto, MutexInv
    <3>2. HoldInv'
      BY <2>2 DEF StartFails, ServerGoto, HoldInv, MutexInv
    <3>3. QueueInv'
      BY <2>2 DEF StartFails, ServerGoto, QueueInv, HoldInv
    <3>4. WorkerInv'
      BY <2>2 DEF StartFails, ServerGoto, WorkerInv, HoldInv, QueueInv, ApartInv
    <3>5. ApartInv'
      BY <2>2 DEF StartFails, ServerGoto, ApartInv, HoldInv, QueueInv, WorkerInv,
         MutexInv
    <3>. QED
      BY <3>1, <3>2, <3>3, <3>4, <3>5 DEF IInv
  <2>3. CASE Accept
    <3>1. MutexInv'
      BY <2>3 DEF Accept, ServerGoto, MutexInv
    <3>2. HoldInv'
      BY <2>3 DEF Accept, ServerGoto, HoldInv, MutexInv
    <3>3. QueueInv'
      BY <2>3 DEF Accept, ServerGoto, QueueInv, HoldInv
    <3>4. WorkerInv'
      BY <2>3 DEF Accept, ServerGoto, WorkerInv, HoldInv, QueueInv, ApartInv
    <3>5. ApartInv'
      BY <2>3 DEF Accept, ServerGoto, ApartInv, HoldInv, QueueInv, WorkerInv,
         MutexInv
    <3>. QED
      BY <3>1, <3>2, <3>3, <3>4, <3>5 DEF IInv
  <2>4. CASE AcceptFails
    <3>1. MutexInv'
      BY <2>4 DEF AcceptFails, ServerGoto, MutexInv
    <3>2. HoldInv'
      BY <2>4 DEF AcceptFails, ServerGoto, HoldInv, MutexInv
    <3>3. QueueInv'
      BY <2>4 DEF AcceptFails, ServerGoto, QueueInv, HoldInv
    <3>4. WorkerInv'
      BY <2>4 DEF AcceptFails, ServerGoto, WorkerInv, HoldInv, QueueInv, ApartInv
    <3>5. ApartInv'
      BY <2>4 DEF AcceptFails, ServerGoto, ApartInv, HoldInv, QueueInv, WorkerInv,
         MutexInv
    <3>. QED
      BY <3>1, <3>2, <3>3, <3>4, <3>5 DEF IInv
  <2>5. CASE LockToAdd
    <3>1. MutexInv'
      BY <2>5 DEF LockToAdd, ServerGoto, MutexInv
    <3>2. HoldInv'
      BY <2>5 DEF LockToAdd, ServerGoto, HoldInv, MutexInv
    <3>3. QueueInv'
      BY <2>5 DEF LockToAdd, ServerGoto, QueueInv, HoldInv
    <3>4. WorkerInv'
      BY <2>5 DEF LockToAdd, ServerGoto, WorkerInv, HoldInv, QueueInv, ApartInv
    <3>5. ApartInv'
      BY <2>5 DEF LockToAdd, ServerGoto, ApartInv, HoldInv, QueueInv, WorkerInv,
         MutexInv
    <3>. QED
      BY <3>1, <3>2, <3>3, <3>4, <3>5 DEF IInv
  <2>6. CASE PushSocket
    <3>1. MutexInv'
      BY <2>6 DEF PushSocket, ServerGoto, MutexInv
    <3>2. HoldInv'
      BY <2>6 DEF PushSocket, ServerGoto, HoldInv, MutexInv
    <3>3. QueueInv'
      <4>1. DOMAIN queue' = DOMAIN queue \cup {Len(queue) + 1}
        BY <2>6 DEF PushSocket
      <4>2. \A i \in DOMAIN queue : queue'[i] = queue[i]
        BY <2>6 DEF PushSocket
      <4>3. queue'[Len(queue) + 1] = fresh
        BY <2>6 DEF PushSocket
      <4>4. fresh \in allocated /\ fresh' = NoSocket /\ NoSocket \notin allocated
        BY <2>6 DEF PushSocket, ServerGoto, HoldInv, WorkerInv
      <4>. QED
        BY <2>6, <4>1, <4>2, <4>3, <4>4 DEF PushSocket, QueueInv
    <3>4. WorkerInv'
      BY <2>6 DEF PushSocket, ServerGoto, WorkerInv, HoldInv, QueueInv, ApartInv
    <3>5. ApartInv'
      BY <2>6 DEF PushSocket, ServerGoto, ApartInv, HoldInv, QueueInv, WorkerInv,
         MutexInv
    <3>. QED
      BY <3>1, <3>2, <3>3, <3>4, <3>5 DEF IInv
  <2>7. CASE ServerStops
    <3>1. MutexInv'
      BY <2>7 DEF ServerStops, ServerGoto, MutexInv
    <3>2. HoldInv'
      BY <2>7 DEF ServerStops, ServerGoto, HoldInv, MutexInv
    <3>3. QueueInv'
      BY <2>7 DEF ServerStops, ServerGoto, QueueInv, HoldInv
    <3>4. WorkerInv'
      BY <2>7 DEF ServerStops, ServerGoto, WorkerInv, HoldInv, QueueInv, ApartInv
    <3>5. ApartInv'
      BY <2>7 DEF ServerStops, ServerGoto, ApartInv, HoldInv, QueueInv, WorkerInv,
         MutexInv
    <3>. QED
      BY <3>1, <3>2, <3>3, <3>4, <3>5 DEF IInv
  <2>8. ASSUME NEW k \in Sockets, CreateSocket(k) PROVE IInv'
    <3>1. MutexInv'
      BY <2>8 DEF CreateSocket, ServerGoto, MutexInv
    <3>2. HoldInv'
      BY <2>8 DEF CreateSocket, ServerGoto, HoldInv, MutexInv
    <3>3. QueueInv'
      BY <2>8 DEF CreateSocket, ServerGoto, QueueInv, HoldInv
    <3>4. WorkerInv'
      BY <2>8 DEF CreateSocket, ServerGoto, WorkerInv, HoldInv, QueueInv, ApartInv
    <3>5. ApartInv'
      BY <2>8 DEF CreateSocket, ServerGoto, ApartInv, HoldInv, QueueInv,
         WorkerInv, MutexInv
    <3>. QED
      BY <3>1, <3>2, <3>3, <3>4, <3>5 DEF IInv
  <2>9. ASSUME NEW u \in Workers, FindEmpty(u) PROVE IInv'
    <3>1. MutexInv'
      BY <2>9 DEF FindEmpty, Goto, MutexInv
    <3>2. HoldInv'
      BY <2>9 DEF FindEmpty, Goto, HoldInv, MutexInv
    <3>3. QueueInv'
      BY <2>9 DEF FindEmpty, Goto, QueueInv, HoldInv
    <3>4. WorkerInv'
      BY <2>9 DEF FindEmpty, Goto, WorkerInv, HoldInv, QueueInv, ApartInv
    <3>5. ApartInv'
      BY <2>9 DEF FindEmpty, Goto, ApartInv, HoldInv, QueueInv, WorkerInv,
         MutexInv
    <3>. QED
      BY <3>1, <3>2, <3>3, <3>4, <3>5 DEF IInv
  <2>10. ASSUME NEW u \in Workers, TakeFront(u) PROVE IInv'
    <3>1. MutexInv'
      BY <2>10 DEF TakeFront, Goto, MutexInv
    <3>2. HoldInv'
      BY <2>10 DEF TakeFront, Goto, HoldInv, MutexInv
    <3>3. QueueInv'
      BY <2>10 DEF TakeFront, Goto, QueueInv, HoldInv
    <3>4. WorkerInv'
      <4>1. 1 \in DOMAIN queue /\ Head(queue) = queue[1]
        BY <2>10 DEF TakeFront
      <4>2. queue[1] \in Sockets \cap allocated /\ queue[1] # fresh
        BY <4>1 DEF QueueInv
      <4>3. \A w \in Workers \ {u} : result[w] # queue[1]
        BY <2>10, <4>1 DEF TakeFront, Goto, ApartInv, MutexInv
      <4>. QED
        BY <2>10, <4>1, <4>2, <4>3 DEF TakeFront, Goto, WorkerInv
    <3>5. ApartInv'
      BY <2>10 DEF TakeFront, Goto, ApartInv, HoldInv, QueueInv, WorkerInv,
         MutexInv
    <3>. QED
      BY <3>1, <3>2, <3>3, <3>4, <3>5 DEF IInv
  <2>11. ASSUME NEW u \in Workers, PopFront(u) PROVE IInv'
    <3>1. MutexInv'
      BY <2>11 DEF PopFront, Goto, MutexInv
    <3>2. HoldInv'
      BY <2>11 DEF PopFront, Goto, HoldInv, MutexInv
    <3>3. QueueInv'
      BY <2>11 DEF PopFront, Goto, QueueInv, HoldInv
    <3>4. WorkerInv'
      BY <2>11 DEF PopFront, Goto, WorkerInv, HoldInv, QueueInv, ApartInv
    <3>5. ApartInv'
      BY <2>11 DEF PopFront, Goto, ApartInv, HoldInv, QueueInv, WorkerInv, MutexInv
    <3>. QED
      BY <3>1, <3>2, <3>3, <3>4, <3>5 DEF IInv
  <2>12. ASSUME NEW u \in Workers, ServeRequest(u) PROVE IInv'
    <3>1. MutexInv'
      BY <2>12 DEF ServeRequest, Goto, MutexInv
    <3>2. HoldInv'
      BY <2>12 DEF ServeRequest, Goto, HoldInv, MutexInv
    <3>3. QueueInv'
      BY <2>12 DEF ServeRequest, Goto, QueueInv, HoldInv
    <3>4. WorkerInv'
      BY <2>12 DEF ServeRequest, Goto, WorkerInv, HoldInv, QueueInv, ApartInv
    <3>5. ApartInv'
      BY <2>12 DEF ServeRequest, Goto, ApartInv, HoldInv, QueueInv, WorkerInv,
         MutexInv
    <3>. QED
      BY <3>1, <3>2, <3>3, <3>4, <3>5 DEF IInv
  <2>13. ASSUME NEW u \in Workers, ServeWebsocket(u) PROVE IInv'
    <3>1. MutexInv'
      BY <2>13 DEF ServeWebsocket, Goto, MutexInv
    <3>2. HoldInv'
      BY <2>13 DEF ServeWebsocket, Goto, HoldInv, MutexInv
    <3>3. QueueInv'
      BY <2>13 DEF ServeWebsocket, Goto, QueueInv, HoldInv
    <3>4. WorkerInv'
      BY <2>13 DEF ServeWebsocket, Goto, WorkerInv, HoldInv, QueueInv, ApartInv
    <3>5. ApartInv'
      BY <2>13 DEF ServeWebsocket, Goto, ApartInv, HoldInv, QueueInv, WorkerInv,
         MutexInv
    <3>. QED
      BY <3>1, <3>2, <3>3, <3>4, <3>5 DEF IInv
  <2>14. ASSUME NEW u \in Workers, DeleteSocket(u) PROVE IInv'
    <3>1. MutexInv'
      BY <2>14 DEF DeleteSocket, Goto, MutexInv
    <3>2. HoldInv'
      BY <2>14 DEF DeleteSocket, Goto, HoldInv, MutexInv
    <3>3. QueueInv'
      BY <2>14 DEF DeleteSocket, Goto, QueueInv, HoldInv, ApartInv
    <3>4. WorkerInv'
      BY <2>14 DEF DeleteSocket, Goto, WorkerInv, HoldInv, QueueInv, ApartInv
    <3>5. ApartInv'
      BY <2>14 DEF DeleteSocket, Goto, ApartInv, HoldInv, QueueInv, WorkerInv,
         MutexInv
    <3>. QED
      BY <3>1, <3>2, <3>3, <3>4, <3>5 DEF IInv
  <2>15. ASSUME NEW u \in Workers, Lock(u) PROVE IInv'
    <3>1. MutexInv'
      BY <2>15 DEF Lock, Goto, MutexInv
    <3>2. HoldInv'
      BY <2>15 DEF Lock, Goto, HoldInv, MutexInv
    <3>3. QueueInv'
      BY <2>15 DEF Lock, Goto, QueueInv, HoldInv
    <3>4. WorkerInv'
      BY <2>15 DEF Lock, Goto, WorkerInv, HoldInv, QueueInv, ApartInv
    <3>5. ApartInv'
      BY <2>15 DEF Lock, Goto, ApartInv, HoldInv, QueueInv, WorkerInv, MutexInv
    <3>. QED
      BY <3>1, <3>2, <3>3, <3>4, <3>5 DEF IInv
  <2>16. ASSUME NEW u \in Workers, WebsocketEnds(u) PROVE IInv'
    <3>1. MutexInv'
      BY <2>16 DEF WebsocketEnds, Goto, MutexInv
    <3>2. HoldInv'
      BY <2>16 DEF WebsocketEnds, Goto, HoldInv, MutexInv
    <3>3. QueueInv'
      BY <2>16 DEF WebsocketEnds, Goto, QueueInv, HoldInv
    <3>4. WorkerInv'
      BY <2>16 DEF WebsocketEnds, Goto, WorkerInv, HoldInv, QueueInv, ApartInv
    <3>5. ApartInv'
      BY <2>16 DEF WebsocketEnds, Goto, ApartInv, HoldInv, QueueInv, WorkerInv,
         MutexInv
    <3>. QED
      BY <3>1, <3>2, <3>3, <3>4, <3>5 DEF IInv
  <2>17. ASSUME NEW u \in Workers, WorkerStops(u) PROVE IInv'
    <3>1. MutexInv'
      BY <2>17 DEF WorkerStops, Goto, MutexInv
    <3>2. HoldInv'
      BY <2>17 DEF WorkerStops, Goto, HoldInv, MutexInv
    <3>3. QueueInv'
      BY <2>17 DEF WorkerStops, Goto, QueueInv, HoldInv
    <3>4. WorkerInv'
      BY <2>17 DEF WorkerStops, Goto, WorkerInv, HoldInv, QueueInv, ApartInv
    <3>5. ApartInv'
      BY <2>17 DEF WorkerStops, Goto, ApartInv, HoldInv, QueueInv, WorkerInv,
         MutexInv
    <3>. QED
      BY <3>1, <3>2, <3>3, <3>4, <3>5 DEF IInv
  <2>18. CASE UNCHANGED vars
    BY <2>18 DEF vars, MutexInv, HoldInv, QueueInv, WorkerInv, ApartInv
  <2>. QED
    BY <2>1, <2>2, <2>3, <2>4, <2>5, <2>6, <2>7, <2>8, <2>9, <2>10, <2>11,
       <2>12, <2>13, <2>14, <2>15, <2>16, <2>17, <2>18 DEF Next, ServerNext,
       WorkerNext, Proceed
<1>. QED
  BY <1>1, <1>2, <1>3, PTL DEF Spec

(* Every variable keeps its type: TypeOK is an invariant of the server.    *)
THEOREM TypeCorrect == Spec => []TypeOK
BY Inductive, PTL

(* No socket object is handed to two workers, queued twice, or used after  *)
(* its deletion, for any number of workers and sockets.                    *)
THEOREM SocketsHaveOneOwner == Spec => []OneOwner
<1>1. IInv => OneOwner
  BY DEF IInv, HoldInv, QueueInv, WorkerInv, ApartInv, OneOwner, Held, Queued
<1>. QED
  BY <1>1, Inductive, PTL

-----------------------------------------------------------------------------
(* The server implements ConnectionPool: connections are handed out in the *)
(* order in which they arrived, each to one worker.  Only three actions    *)
(* are steps of the pool; the others leave its variables alone.            *)
THEOREM HandsOutInOrder == Spec => PoolSpec
<1>. USE ServerAssumption DEF ServerAssumption, server
<1>1. Init => pool!Init
  BY DEF Init, pool!Init, Waiting, Popping
<1>2. TypeOK /\ IInv /\ [Next]_vars => [pool!Next]_pool!vars
  <2>. SUFFICES ASSUME TypeOK, IInv, [Next]_vars PROVE [pool!Next]_pool!vars
    OBVIOUS
  <2>. USE DEF TypeOK, IInv
  <2>1. ASSUME NEW u \in Workers, workerPc[u] \in {"look", "pop"}
        PROVE \A w \in Workers \ {u} : workerPc[w] # "pop"
    BY <2>1 DEF MutexInv
  <2>2. CASE PushSocket
    <3>1. ~Popping /\ ~Popping'
      BY <2>2 DEF PushSocket, ServerGoto, Popping, MutexInv
    <3>2. Waiting = queue /\ Waiting' = Append(queue, fresh)
      BY <2>2, <3>1 DEF PushSocket, Waiting
    <3>3. fresh \in Sockets
      BY <2>2 DEF PushSocket, ServerGoto, HoldInv
    <3>4. /\ \A i \in DOMAIN queue : queue[i] # fresh
          /\ \A w \in Workers : result[w] # fresh
      BY <3>3 DEF QueueInv, WorkerInv
    <3>5. pool!Arrive(fresh)
      BY <2>2, <3>2, <3>4 DEF PushSocket, pool!Arrive
    <3>. QED
      BY <3>3, <3>5 DEF pool!Next
  <2>3. ASSUME NEW u \in Workers, TakeFront(u) PROVE [pool!Next]_pool!vars
    <3>1. ~Popping
      BY <2>1, <2>3 DEF TakeFront, Goto, Popping
    <3>2. Popping'
      BY <2>3 DEF TakeFront, Goto, Popping
    <3>3. Waiting = queue /\ Waiting' = Tail(queue)
      BY <2>3, <3>1, <3>2 DEF TakeFront, Waiting
    <3>4. result[u] = NoSocket
      BY <2>3 DEF TakeFront, Goto, HoldInv
    <3>5. pool!HandOut(u)
      BY <2>3, <3>3, <3>4 DEF TakeFront, pool!HandOut
    <3>. QED
      BY <3>5 DEF pool!Next
  <2>4. ASSUME NEW u \in Workers, PopFront(u) PROVE [pool!Next]_pool!vars
    <3>1. Popping
      BY <2>4 DEF PopFront, Goto, Popping
    <3>2. ~Popping'
      BY <2>1, <2>4 DEF PopFront, Goto, Popping
    <3>. QED
      BY <2>4, <3>1, <3>2 DEF PopFront, Waiting, pool!vars
  <2>5. ASSUME NEW u \in Workers, DeleteSocket(u) PROVE [pool!Next]_pool!vars
    <3>1. Waiting' = Waiting
      BY <2>5 DEF DeleteSocket, Goto, Waiting, Popping
    <3>2. result[u] # NoSocket
      BY <2>5 DEF DeleteSocket, Goto, HoldInv
    <3>3. pool!Finish(u)
      BY <2>5, <3>1, <3>2 DEF DeleteSocket, pool!Finish
    <3>. QED
      BY <3>3 DEF pool!Next
  <2>6. CASE StartServer
    BY <2>6 DEF StartServer, Waiting, Popping, pool!vars
  <2>7. CASE StartFails
    BY <2>7 DEF StartFails, Waiting, Popping, pool!vars
  <2>8. CASE Accept
    BY <2>8 DEF Accept, Waiting, Popping, pool!vars
  <2>9. CASE AcceptFails
    BY <2>9 DEF AcceptFails, Waiting, Popping, pool!vars
  <2>10. CASE LockToAdd
    BY <2>10 DEF LockToAdd, Waiting, Popping, pool!vars
  <2>11. CASE ServerStops
    BY <2>11 DEF ServerStops, Waiting, Popping, pool!vars
  <2>12. ASSUME NEW k \in Sockets, CreateSocket(k) PROVE [pool!Next]_pool!vars
    BY <2>12 DEF CreateSocket, Waiting, Popping, pool!vars
  <2>13. ASSUME NEW u \in Workers, FindEmpty(u) PROVE [pool!Next]_pool!vars
    BY <2>13 DEF FindEmpty, Goto, Waiting, Popping, pool!vars
  <2>14. ASSUME NEW u \in Workers, ServeRequest(u) PROVE [pool!Next]_pool!vars
    BY <2>14 DEF ServeRequest, Goto, Waiting, Popping, pool!vars
  <2>15. ASSUME NEW u \in Workers, ServeWebsocket(u) PROVE [pool!Next]_pool!vars
    BY <2>15 DEF ServeWebsocket, Goto, Waiting, Popping, pool!vars
  <2>16. ASSUME NEW u \in Workers, Lock(u) PROVE [pool!Next]_pool!vars
    BY <2>16 DEF Lock, Goto, Waiting, Popping, pool!vars
  <2>17. ASSUME NEW u \in Workers, WebsocketEnds(u) PROVE [pool!Next]_pool!vars
    BY <2>17 DEF WebsocketEnds, Goto, Waiting, Popping, pool!vars
  <2>18. ASSUME NEW u \in Workers, WorkerStops(u) PROVE [pool!Next]_pool!vars
    BY <2>18 DEF WorkerStops, Goto, Waiting, Popping, pool!vars
  <2>19. CASE UNCHANGED vars
    BY <2>19 DEF vars, Waiting, Popping, pool!vars
  <2>. QED
    BY <2>2, <2>3, <2>4, <2>5, <2>6, <2>7, <2>8, <2>9, <2>10, <2>11, <2>12,
       <2>13, <2>14, <2>15, <2>16, <2>17, <2>18, <2>19 DEF Next, ServerNext,
       WorkerNext, Proceed
<1>. QED
  BY <1>1, <1>2, Inductive, PTL DEF Spec, PoolSpec, pool!Spec

-----------------------------------------------------------------------------
(* Whoever holds a socket came after the accept thread loaded certificate  *)
(* and key; that thread alone fills the queue.                             *)
CertInv ==
  /\ serverPc \in {"loop", "accept", "add", "push"} => certs
  /\ queue # <<>> => certs
  /\ \A w \in Workers : result[w] # NoSocket => certs

LEMMA CertsLoaded == Spec => []CertInv
<1>. USE ServerAssumption DEF ServerAssumption, server
<1>1. Init => CertInv
  BY DEF Init, CertInv
<1>2. TypeOK /\ CertInv /\ [Next]_vars => CertInv'
  <2>. SUFFICES ASSUME TypeOK, CertInv, [Next]_vars PROVE CertInv'
    OBVIOUS
  <2>. USE DEF TypeOK, CertInv
  <2>1. CASE StartServer
    BY <2>1 DEF StartServer, ServerGoto
  <2>2. CASE StartFails
    BY <2>2 DEF StartFails, ServerGoto
  <2>3. CASE Accept
    BY <2>3 DEF Accept, ServerGoto
  <2>4. CASE AcceptFails
    BY <2>4 DEF AcceptFails, ServerGoto
  <2>5. CASE LockToAdd
    BY <2>5 DEF LockToAdd, ServerGoto
  <2>6. CASE PushSocket
    BY <2>6 DEF PushSocket, ServerGoto
  <2>7. CASE ServerStops
    BY <2>7 DEF ServerStops, ServerGoto
  <2>8. ASSUME NEW k \in Sockets, CreateSocket(k) PROVE CertInv'
    BY <2>8 DEF CreateSocket, ServerGoto
  <2>9. ASSUME NEW u \in Workers, FindEmpty(u) PROVE CertInv'
    BY <2>9 DEF FindEmpty, Goto
  <2>10. ASSUME NEW u \in Workers, TakeFront(u) PROVE CertInv'
    BY <2>10 DEF TakeFront, Goto
  <2>11. ASSUME NEW u \in Workers, PopFront(u) PROVE CertInv'
    BY <2>11 DEF PopFront, Goto
  <2>12. ASSUME NEW u \in Workers, ServeRequest(u) PROVE CertInv'
    BY <2>12 DEF ServeRequest, Goto
  <2>13. ASSUME NEW u \in Workers, ServeWebsocket(u) PROVE CertInv'
    BY <2>13 DEF ServeWebsocket, Goto
  <2>14. ASSUME NEW u \in Workers, DeleteSocket(u) PROVE CertInv'
    BY <2>14 DEF DeleteSocket, Goto
  <2>15. ASSUME NEW u \in Workers, Lock(u) PROVE CertInv'
    BY <2>15 DEF Lock, Goto
  <2>16. ASSUME NEW u \in Workers, WebsocketEnds(u) PROVE CertInv'
    BY <2>16 DEF WebsocketEnds, Goto
  <2>17. ASSUME NEW u \in Workers, WorkerStops(u) PROVE CertInv'
    BY <2>17 DEF WorkerStops, Goto
  <2>18. CASE UNCHANGED vars
    BY <2>18 DEF vars
  <2>. QED
    BY <2>1, <2>2, <2>3, <2>4, <2>5, <2>6, <2>7, <2>8, <2>9, <2>10, <2>11,
       <2>12, <2>13, <2>14, <2>15, <2>16, <2>17, <2>18 DEF Next, ServerNext,
       WorkerNext, Proceed
<1>. QED
  BY <1>1, <1>2, Inductive, PTL DEF Spec

(* No handshake starts with an SSL context another thread has yet to fill. *)
THEOREM ContextIsReady == Spec => []ContextReady
<1>1. TypeOK /\ IInv /\ CertInv => ContextReady
  BY DEF IInv, HoldInv, CertInv, ContextReady
<1>. QED
  BY <1>1, Inductive, CertsLoaded, PTL

-----------------------------------------------------------------------------
(* A socket object nobody has a pointer to.                                *)
IsLost(s) ==
  /\ s \in allocated /\ s # fresh
  /\ \A w \in Workers : result[w] # s
  /\ \A i \in DOMAIN queue : queue[i] # s

LostInv ==
  \A s \in Sockets : IsLost(s) =>
    serverPc = "ended" /\ \A t \in Sockets : IsLost(t) => t = s

LEMMA LostSockets == Spec => []LostInv
<1>. USE ServerAssumption DEF ServerAssumption, server
<1>1. Init => LostInv
  BY DEF Init, LostInv, IsLost
<1>2. TypeOK /\ IInv /\ LostInv /\ [Next]_vars => LostInv'
  <2>. SUFFICES ASSUME TypeOK, IInv, LostInv, [Next]_vars PROVE LostInv'
    OBVIOUS
  <2>. USE DEF TypeOK, IInv
  <2>. DEFINE NoMoreLost == /\ \A s \in Sockets : IsLost(s)' => IsLost(s)
                            /\ serverPc = "ended" => serverPc' = "ended"
  <2>1. CASE StartServer
    <3>1. NoMoreLost
      BY <2>1 DEF StartServer, ServerGoto, HoldInv, IsLost
    <3>. QED
      BY <3>1 DEF LostInv
  <2>2. CASE StartFails
    <3>1. NoMoreLost
      BY <2>2 DEF StartFails, ServerGoto, HoldInv, IsLost
    <3>. QED
      BY <3>1 DEF LostInv
  <2>3. CASE Accept
    <3>1. NoMoreLost
      BY <2>3 DEF Accept, ServerGoto, HoldInv, IsLost
    <3>. QED
      BY <3>1 DEF LostInv
  <2>4. CASE AcceptFails
    <3>1. \A s \in Sockets : ~IsLost(s)
      BY <2>4 DEF AcceptFails, ServerGoto, LostInv
    <3>2. \A s \in Sockets : IsLost(s)' => s = fresh
      BY <2>4, <3>1 DEF AcceptFails, ServerGoto, IsLost
    <3>. QED
      BY <2>4, <3>2 DEF AcceptFails, ServerGoto, LostInv
  <2>5. CASE LockToAdd
    <3>1. NoMoreLost
      BY <2>5 DEF LockToAdd, ServerGoto, HoldInv, IsLost
    <3>. QED
      BY <3>1 DEF LostInv
  <2>6. CASE PushSocket
    <3>1. /\ DOMAIN queue' = DOMAIN queue \cup {Len(queue) + 1}
          /\ \A j \in DOMAIN queue : queue'[j] = queue[j]
          /\ queue'[Len(queue) + 1] = fresh
      BY <2>6 DEF PushSocket
    <3>2. NoMoreLost
      BY <2>6, <3>1 DEF PushSocket, ServerGoto, IsLost
    <3>. QED
      BY <3>2 DEF LostInv
  <2>7. CASE ServerStops
    <3>1. NoMoreLost
      BY <2>7 DEF ServerStops, ServerGoto, HoldInv, IsLost
    <3>. QED
      BY <3>1 DEF LostInv
  <2>8. ASSUME NEW k \in Sockets, CreateSocket(k) PROVE LostInv'
    <3>1. NoMoreLost
      BY <2>8 DEF CreateSocket, ServerGoto, HoldInv, IsLost
    <3>. QED
      BY <3>1 DEF LostInv
  <2>9. ASSUME NEW u \in Workers, FindEmpty(u) PROVE LostInv'
    <3>1. NoMoreLost
      BY <2>9 DEF FindEmpty, Goto, IsLost
    <3>. QED
      BY <3>1 DEF LostInv
  <2>10. ASSUME NEW u \in Workers, TakeFront(u) PROVE LostInv'
    <3>1. result[u] = NoSocket /\ NoSocket \notin Sockets
      BY <2>10 DEF TakeFront, Goto, HoldInv
    <3>2. NoMoreLost
      BY <2>10, <3>1 DEF TakeFront, IsLost
    <3>. QED
      BY <3>2 DEF LostInv
  <2>11. ASSUME NEW u \in Workers, PopFront(u) PROVE LostInv'
    <3>1. queue # <<>> /\ result[u] = queue[1]
      BY <2>11 DEF PopFront, Goto, HoldInv
    <3>2. \A j \in DOMAIN queue \ {1} : j - 1 \in DOMAIN queue' /\ queue'[j - 1] = queue[j]
      BY <2>11, <3>1 DEF PopFront
    <3>3. NoMoreLost
      BY <2>11, <3>1, <3>2 DEF PopFront, IsLost
    <3>. QED
      BY <3>3 DEF LostInv
  <2>12. ASSUME NEW u \in Workers, ServeRequest(u) PROVE LostInv'
    <3>1. NoMoreLost
      BY <2>12 DEF ServeRequest, Goto, IsLost
    <3>. QED
      BY <3>1 DEF LostInv
  <2>13. ASSUME NEW u \in Workers, ServeWebsocket(u) PROVE LostInv'
    <3>1. NoMoreLost
      BY <2>13 DEF ServeWebsocket, Goto, IsLost
    <3>. QED
      BY <3>1 DEF LostInv
  <2>14. ASSUME NEW u \in Workers, DeleteSocket(u) PROVE LostInv'
    <3>1. NoMoreLost
      BY <2>14 DEF DeleteSocket, Goto, IsLost
    <3>. QED
      BY <3>1 DEF LostInv
  <2>15. ASSUME NEW u \in Workers, Lock(u) PROVE LostInv'
    <3>1. NoMoreLost
      BY <2>15 DEF Lock, Goto, IsLost
    <3>. QED
      BY <3>1 DEF LostInv
  <2>16. ASSUME NEW u \in Workers, WebsocketEnds(u) PROVE LostInv'
    <3>1. NoMoreLost
      BY <2>16 DEF WebsocketEnds, Goto, IsLost
    <3>. QED
      BY <3>1 DEF LostInv
  <2>17. ASSUME NEW u \in Workers, WorkerStops(u) PROVE LostInv'
    <3>1. NoMoreLost
      BY <2>17 DEF WorkerStops, Goto, IsLost
    <3>. QED
      BY <3>1 DEF LostInv
  <2>18. CASE UNCHANGED vars
    BY <2>18 DEF vars, LostInv, IsLost
  <2>. QED
    BY <2>1, <2>2, <2>3, <2>4, <2>5, <2>6, <2>7, <2>8, <2>9, <2>10, <2>11,
       <2>12, <2>13, <2>14, <2>15, <2>16, <2>17, <2>18 DEF Next, ServerNext,
       WorkerNext, Proceed
<1>. QED
  BY <1>1, <1>2, Inductive, PTL DEF Spec

(* Whatever the threads do, at most one socket object is ever lost: the    *)
(* one created for an accept that threw.                                   *)
THEOREM AtMostOneLeaks == Spec => []NothingLeaks
<1>. DEFINE lost == allocated \ (Held \cup Queued \cup {fresh})
<1>1. TypeOK /\ LostInv => NothingLeaks
  <2>. SUFFICES ASSUME TypeOK, LostInv, lost # {}
                PROVE  serverPc = "ended" /\ Cardinality(lost) = 1
    BY DEF NothingLeaks
  <2>1. PICK s : s \in lost
    OBVIOUS
  <2>2. \A t \in lost : t \in Sockets /\ IsLost(t)
    BY ServerAssumption DEF ServerAssumption, TypeOK, IsLost, Held, Queued
  <2>3. serverPc = "ended" /\ \A t \in lost : t = s
    BY <2>1, <2>2 DEF LostInv
  <2>4. lost = {s}
    BY <2>1, <2>3
  <2>5. Cardinality({s}) = 1
    BY FS_Singleton
  <2>. QED
    BY <2>3, <2>4, <2>5
<1>. QED
  BY <1>1, Inductive, LostSockets, PTL
=============================================================================
