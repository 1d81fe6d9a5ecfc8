----------------------------- MODULE StartupProofs -----------------------------
(***************************************************************************)
(* Theorems about Startup for every configuration and every width of the   *)
(* integers.                                                               *)
(***************************************************************************)
EXTENDS Startup, TLAPS

(* A thread runs only after CreateServer, and never on the way to a        *)
(* failure of main.                                                        *)
ThreadsRun == i > 0 \/ serverThread # "none"
Late == {"threads", "sakura", "add", "sleep"}

OrderInv ==
  /\ ThreadsRun => httpServer /\ pc \in Late
  /\ pc \in {"start", "threads"} => httpServer
  /\ pc \notin {"main", "messaging", "exited"} => messaging

-----------------------------------------------------------------------------
(* Every variable keeps its type; the counter of the loop never exceeds    *)
(* the converted number of threads, so it fits where that number fits.     *)
THEOREM TypeCorrect == Spec => []TypeOK
<1>. USE StartupAssumption DEF StartupAssumption, services
<1>1. Init => TypeOK
  <2>1. 0 \in 0 .. ThreadValues - 1
    OBVIOUS
  <2>. QED
    BY <2>1 DEF Init, TypeOK, MainPc, ServerState, SakuraState
<1>2. TypeOK /\ [Next]_vars => TypeOK'
  <2>. SUFFICES ASSUME TypeOK, [Next]_vars PROVE TypeOK'
    OBVIOUS
  <2>. USE DEF TypeOK, MainPc, ServerState, SakuraState
  <2>1. CASE InitMain
    BY <2>1 DEF InitMain
  <2>2. CASE InitMessaging
    BY <2>2 DEF InitMessaging
  <2>3. CASE CheckHttpEnabled
    BY <2>3 DEF CheckHttpEnabled
  <2>4. CASE CreateServer
    BY <2>4 DEF CreateServer, Goto
  <2>5. CASE StartServerThread
    BY <2>5 DEF StartServerThread, Goto
  <2>6. CASE StartWorker
    <3>1. (i + 1) % ThreadValues \in 0 .. ThreadValues - 1
      OBVIOUS
    <3>. QED
      BY <2>6, <3>1 DEF StartWorker
  <2>7. CASE WorkersStarted
    BY <2>7 DEF WorkersStarted, Goto
  <2>8. CASE CheckSakuraEnabled
    BY <2>8 DEF CheckSakuraEnabled
  <2>9. CASE AddServer
    BY <2>9 DEF AddServer, Goto, AddServerResults
  <2>10. CASE Bind
    BY <2>10 DEF Bind, ServerStep
  <2>11. CASE BindFails
    BY <2>11 DEF BindFails, ServerStep
  <2>12. CASE LoadCertificates
    BY <2>12 DEF LoadCertificates, ServerStep
  <2>13. CASE LoadCertificatesFails
    BY <2>13 DEF LoadCertificatesFails, ServerStep
  <2>14. CASE UNCHANGED vars
    BY <2>14 DEF vars
  <2>. QED
    BY <2>1, <2>2, <2>3, <2>4, <2>5, <2>6, <2>7, <2>8, <2>9, <2>10, <2>11,
       <2>12, <2>13, <2>14 DEF Next, MainThread, ServerThread
<1>. QED
  BY <1>1, <1>2, PTL DEF Spec

LEMMA OrderInvariant == Spec => []OrderInv
<1>. USE StartupAssumption DEF StartupAssumption, services
<1>1. Init => OrderInv
  BY DEF Init, OrderInv, ThreadsRun
<1>2. TypeOK /\ OrderInv /\ [Next]_vars => OrderInv'
  <2>. SUFFICES ASSUME TypeOK, OrderInv, [Next]_vars PROVE OrderInv'
    OBVIOUS
  <2>. USE DEF TypeOK, OrderInv, ThreadsRun, Late
  <2>1. CASE InitMain
    BY <2>1 DEF InitMain
  <2>2. CASE InitMessaging
    BY <2>2 DEF InitMessaging
  <2>3. CASE CheckHttpEnabled
    BY <2>3 DEF CheckHttpEnabled
  <2>4. CASE CreateServer
    BY <2>4 DEF CreateServer, Goto
  <2>5. CASE StartServerThread
    BY <2>5 DEF StartServerThread, Goto
  <2>6. CASE StartWorker
    BY <2>6 DEF StartWorker
  <2>7. CASE WorkersStarted
    BY <2>7 DEF WorkersStarted, Goto
  <2>8. CASE CheckSakuraEnabled
    BY <2>8 DEF CheckSakuraEnabled
  <2>9. CASE AddServer
    BY <2>9 DEF AddServer, Goto
  <2>10. CASE Bind
    BY <2>10 DEF Bind, ServerStep
  <2>11. CASE BindFails
    BY <2>11 DEF BindFails, ServerStep
  <2>12. CASE LoadCertificates
    BY <2>12 DEF LoadCertificates, ServerStep
  <2>13. CASE LoadCertificatesFails
    BY <2>13 DEF LoadCertificatesFails, ServerStep
  <2>14. CASE UNCHANGED vars
    BY <2>14 DEF vars
  <2>. QED
    BY <2>1, <2>2, <2>3, <2>4, <2>5, <2>6, <2>7, <2>8, <2>9, <2>10, <2>11,
       <2>12, <2>13, <2>14 DEF Next, MainThread, ServerThread
<1>. QED
  BY <1>1, <1>2, TypeCorrect, PTL DEF Spec

(* No thread runs before ToriiGateway::httpServer and HanamiMessaging      *)
(* exist, so neither pointer needs a check in the threads.                 *)
THEOREM ServicesComeFirst == Spec => []ThreadsFindServices
<1>1. OrderInv => ThreadsFindServices
  BY DEF OrderInv, ThreadsRun, Late, ThreadsFindServices
<1>. QED
  BY <1>1, OrderInvariant, PTL

(* main never returns while a thread of the gateway runs.                  *)
THEOREM MainOutlivesThreads == Spec => []NoThreadSurvivesMain
<1>1. TypeOK /\ OrderInv => NoThreadSurvivesMain
  BY DEF TypeOK, OrderInv, ThreadsRun, Late, NoThreadSurvivesMain
<1>. QED
  BY <1>1, TypeCorrect, OrderInvariant, PTL

-----------------------------------------------------------------------------
(* How far the start got, by where the main thread is.                     *)
Early == {"main", "messaging", "http", "create", "start"}
Past == {"sakura", "add", "sleep"}

ProgressInv ==
  /\ pc \in Early => i = 0 /\ serverThread = "none"
  /\ pc \in {"create", "start", "threads"} => config.http
  /\ pc = "threads" => i <= NumberOfThreads /\ serverThread # "none"
  /\ pc \in Past /\ config.http => i = NumberOfThreads /\ serverThread # "none"
  /\ pc \in Past /\ ~config.http => i = 0 /\ serverThread = "none"
  /\ pc = "add" => config.sakura
  /\ pc = "sleep" => (config.sakura <=> sakuraServer # "none")
  /\ pc # "sleep" => sakuraServer = "none"

LEMMA SmallRemainder ==
  ASSUME NEW n \in Int, NEW m \in Nat \ {0}, 0 <= n, n < m PROVE n % m = n
OBVIOUS

LEMMA NumberFits ==
  ASSUME config \in Configs PROVE NumberOfThreads \in 0 .. ThreadValues - 1
<1>1. config.threads \in Int /\ ThreadValues \in Nat \ {0}
  BY StartupAssumption DEF StartupAssumption, Configs
<1>. QED
  BY <1>1 DEF NumberOfThreads

LEMMA ProgressInvariant == Spec => []ProgressInv
<1>. USE StartupAssumption DEF StartupAssumption, services
<1>1. Init => ProgressInv
  BY DEF Init, ProgressInv, Early, Past
<1>2. TypeOK /\ ProgressInv /\ [Next]_vars => ProgressInv'
  <2>. SUFFICES ASSUME TypeOK, ProgressInv, [Next]_vars PROVE ProgressInv'
    OBVIOUS
  <2>a. config' = config => NumberOfThreads' = NumberOfThreads
    BY DEF NumberOfThreads
  <2>b. NumberOfThreads \in 0 .. ThreadValues - 1
    BY NumberFits DEF TypeOK
  <2>. USE <2>a, <2>b DEF TypeOK, ProgressInv, Early, Past, MainPc
  <2>1. CASE InitMain
    BY <2>1 DEF InitMain
  <2>2. CASE InitMessaging
    BY <2>2 DEF InitMessaging
  <2>3. CASE CheckHttpEnabled
    BY <2>3 DEF CheckHttpEnabled
  <2>4. CASE CreateServer
    BY <2>4 DEF CreateServer, Goto
  <2>5. CASE StartServerThread
    BY <2>5 DEF StartServerThread, Goto
  <2>6. CASE StartWorker
    <3>1. i < NumberOfThreads /\ i' = i + 1
      BY <2>6, SmallRemainder DEF StartWorker, ThreadsWanted
    <3>. QED
      BY <2>6, <3>1 DEF StartWorker
  <2>7. CASE WorkersStarted
    BY <2>7 DEF WorkersStarted, Goto, ThreadsWanted
  <2>8. CASE CheckSakuraEnabled
    BY <2>8 DEF CheckSakuraEnabled
  <2>9. CASE AddServer
    BY <2>9 DEF AddServer, Goto, AddServerResults
  <2>10. CASE Bind
    BY <2>10 DEF Bind, ServerStep
  <2>11. CASE BindFails
    BY <2>11 DEF BindFails, ServerStep
  <2>12. CASE LoadCertificates
    BY <2>12 DEF LoadCertificates, ServerStep
  <2>13. CASE LoadCertificatesFails
    BY <2>13 DEF LoadCertificatesFails, ServerStep
  <2>14. CASE UNCHANGED vars
    BY <2>14 DEF vars
  <2>. QED
    BY <2>1, <2>2, <2>3, <2>4, <2>5, <2>6, <2>7, <2>8, <2>9, <2>10, <2>11,
       <2>12, <2>13, <2>14 DEF Next, MainThread, ServerThread
<1>. QED
  BY <1>1, <1>2, TypeCorrect, PTL DEF Spec

(* Where nothing may fail, only a port that both servers want can fail.    *)
CollisionInv ==
  Env = {} /\ ~(config.http /\ config.sakura /\ Collide) => ~Failed

LEMMA CollisionInvariant == Spec => []CollisionInv
<1>1. Init => CollisionInv
  BY DEF Init, CollisionInv, Failed
<1>2. TypeOK /\ ProgressInv /\ CollisionInv /\ [Next]_vars => CollisionInv'
  <2>. SUFFICES ASSUME TypeOK, ProgressInv, CollisionInv, [Next]_vars
                PROVE  CollisionInv'
    OBVIOUS
  <2>. USE DEF services, TypeOK, ProgressInv, Early, Past, CollisionInv, Failed,
       Collide, HttpPort, SakuraPort, HttpHoldsPort, SakuraHoldsPort
  <2>1. CASE InitMain
    BY <2>1 DEF InitMain
  <2>2. CASE InitMessaging
    BY <2>2 DEF InitMessaging
  <2>3. CASE CheckHttpEnabled
    BY <2>3 DEF CheckHttpEnabled
  <2>4. CASE CreateServer
    BY <2>4 DEF CreateServer, Goto
  <2>5. CASE StartServerThread
    BY <2>5 DEF StartServerThread, Goto
  <2>6. CASE StartWorker
    BY <2>6 DEF StartWorker
  <2>7. CASE WorkersStarted
    BY <2>7 DEF WorkersStarted, Goto, ThreadsWanted
  <2>8. CASE CheckSakuraEnabled
    BY <2>8 DEF CheckSakuraEnabled
  <2>9. CASE AddServer
    BY <2>9 DEF AddServer, Goto, AddServerResults
  <2>10. CASE Bind
    BY <2>10 DEF Bind, ServerStep
  <2>11. CASE BindFails
    BY <2>11 DEF BindFails, ServerStep
  <2>12. CASE LoadCertificates
    BY <2>12 DEF LoadCertificates, ServerStep
  <2>13. CASE LoadCertificatesFails
    BY <2>13 DEF LoadCertificatesFails, ServerStep
  <2>14. CASE UNCHANGED vars
    BY <2>14 DEF vars
  <2>. QED
    BY <2>1, <2>2, <2>3, <2>4, <2>5, <2>6, <2>7, <2>8, <2>9, <2>10, <2>11,
       <2>12, <2>13, <2>14 DEF Next, MainThread, ServerThread
<1>. QED
  BY <1>1, <1>2, TypeCorrect, ProgressInvariant, PTL DEF Spec

(* The safety half of ComesUp: when the main thread sleeps and the one of  *)
(* the server is through with its start, the gateway runs as configured or *)
(* something failed that may fail.  StartEnds is the other half.           *)
Settled == pc \in {"sleep", "exited"} /\ serverThread \notin {"starting", "bound"}

THEOREM SettlesAsConfigured ==
  Spec => [](Fits /\ Settled => AsConfigured \/ (Env # {} /\ Failed))
<1>1. TypeOK /\ ProgressInv /\ CollisionInv
      => (Fits /\ Settled => AsConfigured \/ (Env # {} /\ Failed))
  <2>. SUFFICES ASSUME TypeOK, ProgressInv, CollisionInv, Fits, Settled, ~Failed
                PROVE  AsConfigured
    BY DEF CollisionInv, Fits
  <2>1. NumberOfThreads = config.threads
    BY SmallRemainder, StartupAssumption
    DEF StartupAssumption, Fits, NumberOfThreads, TypeOK, Configs
  <2>2. pc = "sleep"
    BY DEF Settled, Failed
  <2>3. config.http => serverThread = "listening" /\ i = config.threads
    BY <2>1, <2>2 DEF ProgressInv, Past, Settled, Failed, TypeOK, ServerState
  <2>4. ~config.http => serverThread = "none" /\ i = 0
    BY <2>2 DEF ProgressInv, Past
  <2>5. sakuraServer = IF config.sakura THEN "listening" ELSE "none"
    BY <2>2 DEF ProgressInv, Failed, TypeOK, SakuraState
  <2>. QED
    BY <2>2, <2>3, <2>4, <2>5 DEF AsConfigured
<1>. QED
  BY <1>1, TypeCorrect, ProgressInvariant, CollisionInvariant, PTL

(* How far the promise of init is broken: only where bind, the reading of  *)
(* the certificates or addServer fails, or both servers want one port.     *)
THEOREM InitReportsUnlessServersFail ==
  ASSUME Env \cap {"bind", "certificates", "addServer"} = {}
  PROVE  Spec => [](~Collide => InitReports)
<1>. DEFINE Inv == ~Collide => serverThread # "dead" /\ sakuraServer # "failed"
<1>1. Init => Inv
  BY DEF Init
<1>2. Inv /\ [Next]_vars => Inv'
  <2>. SUFFICES ASSUME Inv, [Next]_vars PROVE Inv'
    OBVIOUS
  <2>. USE DEF services, Collide, HttpPort, SakuraPort, HttpHoldsPort, SakuraHoldsPort
  <2>1. CASE InitMain
    BY <2>1 DEF InitMain
  <2>2. CASE InitMessaging
    BY <2>2 DEF InitMessaging
  <2>3. CASE CheckHttpEnabled
    BY <2>3 DEF CheckHttpEnabled
  <2>4. CASE CreateServer
    BY <2>4 DEF CreateServer, Goto
  <2>5. CASE StartServerThread
    BY <2>5 DEF StartServerThread, Goto
  <2>6. CASE StartWorker
    BY <2>6 DEF StartWorker
  <2>7. CASE WorkersStarted
    BY <2>7 DEF WorkersStarted, Goto, ThreadsWanted
  <2>8. CASE CheckSakuraEnabled
    BY <2>8 DEF CheckSakuraEnabled
  <2>9. CASE AddServer
    BY <2>9 DEF AddServer, Goto, AddServerResults
  <2>10. CASE Bind
    BY <2>10 DEF Bind, ServerStep
  <2>11. CASE BindFails
    BY <2>11 DEF BindFails, ServerStep
  <2>12. CASE LoadCertificates
    BY <2>12 DEF LoadCertificates, ServerStep
  <2>13. CASE LoadCertificatesFails
    BY <2>13 DEF LoadCertificatesFails, ServerStep
  <2>14. CASE UNCHANGED vars
    BY <2>14 DEF vars
  <2>. QED
    BY <2>1, <2>2, <2>3, <2>4, <2>5, <2>6, <2>7, <2>8, <2>9, <2>10, <2>11,
       <2>12, <2>13, <2>14 DEF Next, MainThread, ServerThread
<1>3. Inv => (~Collide => InitReports)
  BY DEF InitReports
<1>. QED
  BY <1>1, <1>2, <1>3, PTL DEF Spec
=============================================================================
