-------------------------------- MODULE Startup --------------------------------
(***************************************************************************)
(* The start of the gateway: main, ToriiGateway::init, initHttpServer and  *)
(* initSakuraServer on the main thread, and next to them the http-server's *)
(* own thread until it accepts connections.  The configuration is read as  *)
(* signed integers and converted to uint16_t and uint32_t.                 *)
(***************************************************************************)
EXTENDS Integers

CONSTANTS
  Ports,          \* ports a configuration may name
  ThreadCounts,   \* numbers of threads a configuration may name
  PortValues,     \* values of a uint16_t
  ThreadValues,   \* values of a uint32_t
  Env             \* what may fail, see EnvFailures

EnvFailures == {"init", "messaging", "bind", "certificates", "addServer"}

ASSUME StartupAssumption ==
  /\ Ports \subseteq Int /\ ThreadCounts \subseteq Int
  /\ PortValues \in Nat \ {0} /\ ThreadValues \in Nat \ {0}
  /\ Env \subseteq EnvFailures

VARIABLES
  config,         \* the values of the config-file
  pc,             \* where the main thread is
  messaging,      \* has HanamiMessaging been initialised?
  httpServer,     \* ToriiGateway::httpServer # nullptr
  serverThread,   \* the thread of the http-server
  i,              \* workers started, the size of m_threads
  sakuraServer    \* the server of the messaging library

vars == <<config, pc, messaging, httpServer, serverThread, i, sakuraServer>>
services == <<messaging, httpServer, serverThread, i, sakuraServer>>

Configs == [http : BOOLEAN, port : Ports, threads : ThreadCounts,
            sakura : BOOLEAN, sakuraPort : Ports, sameAddress : BOOLEAN]

MainPc == {"main", "messaging", "http", "create", "start", "threads",
           "sakura", "add", "sleep", "exited"}
ServerState == {"none", "starting", "bound", "listening", "dead"}
SakuraState == {"none", "listening", "failed"}

\* Conversions to unsigned integers wrap around.
HttpPort == config.port % PortValues
SakuraPort == config.sakuraPort % PortValues
NumberOfThreads == config.threads % ThreadValues

\* Two servers cannot listen at one address and port; port 0 is any free port.
Collide == config.sameAddress /\ HttpPort = SakuraPort /\ HttpPort # 0
HttpHoldsPort == Collide /\ serverThread \in {"bound", "listening"}
SakuraHoldsPort == Collide /\ sakuraServer = "listening"

Goto(from, to) == pc = from /\ pc' = to

Init ==
  /\ config \in Configs
  /\ pc = "main"
  /\ messaging = FALSE /\ httpServer = FALSE
  /\ serverThread = "none" /\ i = 0 /\ sakuraServer = "none"

-----------------------------------------------------------------------------
(* main                                                                    *)

InitMainServersFirst ==
  /\ Goto("main", "http")
  /\ UNCHANGED <<config, services>>

InitMain ==
  /\ pc = "main"
  /\ \/ pc' = "messaging"
     \/ "init" \in Env /\ pc' = "exited"
  /\ UNCHANGED <<config, services>>

InitMessaging ==
  /\ pc = "messaging"
  /\ \/ pc' = "http" /\ messaging' = TRUE
     \/ "messaging" \in Env /\ pc' = "exited" /\ UNCHANGED messaging
  /\ UNCHANGED <<config, httpServer, serverThread, i, sakuraServer>>

-----------------------------------------------------------------------------
(* ToriiGateway::initHttpServer                                            *)

CheckHttpEnabledOnly ==
  /\ pc = "http"
  /\ pc' = IF config.http THEN "create" ELSE "sleep"
  /\ UNCHANGED <<config, services>>

CheckHttpEnabled ==
  /\ pc = "http"
  /\ pc' = IF config.http THEN "create" ELSE "sakura"
  /\ UNCHANGED <<config, services>>

CreateServer ==
  /\ Goto("create", "start")
  /\ httpServer' = TRUE
  /\ UNCHANGED <<config, messaging, serverThread, i, sakuraServer>>

StartServerThread ==
  /\ Goto("start", "threads")
  /\ serverThread' = "starting"
  /\ UNCHANGED <<config, messaging, httpServer, i, sakuraServer>>

MoreThreadsWanted(n) == n <= NumberOfThreads

ThreadsWanted(n) == n < NumberOfThreads

StartWorkerUnconverted ==
  /\ pc = "threads" /\ i < config.threads
  /\ i' = i + 1
  /\ UNCHANGED <<config, pc, messaging, httpServer, serverThread, sakuraServer>>

StartWorker ==
  /\ pc = "threads" /\ ThreadsWanted(i)
  /\ i' = (i + 1) % ThreadValues
  /\ UNCHANGED <<config, pc, messaging, httpServer, serverThread, sakuraServer>>

WorkersStarted ==
  /\ ~ThreadsWanted(i)
  /\ Goto("threads", "sakura")
  /\ UNCHANGED <<config, services>>

-----------------------------------------------------------------------------
(* ToriiGateway::initSakuraServer                                          *)

CheckSakuraEnabled ==
  /\ pc = "sakura"
  /\ pc' = IF config.sakura THEN "add" ELSE "sleep"
  /\ UNCHANGED <<config, services>>

(* How addServer ends; the library binds and listens.                      *)
AddServerResults ==
  {r \in {"listening", "failed"} :
     IF r = "listening" THEN ~HttpHoldsPort ELSE HttpHoldsPort \/ "addServer" \in Env}

AddServerReported ==
  /\ pc = "add"
  /\ sakuraServer' \in AddServerResults
  /\ pc' = IF sakuraServer' = "failed" THEN "exited" ELSE "sleep"
  /\ UNCHANGED <<config, messaging, httpServer, serverThread, i>>

(* The result of addServer is dropped.                                     *)
AddServer ==
  /\ Goto("add", "sleep")
  /\ sakuraServer' \in AddServerResults
  /\ UNCHANGED <<config, messaging, httpServer, serverThread, i>>

-----------------------------------------------------------------------------
(* The thread of the http-server, HttpServer::run.                         *)

ServerStep(from, to) ==
  /\ pc # "exited"
  /\ serverThread = from /\ serverThread' = to
  /\ UNCHANGED <<config, pc, messaging, httpServer, i, sakuraServer>>

Bind ==
  /\ ~SakuraHoldsPort
  /\ ServerStep("starting", "bound")

(* make_address or the constructor of the acceptor throws.                 *)
BindFails ==
  /\ "bind" \in Env \/ SakuraHoldsPort
  /\ ServerStep("starting", "dead")

LoadCertificates == ServerStep("bound", "listening")

LoadCertificatesFails ==
  /\ "certificates" \in Env
  /\ ServerStep("bound", "dead")

-----------------------------------------------------------------------------
MainThread ==
  \/ InitMain \/ InitMessaging
  \/ CheckHttpEnabled \/ CreateServer \/ StartServerThread
  \/ StartWorker \/ WorkersStarted
  \/ CheckSakuraEnabled \/ AddServer

ServerThread == Bind \/ BindFails \/ LoadCertificates \/ LoadCertificatesFails

Next == MainThread \/ ServerThread

Spec == Init /\ [][Next]_vars
FairSpec == Spec /\ WF_vars(MainThread) /\ WF_vars(ServerThread)

-----------------------------------------------------------------------------
TypeOK ==
  /\ config \in Configs
  /\ pc \in MainPc
  /\ messaging \in BOOLEAN /\ httpServer \in BOOLEAN
  /\ serverThread \in ServerState
  /\ i \in 0 .. ThreadValues - 1
  /\ sakuraServer \in SakuraState

(* Threads use ToriiGateway::httpServer and HanamiMessaging without a      *)
(* check: both exist before the first thread runs.                         *)
ThreadsFindServices ==
  i > 0 \/ serverThread # "none" => httpServer /\ messaging

(* main returns only while no thread of the gateway runs: the threads are  *)
(* never joined, and the objects they use go away with main.               *)
NoThreadSurvivesMain == pc = "exited" => serverThread = "none" /\ i = 0

(* Whatever the config-file says and whatever fails, the start comes to an *)
(* end: also the loop that counts to the converted number of threads.      *)
StartEnds == <>(pc \in {"sleep", "exited"})

Fits ==
  /\ config.port \in 0 .. PortValues - 1
  /\ config.sakuraPort \in 0 .. PortValues - 1
  /\ config.threads \in 0 .. ThreadValues - 1
  /\ ~(config.http /\ config.sakura /\ Collide)

AsConfigured ==
  /\ pc = "sleep"
  /\ config.http => serverThread = "listening" /\ i = config.threads
  /\ ~config.http => serverThread = "none" /\ i = 0
  /\ sakuraServer = IF config.sakura THEN "listening" ELSE "none"

Failed == pc = "exited" \/ serverThread = "dead" \/ sakuraServer = "failed"

(* If the numbers of the config-file fit and the servers do not share a    *)
(* port, the gateway comes up as configured or something visibly failed,   *)
(* which happens only where a call may fail.                               *)
ComesUp == Fits => <>[](AsConfigured \/ (Env # {} /\ Failed))

(* init promises to return false if it was not successful: main sleeps     *)
(* only if the http-server that was asked for is on its way or listening,  *)
(* and the sakura-server that was asked for is listening.                  *)
InitReports ==
  pc = "sleep" =>
    /\ config.http => serverThread # "dead"
    /\ config.sakura => sakuraServer # "failed"
=============================================================================
