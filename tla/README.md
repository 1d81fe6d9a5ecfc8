# A TLA+ model of ToriiGateway

ToriiGateway is the proxy in front of the Hanami-AI backends: it accepts
https-connections, serves files, forwards control-requests to a backend after
misaki has permitted them, and connects websockets to shiori or kyouko. The
code is small, but it runs an accept thread, a pool of worker threads and the
threads of a messaging library over shared flags, raw pointers and one queue;
its uri parser works on positions that wrap around. This directory models that
behaviour, checks it with TLC on small instances and proves the main invariants
with TLAPS for all instances.

All line numbers below refer to files under `src/src/`.

## The system

| component | state | operations | modelled in |
|---|---|---|---|
| http-server (`core/http_server.cpp`) | `m_queue`, `m_queueMutex`, `m_ctx`, the sockets | `run`, `addSocket`, `getSocket`, `loadCertificates` | `HttpServer` |
| worker pool (`core/http_websocket_thread.cpp` 48-147) | the socket in `run` | `run`, `handleSocket`, `readMessage`, `sendResponse` | `HttpServer`, `HttpRequest` |
| websocket bridge (`core/http_websocket_thread.cpp` 209-525, `callbacks.cpp`) | `m_webSocket`, `m_waitForInput`, `m_websocketClosed`, `m_client`, `m_target`, `m_uuid` | `initWebsocket`, `runWebsocket`, `processInitialMessage`, `closeClient`, `sendData`, `streamDataCallback` | `WebsocketBridge` |
| http-requests (`core/http_processing/`) | request, response and message objects local to a thread | `processRequest`, `processControlRequest`, `requestToken`, `checkPermission`, response builders, file requests | `HttpRequest` |
| uri helpers (`string_functions.h`) | none | `checkPath`, `parseUri`, `cutPath` | `UriParser`; their outcomes in `HttpRequest` |
| start-up (`main.cpp`, `torii_root.cpp`, begin of `HttpServer::run`) | `httpServer`, `m_threads` | `main`, `init`, `initHttpServer`, `initSakuraServer` | `Startup` |
| server, pool and bridges together | `m_waitForInput` of every worker | - | `Gateway` |
| configuration (`config.h`, `args.h`) | options | `registerConfigs`, `validateConfig` | inputs of `Startup`; `validateConfig` has no caller |
| messaging library, misaki, shiori, kyouko | not in this repository | clients, sessions, replies, stream callbacks | environment actions |

How they interact:

- The accept thread pushes a `tcp::socket*` to the queue; each worker polls
  `getSocket` and deletes the socket after `handleSocket`. The mutex guards
  the queue only.
- `handleSocket` answers one request and closes the stream, or it stays in
  `runWebsocket` for as long as the websocket lives. A websocket keeps its
  worker.
- For kyouko the worker creates a temporary client and registers
  `streamDataCallback`. The library calls it on the client's own thread; it
  runs `sendData` on the worker's object. The two threads share three members
  without a lock. `m_waitForInput` says whose turn it is.
- Every backend call is synchronous. Between two calls the backend may vanish.
- The main thread starts the accept thread and the workers, which take
  `ToriiGateway::httpServer` and the messaging for granted; then it sleeps. How
  the accept thread fares it never learns.
- A worker object outlives its websockets: what one of them leaves in
  `m_waitForInput` the next one on that worker finds.

What makes each part correct, and hard:

- **bridge**: the stream is not thread-safe, so the turn must keep worker and
  callback apart; the object is reused, so nothing of one session may reach the
  next one; the turn must come back; a session must be torn down even while a
  callback waits. All of it depends on the order of unsynchronised accesses.
- **server and pool**: no socket is shared, leaked or used after its deletion;
  first come, first served; nobody waits forever while a worker is free.
- **requests**: nothing but a token-request is forwarded without permission and
  audit; one message object receives the replies of several backends, and the
  answer must be made of the right one; a request that was read gets as far as
  the write of its response.
- **uri helpers**: no position outside of its text although `npos + 1` is 0;
  nothing that precedes the query is lost; of several values of one name the
  right one counts. (What follows a second `?` is dropped, lines 75-78, 105-108.)
- **start-up**: nothing is used before it exists, nothing is torn down under a
  running thread, the loop over the number of threads ends, and `init` reports
  what failed.

The full list of hazards, each at its line and with the properties that cover
it, is in `PROJECT.json`.

## The modules

### WebsocketBridge

One `HttpWebsocketThread` object that serves websockets one after another, and
one library thread per temporary client. `pc` is the position of the worker,
`cb[c]` that of client `c`'s thread inside `sendData`. Each action makes at most
one access to shared data the other thread can observe: the two reads of the
polling loop in `sendData` (line 278) are `PollTurn` and `PollClosed`, the test
at 284 is `CheckClosed`, the write at 290 is the state `cb[c] = "write"`, the
assignment at 291 or 317 is `SendDone`. The polling loop of the worker (446) is
one action, because what it reads decides only whether it goes on and both
flags are written by others in one direction while it waits: the turn towards
the worker by a callback, and `m_websocketClosed` by nobody but the worker.

A session stands for a websocket and the `m_uuid` of its client. An identifier
is free again when its client is deleted, so behaviours are unbounded although
the set is finite. `webSocket` and `live` model the pointer `m_webSocket` and
whether the stream in `handleSocket` still exists: the pointer is never reset.

`asked[c]` says that kyouko has got a message of client `c`, `owed[c]` that it has
got one it has not streamed anything for yet, and `sent` whether the last message
of the websocket reached it at all: `ForwardMessage` sets them by the result that
the code drops (491). The steps that a peer can block are `WithPeer`, the
handshake, the reads and the write of the initial response, and the write of a
callback, `SendDone`.

What the repository does not decide is named in the constant `Env`, each item
off by default: writes of the initial response that throw (`ack_fails`),
`sendStreamMessage` failing (`forward_fails`), kyouko streaming before it was
asked (`early_stream`), a `closeClient` that does not wait for a running
callback (`detached_close`), and `m_abort` being set (`stop`).
`LibraryContract` says that `early_stream` and `detached_close` are off.

`HalfDuplex` is the promise to the peer: one session at a time, which begins
with the peer's turn; after a message of the peer torii has the turn and writes
one message of that session, or takes the turn back in silence. The bridge
implements it under the mapping `OpenSession`, `Turn`, `Writes`: the open session
is the live stream, the turn is `m_waitForInput`, and the writes are the worker
in the write of the initial response and the callbacks in `cb = "write"`.

`WebsocketTurns` is what other modules may rely on: where a websocket is, whose
turn it is, which backend is attached and whether kyouko may answer. Its steps
give the set of successors of a state, so that `Gateway` can take them for many
workers at once. The bridge implements it (`TurnsSpec`) under the mapping
`TurnState`, with failing writes and forwardings. The two abstractions complement
each other: `HalfDuplex` is what the peer sees of the stream and excludes the
fault `ack_fails`; `WebsocketTurns` says what one websocket leaves to the next
when things fail, and that a late answer changes no turn after its websocket
ended. Stopping a thread is one final state of it.

### HttpServer and ConnectionPool

The accept thread (`serverPc`), the mutex, the queue and the workers
(`workerPc`, `result`). `getSocket` is three steps, lock, `front`, `pop_front`
with unlock, so that the mutex is what makes it safe and not the model. Sockets
are addresses: `allocated` holds those with a live object. Serving is reduced to
whether the worker comes back by itself (`ServeRequest`) or only if the peer
wishes (`ServeWebsocket`).

`ConnectionPool` is the promise: a line of waiting connections and the
connection each thread serves. `HttpServer` implements it under the mapping
`waiting <- Waiting`, `serving <- result`: a connection arrives when it is
pushed and is handed out when `front` has been read; while a worker is between
`front` and `pop_front`, `Waiting` is the queue without its head.

### HttpRequest

Plain http-requests, several workers at once. Strings are reduced to what the
code branches on: how a path begins, whether a uri parses, who wrote a body.
`reply[w]` is `hanamiResponse`, the one object the replies of misaki and of the
target are written to; `answer[w]` is the http-response with the result of
`processRequest`; `effects[w]` records what the request caused in the backends.
Every backend call is one action that either delivers a reply or fails, with or
without having had its effect. A backend may disconnect between any two
actions (`ConnectionChanges`). An exception that nobody catches ends the process (`alive`).
The response is written whatever `processRequest` returned; a write that fails
leaves `handleSocket` without a shutdown (`SendFails`), and one that the peer does
not take may last forever.

The module assumes of the library that a reply is failed exactly if its type is
an error; the content of a new `ResponseMessage` is the constant `NewReply`.

### Gateway

`HttpServer` together with the websockets of each worker: `websocket[w]` is the
state of `WebsocketTurns` for worker `w`, and each action takes one step of it,
`Open` together with the server's `ServeWebsocket`, the two ends of a websocket
together with `WebsocketEnds`. What the composition assumes of a bridge is thus
exactly what `WebsocketBridge` is checked and proved to implement; kyouko may
answer a message several times or not at all. A fault is a write of an initial
response that throws or a message that never reaches kyouko; at most `MaxFaults`
of them happen. A `Lame` worker is one whose flag nothing will set again: it
still serves plain requests, and it is lost with the next websocket it accepts.
Unlike `WebsocketBridge` the module sets `m_abort` only between connections.

### Startup

The main thread from `main` to its sleep (`pc`) and the thread of the http-server
until it listens (`serverThread`). `config` holds the values of the config-file:
every combination of `enable`, ports and number of threads. The three conversions
to unsigned integers are `HttpPort`, `SakuraPort` and `NumberOfThreads`, modulo
`PortValues` and `ThreadValues`. The library's `addServer` binds at once
(`AddServerResults`), the http-server whenever its thread gets there, and two
servers of one address cannot share a port other than 0.

### UriParser

`checkPath`, `cutPath` and `parseUri` on sequences of characters, with the
positions of `std::string`: they count from 0, `npos` is `Npos`, and sums wrap
(`Wrap`, `Minus1`). Each pair of the query is one step; an exception of `substr`
or `std::stoi` is a final state. `values` is the map that becomes the message. A
number stands for its digits without leading zeros, and is too large with more
than `MaxDigits` of them. The reference definition is `Pairs`: it describes the
pairs of a query by their positions and knows nothing of cutting. The token is
inserted without `force`; what the library does then with a value of that name
is left open in `AddToken`.

## The runs

| run | instance | shows |
|---|---|---|
| `bridge_contract` | 3 sessions, 2 undelivered messages, failures and `stop`; symmetric | `TypeOK`, `StreamExclusive`, `LinkedSession`, `OwnedConnection`, `AttachedIsGranted`, `TurnsSpec`, `QuietHandover` |
| `bridge_live` | 2 sessions, 2 undelivered messages, `forward_fails` and `stop`; fair | `FreshSession`, `DuplexSpec`, `TurnReturns`, `SessionCloses`, `StopsUnlessWaiting` |
| `bridge_stale_turn` | `ack_fails` | violates `FreshSession` |
| `bridge_detached` | `detached_close` | violates `LinkedSession` |
| `server_safe` | 4 sockets, 3 workers, at most 2 websockets, everything in `Env`; fair | `TypeOK`, `OneOwner`, `NothingLeaks`, `ContextReady`, `PoolSpec`, `EveryConnectionServed` |
| `request_safe` | 2 workers, everything in `Env`; fair | `TypeOK`, `Consent`, `OwnAnswer`, `ErrorsLookLikeErrors`, `AnsweredWhileAlive` |
| `request_overflow` | an integer of a uri is out of range | violates `AnsweredAnyway` |
| `gateway` | 3 sockets, 2 workers, 2 faults, everything in `Env`; fair | `GatewayTypeOK`, `OneWorkerPerFault`, `ServedDespiteFaults` |
| `startup_safe` | integers of 2 bits, every configuration, every call may fail; fair | `TypeOK`, `ThreadsFindServices`, `NoThreadSurvivesMain`, `StartEnds`, `ComesUp` |
| `startup_lost` | `bind` fails | violates `InitReports` |
| `uri_safe` | 9 characters, paths of up to 3, uris of up to 4, queries of up to 6; 3 bodies | `TypeOK`, `InBounds`, `SplitsLosslessly`, `ValuesAsWritten` |
| `uri_bare_key` | queries of up to 3 | violates `ValuesComeFromUri` |

Bounds. Two sessions are enough for anything that concerns an old and the
present websocket; the third lets two old clients linger. Two messages let one
wait while another is written. Four sockets for three workers leave a queue when
all workers are busy; `EveryConnectionServed` fails as soon as `MaxWebsockets`
equals the number of workers, so the bound is exact. Two requests exceed what the
requests share (`conn`, `alive`). Two faults cost `gateway` both of its workers,
and every worker may be in a websocket; `ServedDespiteFaults` is about the
behaviours with fewer faults, and without that condition it fails. Unsigned
integers of two bits, against configured values from below zero to beyond 3,
wrap both ways and let two ports collide by wrapping. Six characters of a query
hold two complete pairs, three with an empty one, and repeated names; `Npos` = 63
is above every length, as `npos` is, and one digit per number lets two overflow.

Every configuration says `CHECK_DEADLOCK FALSE`, because every part may really
stop: a thread that has been stopped, a worker that waits for kyouko forever, a
server whose start failed, a process that has ended, a main thread that sleeps, a
parser that is done. Being stuck anywhere else is caught by the liveness properties.

Fairness. Threads are scheduled (`WF` on what they can do alone), and calls of the
library return, `closeClient` as soon as no callback is running. The mutex is
free whenever the others sleep or wait for peers, so a worker that tries again
and again gets it (`SF_vars(Lock(w))`). Outside of `gateway` nothing is assumed of
peers: no connection need ever arrive, a handshake, a read or a write may block
forever (in `HttpServer` such a worker counts as one in a websocket), a websocket
may stay open; the steps that depend on them (`WithPeer`,
`SendDone`, `Accept`, `WebsocketEnds`) have no fairness. kyouko answers each
message it received with at least one message of the stream: the fairness of
`KyoukoStreams(c)` ends with the debt `owed[c]`, so what kyouko streamed for one
message gives no turn back that a later, lost one took. The start needs no more
than that both threads are scheduled. Only `gateway` asks what happens with peers
that behave, and says so in its specification: in `GatewayFairSpec` no peer stays
forever (`SF_gatewayVars(PeerLeaves(w))`) or blocks a write (`Respond` and
`Answer` are fair), and kyouko answers what was not lost.

Liveness properties with a condition carry it in the formula: `TurnReturns` and
`SessionCloses` under `WritesEnd` (no write lasts forever), `TurnReturns` besides up
to `abort` and `MessageLost` (the worker waits for an answer to a message that did
not reach kyouko, be it the first or a later one), `EveryConnectionServed` while
no worker is stopped,
`AnsweredWhileAlive` while the process lives, `ServedDespiteFaults` with fewer
faults than workers, `ComesUp` up to a visible failure, and without one if no call
may fail. So one run has the faults and the promise, and TLC sees both together.

### What the violations show

- **`bridge_stale_turn`.** `m_waitForInput` becomes false at line 457 and true
  only at 487, after the response has been written. If the write at 486 throws,
  the session ends, the flag stays false, and the next websocket on this thread
  is accepted but never read: the worker waits at 446 for good.
- **`bridge_detached`.** A callback polling at 278 when its session ends relies
  on seeing `m_websocketClosed`. `closeClient` (412-429) forgets the client
  without waiting for that callback, line 438 resets the flag for the next
  websocket, and the callback writes the old data to the new stream. It depends
  on the library not waiting, which this repository does not decide; hence the
  two runs with and without.
- **`request_overflow`.** `std::stoi` at `string_functions.h` 118 throws for a
  number of too many digits and no frame up to `run` catches it.
- **`startup_lost`.** `initHttpServer` returns true once the thread is started
  (`torii_root.cpp` 98-109). Bind and certificates come later on that thread
  (`http_server.cpp` 126-133); when they fail it ends, and main sleeps over a
  gateway without http-server. `initSakuraServer` drops the result of `addServer`
  (136), with the same effect. It takes no faulty environment: with one
  address and port for both servers (the values registered for both are 0.0.0.0
  and 12345, `config.h` 47-48 and 56-57), whoever comes second fails.
- **`uri_bare_key`.** In a pair without `=` the cut is at `npos`, the value starts
  at `npos + 1` = 0 and takes `size() - 1` characters: the key without its last
  character becomes its value (`string_functions.h` 112-114).

`StopsUnlessWaiting` names the places where a stopped thread hangs: wherever it
waits for its peer, in the handshake, in `read` or in the write of the initial
response, none of which has a timeout; at line 446 with a message at kyouko, lost
or not, because the answer is dropped by a stopped `sendData` (272-274) without
giving the turn back; and in `closeClient` while a callback is at a write (290)
that the peer does not take. Without any one of these places the property fails.

`Consent` has one exemption, because the code has it: a POST of `v1/token` goes
without permission and audit to whatever backend the uri names
(`http_processing.cpp` 251-256, 147-157). The comment at 131-133 speaks of a request of a token from misaki and
calls the target misaki; nothing in the code sees to it. `Consent` therefore says
that this is the only request which reaches a backend so, and that such a request
causes nothing else; it does not say that its target is misaki, which is false.

`ErrorsLookLikeErrors` is stated around two further oddities: if the client of
a permitted request has vanished, the error goes out with the http-status of
misaki's grant, normally ok (`http_processing.cpp` 290-296), and a token-request
without a client or a reply uses the default type of a new message (149-161).

`ValuesAsWritten` describes what the code does with a pair without `=` (its text
but for the last character), which `uri_bare_key` shows to be more than the uri
says, and leaves open only what the library does with a value under the name of
the token.

## The proofs

All theorems hold for every value of the constants under the named assumptions
`BridgeAssumption`, `ServerAssumption`, `RequestAssumption`, `GatewayAssumption`,
`StartupAssumption` and `UriAssumption`.

- `WebsocketBridgeProofs`. `TypeCorrect`. `OwnershipInvariant`: `ClientInv` ties
  `m_client`, `m_target`, the permission, the pointer to the stream and the state
  of the client to the position of the worker. `OwnedConnection` alone is not
  inductive: that a second client is not created while one is open needs
  to know where `m_client` is null. From it `ConnectionsOwned` and
  `AttachmentsGranted`, in every environment; `bridge_contract` checks one.
  `HandshakeInvariant`, under
  `LibraryContract`: a callback runs only for `m_client`, between the forwarding
  of a message and the end of `closeClient`, passes its loop only while the turn
  is not the websocket's or the session has ended, and the worker reads only on
  its turn. From it `StreamNeverShared` and `DataStaysInSession`.
- `BridgeTurnProofs`. `TurnInvariant`: outside of a websocket, and while one starts
  or reads, the turn is its peer's; it is torii's from a message to the write or
  the forwarding. It holds only without `ack_fails`, the fault of
  `bridge_stale_turn`, and yields `SessionsStartFresh` for every library.
  `ReplyInvariant` and `OneWriter`, under `LibraryContract`, say that there is at
  most one write, of this session, on torii's turn. With them every step is a
  step of `HalfDuplex` or leaves its variables alone: `BridgeAlternates`.
  `BridgeTakesTurns` is the same for `WebsocketTurns`, under `LibraryContract`
  alone: one lemma for each step that is visible there (`StartIsOpen` to
  `SendIsAnswer`), all others leave the parts of `TurnState` alone. The difficult
  one is `SendIsAnswer`: a callback may still be at its write when its websocket
  has ended. `EndedInvariant` excludes that it then gives a turn away: a running
  worker leaves a websocket on which kyouko was asked only with the turn at the
  peer, because it can only leave from `read`. `HandoverIsQuiet` follows from
  ownership and handshake.
- `HttpServerProofs`. `Inductive`: who is inside the mutex, which threads hold
  a socket at which step, and that queued, held and fresh sockets are live and
  pairwise different. Types are part of it, because only the invariant says
  that a real socket is pushed. From it `SocketsHaveOneOwner`, and
  `HandsOutInOrder`: every step is a step of `ConnectionPool` or leaves its
  variables alone. `CertInv`: whoever came to a socket came after the
  certificates; `ContextIsReady`. `LostInv`: a socket nobody points to exists
  only after the accept thread ended, and there is no second one;
  `AtMostOneLeaks`.
- `HttpRequestProofs`. `Inductive`: `Knows` says what a worker has caused and
  what its message holds at each step (after the permission exactly `granted`,
  before the forwarding `granted` and `audited`, on the way to a token a request
  for one, on all others none). `Consent` needs it because `Forward` looks at none of this itself;
  `ErrorsLookLikeErrors` needs it to know that the message still holds a grant
  when the client is missing. `OthersKeep` reduces a step to its own worker, and
  `GotoKeeps` and `AnswerKeeps` to what it did there. From it `TypeCorrect`,
  `ForwardedWithConsent` (with the token-request as its one exemption, see
  above), `AnswersAreOwn` and `FailuresLookFailed`.
- `GatewayProofs`. `GatewayIsServer`: the composition implements `HttpServer`, so its
  theorems carry over (`GatewaySocketsHaveOneOwner`, `GatewayHandsOutInOrder`).
  `TurnSteps` and `BridgeSteps`: a step adds no lame worker, or one worker and one
  fault; that needs `Sound`, that a worker reads only on its turn and forwards
  only to a backend. With the finite-set theorems follows `FaultsCostOneWorker`.
  `GatewayIsComposition`: the gateway is equivalent to `Composition`, the
  conjunction of `HttpServer`, of one bridge per worker of which only its turns
  are known, and of the rule that a worker is in a session of the pool exactly
  while its bridge has one. `GatewayAllows` is the direction that matters: no turn
  a bridge may take is missing in the gateway, so what is checked and proved of
  `GatewaySpec` holds for bridges that do all that `BridgeTakesTurns` allows them
  before their thread is stopped. `GatewayComposes` is the converse, so the
  composition is not empty.
- `StartupProofs`. `TypeCorrect` needs that the counter wraps like the number it
  counts to. `ServicesComeFirst` and `MainOutlivesThreads` follow from what each
  position of main implies. `ProgressInvariant` says how many workers and which
  threads there are at each position, `CollisionInvariant` what can fail where no
  call may; from both `SettlesAsConfigured`, the safety half of `ComesUp`.
  `InitReportsUnlessServersFail` delimits the run `startup_lost`: without a
  failing bind, certificate or `addServer`, and without one port for both servers,
  `init` reports truly.
- `UriParserProofs`. `LeastNumber` (from the well-foundedness of the naturals) makes
  `FindFacts`, what `find` returns, provable although it is a CHOOSE.
  `SubStrFacts`, `PieceFacts`, `CutFacts` and `PairFacts` build on it: a text cut
  at its first slash is lost only that slash, and every position of a pair is in
  bounds with and without `=`. Texts stay shorter than `npos`, which makes it
  inductive. From it `TypeCorrect`, `NeverOutOfRange` and `UriSplitsLosslessly`,
  for texts of any length.

- `UriValuesProofs`. `LoopInv`: what remains of the query stands at its end, behind
  a `&` unless nothing or all of it remains (`Remains`), and `values` is what the
  pairs before it define (`WrittenFrom`, `Consumed`). No induction over data is
  needed, since the loop is a sequence of steps and the pairs that were read are
  a set of positions. `RoundReadsOnePair` shows that a round moves exactly
  one pair from the rest to the consumed ones, `RoundReadsTexts` that it reads its
  key and what it stands for, with and without `=`, `InsertExtends` that the later pair of a key counts. From it
  `MessageAsWritten`, for every query; and `CompletePairsGiveTheirValues`, which
  delimits the run `uri_bare_key`: the stray value needs a pair without `=`.

Every safety property of the passing runs is thus proved. Only model-checked are
the liveness properties (`TurnReturns`, `SessionCloses`, `StopsUnlessWaiting`,
`EveryConnectionServed`, `AnsweredWhileAlive`, `ServedDespiteFaults`, `StartEnds`,
`ComesUp`), which are out of reach of the prover. The violated properties are
shown by their traces; what the code does keep of them is proved where it is
stated above: `SessionsStartFresh`, `DataStaysInSession`,
`InitReportsUnlessServersFail` and `CompletePairsGiveTheirValues` each name the
condition under which they hold.

## Not modelled

- `validateConfig` (`config.h` 60-80) has no caller; it also looks for its options
  in a group `server` that nobody registers. `args.h` only names arguments.
- Floats: `FLOAT_VALUE_REGEX` and `strtof` (lines 119, 120 of
  `string_functions.h`); such a value counts as a text. The regular expressions
  are the library's; a number is a non-empty sequence of `Digits`.
- Dashboard files: the table of content-types and the choice of `index.html` are
  data; both outcomes of reading the file are in `HttpRequest`.
- That `GET_INT_CONFIG` finds its option is taken for granted, as the code does;
  addresses that are spelled differently but are the same are `sameAddress`.
- What a session of the messaging library does with a client whose pointer was
  fetched before the session ended (`http_processing.cpp` 212-217, 290-299).

Left out for good: TLS and http framing (libraries), the content of messages,
logging, the table of content-types, and what an asio socket does after its
`io_context` is gone (`http_server.cpp` 138-149), which is undefined outside of
this code.
