----------------------------- MODULE WebsocketTurns -----------------------------
(***************************************************************************)
(* Whose turn it is on the websockets of one worker, and nothing else:     *)
(* what remains of WebsocketBridge for a caller that does not look at      *)
(* threads, callbacks and sessions.  Each step gives the set of states it  *)
(* may lead to from state s, empty where it is not enabled, so that a      *)
(* module with many workers can use it for each of them.                   *)
(***************************************************************************)
Phases == {"none", "turn", "read", "respond", "forward"}
Backends == {"none", "shiori", "kyouko"}

\* due: kyouko has got a message of this websocket and may answer.
States == [phase : Phases, waitForInput : BOOLEAN, client : Backends, due : BOOLEAN]

Fresh == [phase |-> "none", waitForInput |-> TRUE, client |-> "none", due |-> FALSE]
Stopped == [Fresh EXCEPT !.phase = "stopped"]

When(enabled, states) == IF enabled THEN states ELSE {}

(* runWebsocket does not touch the turn the last websocket left.           *)
Open(s) == When(s.phase = "none", {[s EXCEPT !.phase = "turn"]})

(* While a worker waits for its turn it does not notice that its peer left.*)
AwaitTurn(s) ==
  When(s.phase = "turn" /\ s.waitForInput, {[s EXCEPT !.phase = "read"]})

Read(s) ==
  When(s.phase = "read",
       {[s EXCEPT !.phase = IF s.client = "none" THEN "respond" ELSE "forward",
                  !.waitForInput = FALSE]})

(* The client is closed and forgotten, the turn stays as it is.            *)
EndedTurnTaken(s) == [Fresh EXCEPT !.waitForInput = FALSE]
Ended(s) == [Fresh EXCEPT !.waitForInput = s.waitForInput]

PeerLeaves(s) == When(s.phase = "read", {Ended(s)})

(* The initial message may have attached a backend.                        *)
Respond(s) ==
  When(s.phase = "respond",
       {[s EXCEPT !.phase = "turn", !.waitForInput = TRUE, !.client = b] : b \in Backends})

(* The write throws, and the turn is not given back.                       *)
RespondFails(s) == When(s.phase = "respond", {Ended(s)})

(* An answer to an earlier message may have given the turn back already.   *)
Forward(s) ==
  When(s.phase = "forward",
       {[s EXCEPT !.phase = "turn", !.waitForInput = @ \/ s.client = "shiori",
                  !.due = s.client = "kyouko"]})

(* The result of sendStreamMessage is dropped, and kyouko may be silent.   *)
ForwardLost(s) ==
  When(s.phase = "forward" /\ s.client = "kyouko",
       {[s EXCEPT !.phase = "turn", !.due = d] : d \in {FALSE, s.due}})

(* sendData on a library thread; kyouko may have more to say or not.       *)
Answer(s) ==
  When(s.due /\ ~s.waitForInput,
       {[s EXCEPT !.waitForInput = TRUE, !.due = more] : more \in BOOLEAN})

Next(s) ==
  Open(s) \cup AwaitTurn(s) \cup Read(s) \cup PeerLeaves(s) \cup Respond(s)
  \cup RespondFails(s) \cup Forward(s) \cup ForwardLost(s) \cup Answer(s)
  \cup {Stopped}
=============================================================================
