------------------------------ MODULE HalfDuplex ------------------------------
(***************************************************************************)
(* What a bridged websocket promises its peer: one session at a time, each *)
(* beginning with the turn at the peer; after a message of the peer torii  *)
(* has the turn, and what it does with it is to write one message of that  *)
(* very session, or to hand the turn back without a word.                  *)
(***************************************************************************)
CONSTANTS Sessions, NoSession, Writers

VARIABLES
  session,   \* the websocket that is open
  turn,      \* whose turn it is: "peer" or "torii"
  writes     \* writes in progress, as <<writer, session of the data>>

vars == <<session, turn, writes>>

Init == session = NoSession /\ turn = "peer" /\ writes = {}

Open(s) ==
  /\ session = NoSession
  /\ turn = "peer"
  /\ session' = s
  /\ UNCHANGED <<turn, writes>>

Speak ==
  /\ session # NoSession
  /\ turn = "peer" /\ writes = {}
  /\ turn' = "torii"
  /\ UNCHANGED <<session, writes>>

Write(w) ==
  /\ session # NoSession
  /\ turn = "torii" /\ writes = {}
  /\ writes' = {<<w, session>>}
  /\ UNCHANGED <<session, turn>>

Written ==
  /\ writes # {}
  /\ writes' = {} /\ turn' = "peer"
  /\ UNCHANGED session

TakeBack ==
  /\ turn = "torii" /\ writes = {}
  /\ turn' = "peer"
  /\ UNCHANGED <<session, writes>>

Close ==
  /\ session # NoSession /\ writes = {}
  /\ session' = NoSession
  /\ UNCHANGED <<turn, writes>>

Next ==
  \/ \E s \in Sessions : Open(s)
  \/ \E w \in Writers : Write(w)
  \/ Speak \/ Written \/ TakeBack \/ Close

Spec == Init /\ [][Next]_vars
=============================================================================
