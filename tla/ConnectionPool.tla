---------------------------- MODULE ConnectionPool ----------------------------
(***************************************************************************)
(* What the http-server promises its threads: connections wait in one      *)
(* line, and each is handed, in the order of arrival, to exactly one       *)
(* thread, which keeps it until it has finished with it.                   *)
(***************************************************************************)
EXTENDS Sequences

CONSTANTS Connections, Threads, NoConnection

VARIABLES
  waiting,   \* connections no thread has taken, oldest first
  serving    \* the connection each thread works on

vars == <<waiting, serving>>

Init == waiting = <<>> /\ serving = [t \in Threads |-> NoConnection]

Arrive(c) ==
  /\ \A i \in DOMAIN waiting : waiting[i] # c
  /\ \A t \in Threads : serving[t] # c
  /\ waiting' = Append(waiting, c)
  /\ UNCHANGED serving

HandOut(t) ==
  /\ serving[t] = NoConnection
  /\ waiting # <<>>
  /\ serving' = [serving EXCEPT ![t] = Head(waiting)]
  /\ waiting' = Tail(waiting)

Finish(t) ==
  /\ serving[t] # NoConnection
  /\ serving' = [serving EXCEPT ![t] = NoConnection]
  /\ UNCHANGED waiting

Next ==
  \/ \E c \in Connections : Arrive(c)
  \/ \E t \in Threads : HandOut(t) \/ Finish(t)

Spec == Init /\ [][Next]_vars
=============================================================================
