------------------------------ MODULE HttpRequest ------------------------------
(***************************************************************************)
(* Plain http-requests on the worker threads: the second half of           *)
(* handleSocket, processRequest and what it calls.  A control-request is   *)
(* parsed, permitted by misaki, audited by shiori and forwarded to its     *)
(* target; every call of a backend is a step, because the backends come    *)
(* and go meanwhile and because one ResponseMessage object receives the    *)
(* replies of all of them.                                                 *)
(*                                                                         *)
(* Strings are reduced to what the code tells apart: a path to how it      *)
(* begins, a uri to whether it parses, a body to who wrote it.             *)
(***************************************************************************)


CONSTANTS
  Workers,  \* the HttpWebsocketThreads
  Clients,  \* backends torii may have an outgoing client for
  Targets,  \* names a uri may contain
  NewReply, \* a new ResponseMessage; its default values are not in src/
  Env       \* what may go wrong, see EnvBehaviours

(***************************************************************************)
(*   disconnect  outgoing clients may vanish and come back                 *)
(*   no_reply    a call of a backend may fail after or before it had       *)
(*               its effect there                                          *)
(*   overflow    an integer in a uri may not fit into an int               *)
(***************************************************************************)
EnvBehaviours == {"disconnect", "no_reply", "overflow"}

Types == {"ok", "unauthorized", "error"}

ASSUME RequestAssumption ==
  /\ "misaki" \in Clients
  /\ NewReply \in [from : {""}, success : BOOLEAN, type : Types]
  /\ Env \subseteq EnvBehaviours

VARIABLES
  alive,    \* has no exception reached the top of a thread?
  conn,     \* backends for which getOutgoingClient finds a client
  pc,       \* where each worker is
  req,      \* the request each worker processes
  reply,    \* hanamiResponse: who wrote it last, and what
  answer,   \* httpResponse and processResult
  effects   \* what the request has caused in the backends

vars == <<alive, conn, pc, req, reply, answer, effects>>

Methods == {"get", "post", "put", "delete", "other"}
Paths == {"invalid", "control/", "control", "file"}
Endpoints == {"v1/token", "other"}
Requests == [method : Methods, path : Paths, target : Targets \cup {""},
             endpoint : Endpoints]

Replies == [from : {"", "misaki", "target"}, success : BOOLEAN, type : Types]
Statuses == Types \cup {"bad_request", "not_found", "internal"}
Bodies == {"", "misaki", "target", "text", "missing", "file"}
Unreplied == {"", "missing"}  \* no backend wrote them
Answers == [status : Statuses, body : Bodies, result : BOOLEAN]
Effects == {"granted", "audited", "processed"}
Pc == {"idle", "process", "file", "parse", "token", "tokenCall", "permit",
       "audit", "client", "forward", "respond", "shutdown"}

NewAnswer == [status |-> "ok", body |-> "", result |-> FALSE]
NoRequest == [method |-> "other", path |-> "invalid", target |-> "", endpoint |-> "other"]

(* What a backend answers: failed exactly if its type is not ok.           *)
RepliesOf(who) == {r \in [from : {who}, success : BOOLEAN, type : Types] :
                     r.success <=> r.type = "ok"}

Init ==
  /\ alive = TRUE /\ conn = Clients
  /\ pc = [w \in Workers |-> "idle"]
  /\ req = [w \in Workers |-> NoRequest]
  /\ reply = [w \in Workers |-> NewReply]
  /\ answer = [w \in Workers |-> NewAnswer]
  /\ effects = [w \in Workers |-> {}]

At(w, from) == alive /\ pc[w] = from /\ UNCHANGED alive
Goto(w, to) == pc' = [pc EXCEPT ![w] = to] /\ UNCHANGED answer

AnswerOnlySuccess(w, s, b, r) ==
  /\ pc' = [pc EXCEPT ![w] = IF r THEN "respond" ELSE "idle"]
  /\ answer' = [answer EXCEPT ![w] = [status |-> s, body |-> b, result |-> r]]

(* The response is complete and processRequest returns r; whatever it      *)
(* returns, the response is written next.                                  *)
Answer(w, s, b, r) ==
  /\ pc' = [pc EXCEPT ![w] = "respond"]
  /\ answer' = [answer EXCEPT ![w] = [status |-> s, body |-> b, result |-> r]]

Cause(w, E) == effects' = [effects EXCEPT ![w] = @ \cup E]
Received(w, r) == reply' = [reply EXCEPT ![w] = r]

-----------------------------------------------------------------------------
(* handleSocket and processRequest.                                        *)

(* Handshake and read are done; a stream that ends early gives an empty,   *)
(* hence invalid, path.                                                    *)
Receive(w) ==
  /\ At(w, "idle") /\ Goto(w, "process")
  /\ \E m \in Methods, p \in Paths :
       req' = [req EXCEPT ![w] = [NoRequest EXCEPT !.method = m, !.path = p]]
  /\ UNCHANGED <<conn, reply, effects>>

RejectPath(w) ==
  /\ At(w, "process") /\ req[w].path = "invalid"
  /\ Answer(w, "bad_request", "", FALSE)
  /\ UNCHANGED <<conn, req, reply, effects>>

RejectMethod(w) ==
  /\ At(w, "process") /\ req[w].path # "invalid" /\ req[w].method = "other"
  /\ Answer(w, "bad_request", "text", FALSE)
  /\ UNCHANGED <<conn, req, reply, effects>>

(* Everything a GET asks for is a file unless it begins with "/control".   *)
IsFileRequest(w) == req[w].method = "get" /\ req[w].path = "file"

Route(w) ==
  /\ At(w, "process") /\ req[w].path # "invalid" /\ req[w].method # "other"
  /\ \/ IsFileRequest(w) /\ Goto(w, "file")
     \/ req[w].path = "control/" /\ Goto(w, "parse")
     \/ /\ ~IsFileRequest(w) /\ req[w].path # "control/"
        /\ Answer(w, "not_found", "text", FALSE)
  /\ UNCHANGED <<conn, req, reply, effects>>

SendFile(w) ==
  /\ At(w, "file")
  /\ \/ Answer(w, "ok", "file", TRUE)
     \/ Answer(w, "internal", "", FALSE)
  /\ UNCHANGED <<conn, req, reply, effects>>

(* The response has been written.                                          *)
SendResponse(w) ==
  /\ At(w, "respond")
  /\ Goto(w, "shutdown")
  /\ UNCHANGED <<conn, req, reply, effects>>

(* Request, response and messages were local to handleSocket.              *)
LeaveHandleSocket(w) ==
  /\ pc' = [pc EXCEPT ![w] = "idle"]
  /\ req' = [req EXCEPT ![w] = NoRequest]
  /\ answer' = [answer EXCEPT ![w] = NewAnswer]
  /\ effects' = [effects EXCEPT ![w] = {}]
  /\ Received(w, NewReply)
  /\ UNCHANGED conn

(* The peer is gone: the write fails, and the stream is not shut down.     *)
SendFails(w) == At(w, "respond") /\ LeaveHandleSocket(w)

(* The stream is shut down, with or without an error.                      *)
CloseStream(w) == At(w, "shutdown") /\ LeaveHandleSocket(w)

-----------------------------------------------------------------------------
(* parseUri.                                                               *)

IsTokenRequest(r) == r.endpoint = "v1/token" /\ r.method = "post"

RejectUri(w) ==
  /\ At(w, "parse")
  /\ Answer(w, "bad_request", "text", FALSE)
  /\ UNCHANGED <<conn, req, reply, effects>>

ParseUriSwapped(w) ==
  /\ At(w, "parse")
  /\ \E t \in Targets, e \in Endpoints :
       req' = [req EXCEPT ![w].target = e, ![w].endpoint = t]
  /\ Goto(w, IF IsTokenRequest(req'[w]) THEN "token" ELSE "permit")
  /\ UNCHANGED <<conn, reply, effects>>

ParseUri(w) ==
  /\ At(w, "parse")
  /\ \E t \in Targets, e \in Endpoints :
       req' = [req EXCEPT ![w].target = t, ![w].endpoint = e]
  /\ Goto(w, IF IsTokenRequest(req'[w]) THEN "token" ELSE "permit")
  /\ UNCHANGED <<conn, reply, effects>>

(* std::stoi throws out_of_range; nothing between here and the top of the  *)
(* thread catches it, so the process ends.                                 *)
ParseOverflow(w) ==
  /\ "overflow" \in Env
  /\ alive /\ pc[w] = "parse"
  /\ alive' = FALSE
  /\ UNCHANGED <<conn, pc, req, reply, answer, effects>>

-----------------------------------------------------------------------------
(* requestToken.                                                           *)

FindTokenClient(w) ==
  /\ At(w, "token")
  /\ \/ req[w].target \in conn /\ Goto(w, "tokenCall")
     \/ req[w].target \notin conn /\ Answer(w, reply[w].type, "missing", FALSE)
  /\ UNCHANGED <<conn, req, reply, effects>>

(* What triggerSakuraFile may leave in the message when it fails.          *)
NoReply(w) ==
  /\ "no_reply" \in Env
  /\ \E r \in {reply[w], [from |-> "", success |-> FALSE, type |-> "error"]} :
       Received(w, r)

RequestToken(w) ==
  /\ At(w, "tokenCall")
  /\ \/ /\ NoReply(w)
        /\ \E E \in {{}, {"processed"}} : Cause(w, E)
        /\ Answer(w, reply'[w].type, reply'[w].from, FALSE)
     \/ \E r \in RepliesOf("target") :
          /\ Received(w, r) /\ Cause(w, {"processed"})
          /\ \/ r.success /\ Answer(w, "ok", r.from, TRUE)
             \/ ~r.success /\ Answer(w, r.type, r.from, FALSE)
  /\ UNCHANGED <<conn, req>>

-----------------------------------------------------------------------------
(* checkPermission, sendAuditMessage and the forwarding.                   *)

InternalError(w) == Answer(w, "internal", "", FALSE)

PermissionFails(w) ==
  /\ At(w, "permit")
  /\ \/ "misaki" \notin conn /\ UNCHANGED reply
     \/ "misaki" \in conn /\ NoReply(w)
  /\ InternalError(w)
  /\ UNCHANGED <<conn, req, effects>>

DeniedOnlyUnauthorized(w) ==
  /\ At(w, "permit") /\ "misaki" \in conn
  /\ \E r \in RepliesOf("misaki") :
       /\ Received(w, r)
       /\ \/ r.type = "unauthorized" /\ Answer(w, r.type, r.from, FALSE)
          \/ r.type = "error" /\ Goto(w, "audit")
  /\ UNCHANGED <<conn, req, effects>>

Denied(w) ==
  /\ At(w, "permit") /\ "misaki" \in conn
  /\ \E r \in RepliesOf("misaki") :
       /\ ~r.success /\ Received(w, r)
       /\ Answer(w, r.type, r.from, FALSE)
  /\ UNCHANGED <<conn, req, effects>>

(* The reply of misaki must also name the user.                            *)
Permitted(w) ==
  /\ At(w, "permit") /\ "misaki" \in conn
  /\ \E r \in RepliesOf("misaki") : r.success /\ Received(w, r)
  /\ Cause(w, {"granted"})
  /\ Goto(w, "audit") \/ InternalError(w)
  /\ UNCHANGED <<conn, req>>

SendAuditMessage(w) ==
  /\ At(w, "audit")
  /\ \/ Cause(w, {"audited"}) /\ Goto(w, "client")
     \/ \E E \in {{}, {"audited"}} : Cause(w, E) /\ InternalError(w)
  /\ UNCHANGED <<conn, req, reply>>

FindClient(w) ==
  /\ At(w, "client")
  /\ \/ req[w].target \in conn /\ Goto(w, "forward")
     \/ req[w].target \notin conn /\ Answer(w, reply[w].type, "missing", FALSE)
  /\ UNCHANGED <<conn, req, reply, effects>>

ForwardUnchecked(w) ==
  /\ At(w, "forward")
  /\ NoReply(w) \/ \E r \in RepliesOf("target") : Received(w, r)
  /\ Cause(w, {"processed"})
  /\ \/ reply'[w].success /\ Answer(w, "ok", reply'[w].from, TRUE)
     \/ ~reply'[w].success /\ Answer(w, reply'[w].type, reply'[w].from, FALSE)
  /\ UNCHANGED <<conn, req>>

ForwardTypeIgnored(w) ==
  /\ At(w, "forward")
  /\ \E r \in RepliesOf("target") :
       /\ Received(w, r) /\ Cause(w, {"processed"})
       /\ Answer(w, "ok", r.from, r.success)
  /\ UNCHANGED <<conn, req>>

Forward(w) ==
  /\ At(w, "forward")
  /\ \/ /\ NoReply(w)
        /\ \E E \in {{}, {"processed"}} : Cause(w, E)
        /\ InternalError(w)
     \/ \E r \in RepliesOf("target") :
          /\ Received(w, r) /\ Cause(w, {"processed"})
          /\ \/ r.success /\ Answer(w, "ok", r.from, TRUE)
             \/ ~r.success /\ Answer(w, r.type, r.from, FALSE)
  /\ UNCHANGED <<conn, req>>

-----------------------------------------------------------------------------
ConnectionChanges(b) ==
  /\ "disconnect" \in Env
  /\ conn' = IF b \in conn THEN conn \ {b} ELSE conn \cup {b}
  /\ UNCHANGED <<alive, pc, req, reply, answer, effects>>

(* Handshake, read, write and shutdown end when the peer lets them.        *)
WithPeer(w) == Receive(w) \/ SendResponse(w) \/ SendFails(w) \/ CloseStream(w)

Step(w) ==
  \/ RejectPath(w) \/ RejectMethod(w) \/ Route(w) \/ SendFile(w)
  \/ RejectUri(w) \/ ParseUri(w) \/ ParseOverflow(w)
  \/ FindTokenClient(w) \/ RequestToken(w)
  \/ PermissionFails(w) \/ Denied(w) \/ Permitted(w)
  \/ SendAuditMessage(w) \/ FindClient(w) \/ Forward(w)

Next ==
  \/ \E w \in Workers : WithPeer(w) \/ Step(w)
  \/ \E b \in Clients : ConnectionChanges(b)

Spec == Init /\ [][Next]_vars

(* Threads are scheduled and calls of backends return; nothing is assumed  *)
(* of peers.                                                               *)
FairSpec == Spec /\ \A w \in Workers : WF_vars(Step(w))

-----------------------------------------------------------------------------
TypeOK ==
  /\ alive \in BOOLEAN /\ conn \in SUBSET Clients
  /\ pc \in [Workers -> Pc]
  /\ req \in [Workers -> Requests]
  /\ reply \in [Workers -> Replies]
  /\ answer \in [Workers -> Answers]
  /\ effects \in [Workers -> SUBSET Effects]

IsAnswered(w) == pc[w] \in {"respond", "shutdown"}

HasConsent(w) ==
  /\ "audited" \in effects[w] => "granted" \in effects[w]
  /\ "processed" \in effects[w] /\ ~IsTokenRequest(req[w]) => "audited" \in effects[w]
  /\ IsTokenRequest(req[w]) => effects[w] \subseteq {"processed"}

(* A backend works on a request only if misaki has granted it and shiori   *)
(* has its audit entry, and shiori gets no entry for a request misaki did  *)
(* not grant.  Exactly one kind of request goes past both: a POST of       *)
(* "v1/token", whatever backend its uri names, although the comment of     *)
(* requestToken calls this target misaki.                                  *)
Consent == \A w \in Workers : HasConsent(w)

HasOwnAnswer(w) ==
  IsAnswered(w) /\ answer[w].result =>
    \/ IsFileRequest(w) /\ answer[w].body = "file"
    \/ answer[w].body = "target" /\ "processed" \in effects[w]

(* A successful answer to a control-request holds what the target replied  *)
(* to this very request, although the same message object held the reply   *)
(* of misaki before.                                                       *)
OwnAnswer == \A w \in Workers : HasOwnAnswer(w)

LooksLikeItIs(w) ==
  IsAnswered(w) /\ ~answer[w].result /\ answer[w].status = "ok" =>
    /\ answer[w].body \in Unreplied
    /\ reply[w].success \/ IsTokenRequest(req[w])

(* A failed request is answered with http-status ok only where the status  *)
(* is a left-over: the client was missing or a token-request got no reply. *)
(* The error a backend reported is never sent as ok.                       *)
ErrorsLookLikeErrors == \A w \in Workers : LooksLikeItIs(w)

(* A request that was read comes to the write of its response, whether or  *)
(* not processing it fails, whatever the backends and other threads do.    *)
AnsweredAnyway == \A w \in Workers : pc[w] = "process" ~> pc[w] = "respond"

(* Only the end of the process keeps a request from having its response    *)
(* written; that the peer takes it is not promised.                        *)
AnsweredWhileAlive == []alive => AnsweredAnyway
=============================================================================
