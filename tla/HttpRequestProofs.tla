--------------------------- MODULE HttpRequestProofs ---------------------------
(***************************************************************************)
(* Theorems about HttpRequest for every number of workers, every set of    *)
(* backends and targets and every environment Env allows.                  *)
(***************************************************************************)
EXTENDS HttpRequest, TLAPS

Unforwarded == {"idle", "process", "file", "parse", "token", "tokenCall", "permit"}

(* What a worker knows about its request at each step.                     *)
Knows(w) ==
  /\ pc[w] \in Unforwarded => effects[w] = {} /\ reply[w].from = ""
  /\ pc[w] = "audit" => effects[w] = {"granted"}
  /\ pc[w] \in {"client", "forward"} => effects[w] = {"granted", "audited"}
  /\ pc[w] \in {"audit", "client", "forward"} => reply[w].success
  /\ pc[w] \in {"token", "tokenCall"} => IsTokenRequest(req[w])
  /\ pc[w] \in {"permit", "audit", "client", "forward"} => ~IsTokenRequest(req[w])
  /\ pc[w] = "file" => IsFileRequest(w)

Sound(w) == Knows(w) /\ HasConsent(w) /\ HasOwnAnswer(w) /\ LooksLikeItIs(w)

(* A worker touches only its own request.                                  *)
Shape(u) ==
  /\ pc' = [pc EXCEPT ![u] = pc'[u]]
  /\ req' = [req EXCEPT ![u] = req'[u]]
  /\ reply' = [reply EXCEPT ![u] = reply'[u]]
  /\ answer' = [answer EXCEPT ![u] = answer'[u]]
  /\ effects' = [effects EXCEPT ![u] = effects'[u]]

Local(w) ==
  /\ pc[w] \in Pc /\ req[w] \in Requests /\ reply[w] \in Replies
  /\ answer[w] \in Answers /\ effects[w] \in SUBSET Effects

Frame(u) == Shape(u) /\ alive' \in BOOLEAN /\ conn' \in SUBSET Clients

(* What has to be shown of a step of u.                                    *)
Kept(u) == Frame(u) /\ Local(u)' /\ Sound(u)'

Inv == TypeOK /\ \A w \in Workers : Sound(w)

-----------------------------------------------------------------------------
(* It is enough to look at the worker that takes the step.                 *)
LEMMA OthersKeep ==
  ASSUME Inv, NEW u \in Workers, Kept(u) PROVE Inv'
<1>1. TypeOK'
  BY DEF Inv, TypeOK, Kept, Frame, Shape, Local
<1>2. ASSUME NEW w \in Workers PROVE Sound(w)'
  <2>1. CASE w = u
    BY <2>1 DEF Kept
  <2>2. CASE w # u
    <3>1. /\ pc'[w] = pc[w] /\ req'[w] = req[w] /\ reply'[w] = reply[w]
          /\ answer'[w] = answer[w] /\ effects'[w] = effects[w]
      BY <2>2 DEF Inv, TypeOK, Kept, Frame, Shape
    <3>2. Sound(w)
      BY DEF Inv
    <3>. QED
      BY <3>1, <3>2 DEF Sound, Knows, HasConsent, HasOwnAnswer, LooksLikeItIs,
         IsAnswered, IsFileRequest, IsTokenRequest
  <2>. QED
    BY <2>1, <2>2
<1>. QED
  BY <1>1, <1>2 DEF Inv

(* A worker that goes on without an answer has to keep what it knows.      *)
LEMMA GotoKeeps ==
  ASSUME TypeOK, NEW u \in Workers, Frame(u),
         req'[u] \in Requests, reply'[u] \in Replies,
         effects'[u] \in SUBSET Effects,
         NEW p \in Pc \ {"respond", "shutdown"}, Goto(u, p),
         Knows(u)', HasConsent(u)'
  PROVE  Kept(u)
<1>1. pc'[u] = p /\ answer'[u] \in Answers
  BY DEF TypeOK, Goto
<1>2. Local(u)'
  BY <1>1 DEF Local
<1>3. ~IsAnswered(u)'
  BY <1>1 DEF IsAnswered
<1>. QED
  BY <1>2, <1>3 DEF Kept, Sound, HasOwnAnswer, LooksLikeItIs

LEMMA AnswerIs ==
  ASSUME TypeOK, NEW u \in Workers, NEW s \in Statuses, NEW b \in Bodies,
         NEW r \in BOOLEAN, Answer(u, s, b, r)
  PROVE  /\ pc'[u] = "respond" /\ answer'[u] \in Answers
         /\ answer'[u].status = s /\ answer'[u].body = b
         /\ answer'[u].result = r
<1>1. pc'[u] = "respond" /\ answer'[u] = [status |-> s, body |-> b, result |-> r]
  BY DEF TypeOK, Answer
<1>. QED
  BY <1>1 DEF Answers

(* One that answers has to have the right answer.                          *)
LEMMA AnswerKeeps ==
  ASSUME TypeOK, NEW u \in Workers, Frame(u), req' = req,
         reply'[u] \in Replies, effects'[u] \in SUBSET Effects,
         NEW s \in Statuses, NEW b \in Bodies, NEW r \in BOOLEAN,
         Answer(u, s, b, r), HasConsent(u)',
         r => \/ IsFileRequest(u) /\ b = "file"
              \/ b = "target" /\ "processed" \in effects'[u],
         ~r /\ s = "ok" =>
           /\ b \in Unreplied
           /\ reply'[u].success \/ IsTokenRequest(req[u])
  PROVE  Kept(u)
<1>1. /\ pc'[u] = "respond" /\ answer'[u] \in Answers
      /\ answer'[u].status = s /\ answer'[u].body = b
      /\ answer'[u].result = r
  BY AnswerIs
<1>2. Local(u)'
  BY <1>1 DEF TypeOK, Local, Pc
<1>3. Knows(u)'
  BY <1>1 DEF Knows, Unforwarded
<1>4. HasOwnAnswer(u)'
  BY <1>1 DEF HasOwnAnswer, IsFileRequest
<1>5. LooksLikeItIs(u)'
  BY <1>1 DEF LooksLikeItIs
<1>. QED
  BY <1>2, <1>3, <1>4, <1>5 DEF Kept, Sound

(* A call without a reply leaves what was there or an error of nobody.     *)
LEMMA NoReplyIsNobodys ==
  ASSUME TypeOK, NEW u \in Workers, NoReply(u)
  PROVE  reply'[u] \in Replies /\ reply'[u].from \in {"", reply[u].from}
<1>1. reply[u] \in Replies
  BY DEF TypeOK
<1>2. ASSUME NEW r \in Replies, r.from \in {"", reply[u].from}, Received(u, r)
     PROVE  reply'[u] \in Replies /\ reply'[u].from \in {"", reply[u].from}
  <2>1. reply'[u] = r
    BY <1>2 DEF TypeOK, Received
  <2>. QED
    BY <1>2, <2>1
<1>3. CASE Received(u, reply[u])
  BY <1>1, <1>2, <1>3
<1>4. CASE Received(u, [from |-> "", success |-> FALSE, type |-> "error"])
  <2>1. [from |-> "", success |-> FALSE, type |-> "error"] \in Replies
    BY DEF Replies, Types
  <2>. QED
    BY <1>2, <1>4, <2>1
<1>. QED
  BY <1>3, <1>4 DEF NoReply

-----------------------------------------------------------------------------
(* One lemma per action.                                                   *)
LEMMA ReceiveKeeps ==
  ASSUME TypeOK, NEW u \in Workers, Sound(u), Receive(u)
  PROVE  Kept(u)
<1>. USE DEF TypeOK
<1>1. Frame(u)
  BY DEF Receive, At, Goto, Frame, Shape
<1>2. req'[u] \in Requests
  <2>. PICK m \in Methods, p \in Paths :
         req' = [req EXCEPT ![u] = [NoRequest EXCEPT !.method = m, !.path = p]]
    BY DEF Receive
  <2>1. req'[u] = [method |-> m, path |-> p, target |-> "", endpoint |-> "other"]
    BY DEF NoRequest
  <2>. QED
    BY <2>1 DEF Requests, Endpoints
<1>3. pc[u] = "idle" /\ pc'[u] = "process" /\ Goto(u, "process")
  BY DEF Receive, At, Goto
<1>4. reply' = reply /\ effects' = effects
  BY DEF Receive
<1>5. Knows(u)' /\ HasConsent(u)'
  BY <1>3, <1>4 DEF Sound, Knows, HasConsent, Unforwarded
<1>. QED
  BY <1>1, <1>2, <1>3, <1>4, <1>5, GotoKeeps DEF Pc

LEMMA ParseUriKeeps ==
  ASSUME TypeOK, NEW u \in Workers, Sound(u), ParseUri(u)
  PROVE  Kept(u)
<1>. USE DEF TypeOK
<1>1. Frame(u)
  BY DEF ParseUri, At, Goto, Frame, Shape
<1>2. req'[u] \in Requests
  <2>. PICK t \in Targets, e \in Endpoints :
         req' = [req EXCEPT ![u].target = t, ![u].endpoint = e]
    BY DEF ParseUri
  <2>1. req[u] \in Requests
    OBVIOUS
  <2>2. req'[u] = [[req[u] EXCEPT !.target = t] EXCEPT !.endpoint = e]
    OBVIOUS
  <2>. QED
    BY <2>1, <2>2 DEF Requests
<1>3. /\ pc[u] = "parse"
      /\ Goto(u, IF IsTokenRequest(req'[u]) THEN "token" ELSE "permit")
  BY DEF ParseUri, At
<1>4. reply' = reply /\ effects' = effects
  BY DEF ParseUri
<1>5. Knows(u)' /\ HasConsent(u)'
  BY <1>3, <1>4 DEF Goto, Sound, Knows, HasConsent, Unforwarded
<1>. QED
  BY <1>1, <1>2, <1>3, <1>4, <1>5, GotoKeeps DEF Pc

LEMMA LeaveKeeps ==
  ASSUME TypeOK, NEW u \in Workers, SendFails(u) \/ CloseStream(u)
  PROVE  Kept(u)
<1>. USE DEF TypeOK
<1>. LeaveHandleSocket(u) /\ alive' = alive
  BY DEF SendFails, CloseStream, At
<1>1. Frame(u)
  BY DEF LeaveHandleSocket, Received, Frame, Shape
<1>2. /\ pc'[u] = "idle" /\ req'[u] = NoRequest /\ reply'[u] = NewReply
      /\ answer'[u] = NewAnswer /\ effects'[u] = {}
  BY DEF LeaveHandleSocket, Received
<1>3. NoRequest \in Requests
  BY DEF NoRequest, Requests, Methods, Paths, Endpoints
<1>4. NewReply \in Replies /\ NewReply.from = ""
  BY RequestAssumption DEF RequestAssumption, Replies
<1>5. NewAnswer \in Answers
  BY DEF NewAnswer, Answers, Statuses, Types, Bodies
<1>6. Local(u)'
  BY <1>2, <1>3, <1>4, <1>5 DEF Local, Pc
<1>7. ~IsTokenRequest(NoRequest)
  BY DEF NoRequest, IsTokenRequest
<1>8. Sound(u)'
  BY <1>2, <1>4, <1>7 DEF Sound, Knows, HasConsent, HasOwnAnswer, LooksLikeItIs,
     IsAnswered, Unforwarded, IsTokenRequest
<1>. QED
  BY <1>1, <1>6, <1>8 DEF Kept

LEMMA RejectPathKeeps ==
  ASSUME TypeOK, NEW u \in Workers, Sound(u), RejectPath(u)
  PROVE  Kept(u)
<1>. USE DEF TypeOK
<1>1. Frame(u)
  BY DEF RejectPath, At, Answer, Frame, Shape
<1>2. HasConsent(u)' /\ Answer(u, "bad_request", "", FALSE)
  BY DEF RejectPath, Sound, HasConsent, IsTokenRequest
<1>. QED
  BY <1>1, <1>2, AnswerKeeps DEF RejectPath, Statuses, Bodies

LEMMA RejectMethodKeeps ==
  ASSUME TypeOK, NEW u \in Workers, Sound(u), RejectMethod(u)
  PROVE  Kept(u)
<1>. USE DEF TypeOK
<1>1. Frame(u)
  BY DEF RejectMethod, At, Answer, Frame, Shape
<1>2. HasConsent(u)' /\ Answer(u, "bad_request", "text", FALSE)
  BY DEF RejectMethod, Sound, HasConsent, IsTokenRequest
<1>. QED
  BY <1>1, <1>2, AnswerKeeps DEF RejectMethod, Statuses, Bodies

LEMMA RejectUriKeeps ==
  ASSUME TypeOK, NEW u \in Workers, Sound(u), RejectUri(u)
  PROVE  Kept(u)
<1>. USE DEF TypeOK
<1>1. Frame(u)
  BY DEF RejectUri, At, Answer, Frame, Shape
<1>2. HasConsent(u)' /\ Answer(u, "bad_request", "text", FALSE)
  BY DEF RejectUri, Sound, HasConsent, IsTokenRequest
<1>. QED
  BY <1>1, <1>2, AnswerKeeps DEF RejectUri, Statuses, Bodies

LEMMA RouteKeeps ==
  ASSUME TypeOK, NEW u \in Workers, Sound(u), Route(u)
  PROVE  Kept(u)
<1>. USE DEF TypeOK
<1>1. Frame(u)
  BY DEF Route, At, Answer, Goto, Frame, Shape
<1>2. req' = req /\ reply' = reply /\ effects' = effects /\ HasConsent(u)'
  BY DEF Route, Sound, HasConsent, IsTokenRequest
<1>3. pc[u] = "process"
  BY DEF Route, At
<1>4. ASSUME IsFileRequest(u), Goto(u, "file") PROVE Kept(u)
  <2>1. Knows(u)'
    BY <1>2, <1>3, <1>4 DEF Goto, Sound, Knows, Unforwarded, IsFileRequest
  <2>. QED
    BY <1>1, <1>2, <1>4, <2>1, GotoKeeps DEF Pc
<1>5. ASSUME Goto(u, "parse") PROVE Kept(u)
  <2>1. Knows(u)'
    BY <1>2, <1>3, <1>5 DEF Goto, Sound, Knows, Unforwarded
  <2>. QED
    BY <1>1, <1>2, <1>5, <2>1, GotoKeeps DEF Pc
<1>6. ASSUME Answer(u, "not_found", "text", FALSE) PROVE Kept(u)
  BY <1>1, <1>2, <1>6, AnswerKeeps DEF Statuses, Bodies
<1>. QED
  BY <1>4, <1>5, <1>6 DEF Route

LEMMA SendFileKeeps ==
  ASSUME TypeOK, NEW u \in Workers, Sound(u), SendFile(u)
  PROVE  Kept(u)
<1>. USE DEF TypeOK
<1>1. Frame(u)
  BY DEF SendFile, At, Answer, Frame, Shape
<1>2. req' = req /\ reply' = reply /\ effects' = effects /\ HasConsent(u)'
  BY DEF SendFile, Sound, HasConsent, IsTokenRequest
<1>3. IsFileRequest(u)
  BY DEF SendFile, At, Sound, Knows
<1>4. ASSUME Answer(u, "ok", "file", TRUE) PROVE Kept(u)
  BY <1>1, <1>2, <1>3, <1>4, AnswerKeeps DEF Statuses, Types, Bodies
<1>5. ASSUME Answer(u, "internal", "", FALSE) PROVE Kept(u)
  BY <1>1, <1>2, <1>5, AnswerKeeps DEF Statuses, Bodies
<1>. QED
  BY <1>4, <1>5 DEF SendFile

LEMMA SendResponseKeeps ==
  ASSUME TypeOK, NEW u \in Workers, Sound(u), SendResponse(u)
  PROVE  Kept(u)
<1>. USE DEF TypeOK
<1>1. Frame(u)
  BY DEF SendResponse, At, Goto, Frame, Shape
<1>2. pc[u] = "respond" /\ pc'[u] = "shutdown"
  BY DEF SendResponse, At, Goto
<1>3. req' = req /\ reply' = reply /\ answer' = answer /\ effects' = effects
  BY DEF SendResponse, Goto
<1>4. Local(u)'
  BY <1>2, <1>3 DEF Local, Pc
<1>5. Sound(u)'
  BY <1>2, <1>3 DEF Sound, Knows, HasConsent, HasOwnAnswer, LooksLikeItIs,
     IsAnswered, Unforwarded, IsFileRequest, IsTokenRequest
<1>. QED
  BY <1>1, <1>4, <1>5 DEF Kept

LEMMA FindTokenClientKeeps ==
  ASSUME TypeOK, NEW u \in Workers, Sound(u), FindTokenClient(u)
  PROVE  Kept(u)
<1>. USE DEF TypeOK
<1>1. Frame(u)
  BY DEF FindTokenClient, At, Answer, Goto, Frame, Shape
<1>2. req' = req /\ reply' = reply /\ effects' = effects /\ HasConsent(u)'
  BY DEF FindTokenClient, Sound, HasConsent, IsTokenRequest
<1>3. pc[u] = "token"
  BY DEF FindTokenClient, At
<1>4. ASSUME Goto(u, "tokenCall") PROVE Kept(u)
  <2>1. Knows(u)'
    BY <1>2, <1>3, <1>4 DEF Goto, Sound, Knows, Unforwarded
  <2>. QED
    BY <1>1, <1>2, <1>4, <2>1, GotoKeeps DEF Pc
<1>5. ASSUME Answer(u, reply[u].type, "missing", FALSE) PROVE Kept(u)
  <2>1. reply[u].type \in Statuses
    BY DEF Replies, Statuses
  <2>2. IsTokenRequest(req[u])
    BY <1>3 DEF Sound, Knows
  <2>. QED
    BY <1>1, <1>2, <1>5, <2>1, <2>2, AnswerKeeps DEF Bodies, Unreplied
<1>. QED
  BY <1>4, <1>5 DEF FindTokenClient

LEMMA FindClientKeeps ==
  ASSUME TypeOK, NEW u \in Workers, Sound(u), FindClient(u)
  PROVE  Kept(u)
<1>. USE DEF TypeOK
<1>1. Frame(u)
  BY DEF FindClient, At, Answer, Goto, Frame, Shape
<1>2. req' = req /\ reply' = reply /\ effects' = effects /\ HasConsent(u)'
  BY DEF FindClient, Sound, HasConsent, IsTokenRequest
<1>3. pc[u] = "client"
  BY DEF FindClient, At
<1>4. ASSUME Goto(u, "forward") PROVE Kept(u)
  <2>1. Knows(u)'
    BY <1>2, <1>3, <1>4 DEF Goto, Sound, Knows, Unforwarded
  <2>. QED
    BY <1>1, <1>2, <1>4, <2>1, GotoKeeps DEF Pc
<1>5. ASSUME Answer(u, reply[u].type, "missing", FALSE) PROVE Kept(u)
  <2>1. reply[u].type \in Statuses
    BY DEF Replies, Statuses
  <2>2. reply[u].success
    BY <1>3 DEF Sound, Knows
  <2>. QED
    BY <1>1, <1>2, <1>5, <2>1, <2>2, AnswerKeeps DEF Bodies, Unreplied
<1>. QED
  BY <1>4, <1>5 DEF FindClient

LEMMA RequestTokenKeeps ==
  ASSUME TypeOK, NEW u \in Workers, Sound(u), RequestToken(u)
  PROVE  Kept(u)
<1>. USE DEF TypeOK
<1>1. Frame(u)
  BY DEF RequestToken, At, Answer, Cause, Received, NoReply, Frame, Shape
<1>2. req' = req /\ pc[u] = "tokenCall" /\ IsTokenRequest(req[u])
  BY DEF RequestToken, At, Sound, Knows
<1>3. ASSUME NoReply(u), NEW E \in {{}, {"processed"}}, Cause(u, E),
           Answer(u, reply'[u].type, reply'[u].from, FALSE)
     PROVE Kept(u)
  <2>1. reply'[u] \in Replies /\ reply'[u].from = ""
    BY <1>2, <1>3, NoReplyIsNobodys DEF Sound, Knows, Unforwarded
  <2>2. reply'[u].type \in Statuses
    BY <2>1 DEF Replies, Statuses
  <2>3. effects'[u] \in SUBSET Effects /\ HasConsent(u)'
    BY <1>2, <1>3 DEF Cause, Effects, Sound, Knows, HasConsent, Unforwarded
  <2>. QED
    BY <1>1, <1>2, <1>3, <2>1, <2>2, <2>3, AnswerKeeps DEF Bodies, Unreplied
<1>4. ASSUME NEW r \in RepliesOf("target"), Received(u, r),
           Cause(u, {"processed"}),
           \/ r.success /\ Answer(u, "ok", r.from, TRUE)
           \/ ~r.success /\ Answer(u, r.type, r.from, FALSE)
     PROVE Kept(u)
  <2>1. /\ r \in Replies /\ r.type \in Statuses /\ r.from = "target"
        /\ r.success <=> r.type = "ok"
    BY DEF RepliesOf, Replies, Statuses
  <2>2. reply'[u] = r /\ effects'[u] = effects[u] \cup {"processed"}
    BY <1>4 DEF Received, Cause
  <2>3. effects'[u] \in SUBSET Effects /\ HasConsent(u)'
    BY <1>2, <2>2 DEF Effects, Sound, Knows, HasConsent, Unforwarded
  <2>4. CASE r.success /\ Answer(u, "ok", r.from, TRUE)
    BY <1>1, <1>2, <2>1, <2>2, <2>3, <2>4, AnswerKeeps DEF Statuses, Types, Bodies
  <2>5. CASE ~r.success /\ Answer(u, r.type, r.from, FALSE)
    BY <1>1, <1>2, <2>1, <2>2, <2>3, <2>5, AnswerKeeps DEF Statuses, Types, Bodies
  <2>. QED
    BY <1>4, <2>4, <2>5
<1>. QED
  BY <1>3, <1>4 DEF RequestToken

LEMMA PermissionFailsKeeps ==
  ASSUME TypeOK, NEW u \in Workers, Sound(u), PermissionFails(u)
  PROVE  Kept(u)
<1>. USE DEF TypeOK
<1>1. Frame(u)
  BY DEF PermissionFails, At, Answer, InternalError, Received, NoReply, Frame,
     Shape
<1>2. /\ req' = req /\ effects' = effects /\ HasConsent(u)'
      /\ Answer(u, "internal", "", FALSE)
  BY DEF PermissionFails, InternalError, Sound, HasConsent, IsTokenRequest
<1>3. reply'[u] \in Replies
  <2>1. CASE UNCHANGED reply
    BY <2>1
  <2>2. CASE NoReply(u)
    BY <2>2, NoReplyIsNobodys
  <2>. QED
    BY <2>1, <2>2 DEF PermissionFails
<1>. QED
  BY <1>1, <1>2, <1>3, AnswerKeeps DEF Statuses, Bodies

LEMMA DeniedKeeps ==
  ASSUME TypeOK, NEW u \in Workers, Sound(u), Denied(u)
  PROVE  Kept(u)
<1>. USE DEF TypeOK
<1>1. Frame(u)
  BY DEF Denied, At, Answer, Received, Frame, Shape
<1>. PICK r \in RepliesOf("misaki") :
       ~r.success /\ Received(u, r) /\ Answer(u, r.type, r.from, FALSE)
  BY DEF Denied
<1>2. req' = req /\ effects' = effects /\ HasConsent(u)'
  BY DEF Denied, Sound, HasConsent, IsTokenRequest
<1>3. /\ r \in Replies /\ r.from \in Bodies /\ r.type \in Statuses
      /\ r.type # "ok"
  BY DEF RepliesOf, Replies, Statuses, Bodies
<1>4. reply'[u] = r
  BY DEF Received
<1>. QED
  BY <1>1, <1>2, <1>3, <1>4, AnswerKeeps

LEMMA PermittedKeeps ==
  ASSUME TypeOK, NEW u \in Workers, Sound(u), Permitted(u)
  PROVE  Kept(u)
<1>. USE DEF TypeOK
<1>1. Frame(u)
  BY DEF Permitted, At, Answer, InternalError, Goto, Cause, Received, Frame,
     Shape
<1>. PICK r \in RepliesOf("misaki") : r.success /\ Received(u, r)
  BY DEF Permitted
<1>2. r \in Replies /\ reply'[u] = r
  BY DEF RepliesOf, Replies, Received
<1>3. req' = req /\ effects'[u] = {"granted"} /\ ~IsTokenRequest(req[u])
  BY DEF Permitted, At, Cause, Sound, Knows, Unforwarded
<1>4. effects'[u] \in SUBSET Effects /\ HasConsent(u)'
  BY <1>3 DEF Effects, HasConsent, IsTokenRequest
<1>5. ASSUME Goto(u, "audit") PROVE Kept(u)
  <2>1. Knows(u)'
    BY <1>2, <1>3, <1>5 DEF Goto, Knows, Unforwarded, IsTokenRequest
  <2>. QED
    BY <1>1, <1>2, <1>3, <1>4, <1>5, <2>1, GotoKeeps DEF Pc
<1>6. ASSUME Answer(u, "internal", "", FALSE) PROVE Kept(u)
  BY <1>1, <1>2, <1>3, <1>4, <1>6, AnswerKeeps DEF Statuses, Bodies
<1>. QED
  BY <1>5, <1>6 DEF Permitted, InternalError

LEMMA SendAuditMessageKeeps ==
  ASSUME TypeOK, NEW u \in Workers, Sound(u), SendAuditMessage(u)
  PROVE  Kept(u)
<1>. USE DEF TypeOK
<1>1. Frame(u)
  BY DEF SendAuditMessage, At, Answer, InternalError, Goto, Cause, Frame, Shape
<1>2. req' = req /\ reply' = reply /\ pc[u] = "audit"
  BY DEF SendAuditMessage, At
<1>3. ASSUME NEW E \in {{}, {"audited"}}, Cause(u, E)
     PROVE /\ effects'[u] = {"granted"} \cup E
           /\ effects'[u] \in SUBSET Effects /\ HasConsent(u)'
  BY <1>2, <1>3 DEF Cause, Sound, Knows, Effects, HasConsent
<1>4. ASSUME Cause(u, {"audited"}), Goto(u, "client") PROVE Kept(u)
  <2>1. Knows(u)'
    BY <1>2, <1>3, <1>4 DEF Goto, Sound, Knows, Unforwarded
  <2>. QED
    BY <1>1, <1>2, <1>3, <1>4, <2>1, GotoKeeps DEF Pc
<1>5. ASSUME NEW E \in {{}, {"audited"}}, Cause(u, E),
           Answer(u, "internal", "", FALSE)
     PROVE Kept(u)
  BY <1>1, <1>2, <1>3, <1>5, AnswerKeeps DEF Statuses, Bodies
<1>. QED
  BY <1>4, <1>5 DEF SendAuditMessage, InternalError

LEMMA ForwardKeeps ==
  ASSUME TypeOK, NEW u \in Workers, Sound(u), Forward(u)
  PROVE  Kept(u)
<1>. USE DEF TypeOK
<1>1. Frame(u)
  BY DEF Forward, At, Answer, InternalError, Cause, Received, NoReply, Frame,
     Shape
<1>2. /\ req' = req /\ pc[u] = "forward" /\ ~IsTokenRequest(req[u])
      /\ effects[u] = {"granted", "audited"}
  BY DEF Forward, At, Sound, Knows
<1>3. ASSUME NoReply(u), NEW E \in {{}, {"processed"}}, Cause(u, E),
           Answer(u, "internal", "", FALSE)
     PROVE Kept(u)
  <2>1. reply'[u] \in Replies
    BY <1>3, NoReplyIsNobodys
  <2>2. effects'[u] \in SUBSET Effects /\ HasConsent(u)'
    BY <1>2, <1>3 DEF Cause, Effects, HasConsent, IsTokenRequest
  <2>. QED
    BY <1>1, <1>2, <1>3, <2>1, <2>2, AnswerKeeps DEF Statuses, Bodies
<1>4. ASSUME NEW r \in RepliesOf("target"), Received(u, r),
           Cause(u, {"processed"}),
           \/ r.success /\ Answer(u, "ok", r.from, TRUE)
           \/ ~r.success /\ Answer(u, r.type, r.from, FALSE)
     PROVE Kept(u)
  <2>1. /\ r \in Replies /\ r.type \in Statuses /\ r.from = "target"
        /\ r.success <=> r.type = "ok"
    BY DEF RepliesOf, Replies, Statuses
  <2>2. reply'[u] = r /\ effects'[u] = effects[u] \cup {"processed"}
    BY <1>4 DEF Received, Cause
  <2>3. effects'[u] \in SUBSET Effects /\ HasConsent(u)'
    BY <1>2, <2>2 DEF Effects, Sound, Knows, HasConsent, Unforwarded
  <2>4. CASE r.success /\ Answer(u, "ok", r.from, TRUE)
    BY <1>1, <1>2, <2>1, <2>2, <2>3, <2>4, AnswerKeeps DEF Statuses, Types, Bodies
  <2>5. CASE ~r.success /\ Answer(u, r.type, r.from, FALSE)
    BY <1>1, <1>2, <2>1, <2>2, <2>3, <2>5, AnswerKeeps DEF Statuses, Types, Bodies
  <2>. QED
    BY <1>4, <2>4, <2>5
<1>. QED
  BY <1>3, <1>4 DEF Forward, InternalError

-----------------------------------------------------------------------------
LEMMA Inductive == Spec => []Inv
<1>. USE RequestAssumption DEF RequestAssumption
<1>1. Init => Inv
  <2>. SUFFICES ASSUME Init PROVE Inv
    OBVIOUS
  <2>1. pc \in [Workers -> Pc]
    BY DEF Init, Pc
  <2>2. req \in [Workers -> Requests]
    BY DEF Init, Requests, NoRequest, Methods, Paths, Endpoints
  <2>3. reply \in [Workers -> Replies]
    BY DEF Init, Replies
  <2>4. answer \in [Workers -> Answers]
    BY DEF Init, Answers, NewAnswer, Statuses, Bodies, Types
  <2>5. effects \in [Workers -> SUBSET Effects]
    BY DEF Init
  <2>6. \A w \in Workers : Sound(w)
    BY DEF Init, Sound, Knows, HasConsent, HasOwnAnswer, LooksLikeItIs,
       IsAnswered, Unforwarded
  <2>. QED
    BY <2>1, <2>2, <2>3, <2>4, <2>5, <2>6 DEF Init, TypeOK, Inv
<1>2. Inv /\ [Next]_vars => Inv'
  <2>. SUFFICES ASSUME Inv, [Next]_vars PROVE Inv'
    OBVIOUS
  <2>1. ASSUME NEW u \in Workers, Receive(u) PROVE Inv'
    BY <2>1, ReceiveKeeps, OthersKeep DEF Inv
  <2>2. ASSUME NEW u \in Workers, SendFails(u) \/ CloseStream(u) PROVE Inv'
    BY <2>2, LeaveKeeps, OthersKeep DEF Inv
  <2>3. ASSUME NEW u \in Workers, ParseUri(u) PROVE Inv'
    BY <2>3, ParseUriKeeps, OthersKeep DEF Inv
  <2>4. ASSUME NEW u \in Workers, RejectPath(u) PROVE Inv'
    BY <2>4, RejectPathKeeps, OthersKeep DEF Inv
  <2>5. ASSUME NEW u \in Workers, RejectMethod(u) PROVE Inv'
    BY <2>5, RejectMethodKeeps, OthersKeep DEF Inv
  <2>6. ASSUME NEW u \in Workers, Route(u) PROVE Inv'
    BY <2>6, RouteKeeps, OthersKeep DEF Inv
  <2>7. ASSUME NEW u \in Workers, SendFile(u) PROVE Inv'
    BY <2>7, SendFileKeeps, OthersKeep DEF Inv
  <2>8. ASSUME NEW u \in Workers, SendResponse(u) PROVE Inv'
    BY <2>8, SendResponseKeeps, OthersKeep DEF Inv
  <2>9. ASSUME NEW u \in Workers, RejectUri(u) PROVE Inv'
    BY <2>9, RejectUriKeeps, OthersKeep DEF Inv
  <2>10. ASSUME NEW u \in Workers, FindTokenClient(u) PROVE Inv'
    BY <2>10, FindTokenClientKeeps, OthersKeep DEF Inv
  <2>11. ASSUME NEW u \in Workers, RequestToken(u) PROVE Inv'
    BY <2>11, RequestTokenKeeps, OthersKeep DEF Inv
  <2>12. ASSUME NEW u \in Workers, PermissionFails(u) PROVE Inv'
    BY <2>12, PermissionFailsKeeps, OthersKeep DEF Inv
  <2>13. ASSUME NEW u \in Workers, Denied(u) PROVE Inv'
    BY <2>13, DeniedKeeps, OthersKeep DEF Inv
  <2>14. ASSUME NEW u \in Workers, Permitted(u) PROVE Inv'
    BY <2>14, PermittedKeeps, OthersKeep DEF Inv
  <2>15. ASSUME NEW u \in Workers, SendAuditMessage(u) PROVE Inv'
    BY <2>15, SendAuditMessageKeeps, OthersKeep DEF Inv
  <2>16. ASSUME NEW u \in Workers, FindClient(u) PROVE Inv'
    BY <2>16, FindClientKeeps, OthersKeep DEF Inv
  <2>17. ASSUME NEW u \in Workers, Forward(u) PROVE Inv'
    BY <2>17, ForwardKeeps, OthersKeep DEF Inv
  <2>18. ASSUME NEW u \in Workers, ParseOverflow(u) PROVE Inv'
    <3>1. TypeOK'
      BY <2>18 DEF Inv, TypeOK, ParseOverflow
    <3>2. \A w \in Workers : Sound(w)'
      BY <2>18 DEF Inv, ParseOverflow, Sound, Knows, HasConsent, HasOwnAnswer,
         LooksLikeItIs, IsAnswered, IsFileRequest, IsTokenRequest
    <3>. QED
      BY <3>1, <3>2 DEF Inv
  <2>19. ASSUME NEW b \in Clients, ConnectionChanges(b) PROVE Inv'
    <3>1. TypeOK'
      BY <2>19 DEF Inv, TypeOK, ConnectionChanges
    <3>2. \A w \in Workers : Sound(w)'
      BY <2>19 DEF Inv, ConnectionChanges, Sound, Knows, HasConsent,
         HasOwnAnswer, LooksLikeItIs, IsAnswered, IsFileRequest, IsTokenRequest
    <3>. QED
      BY <3>1, <3>2 DEF Inv
  <2>20. CASE UNCHANGED vars
    BY <2>20 DEF vars, Inv, TypeOK, Sound, Knows, HasConsent, HasOwnAnswer,
       LooksLikeItIs, IsAnswered, IsFileRequest, IsTokenRequest
  <2>. QED
    BY <2>1, <2>2, <2>3, <2>4, <2>5, <2>6, <2>7, <2>8, <2>9, <2>10, <2>11,
       <2>12, <2>13, <2>14, <2>15, <2>16, <2>17, <2>18, <2>19, <2>20 DEF Next,
       Step, WithPeer
<1>. QED
  BY <1>1, <1>2, PTL DEF Spec

(* Every variable keeps its type: TypeOK is an invariant of the requests.  *)
THEOREM TypeCorrect == Spec => []TypeOK
<1>1. Inv => TypeOK
  BY DEF Inv
<1>. QED
  BY <1>1, Inductive, PTL

(* Without the permission of misaki and the audit entry at shiori a        *)
(* backend gets the POST of "v1/token" and nothing else; that one it gets  *)
(* without both, whichever backend the uri names.                          *)
THEOREM ForwardedWithConsent == Spec => []Consent
<1>1. Inv => Consent
  BY DEF Inv, Sound, Consent
<1>. QED
  BY <1>1, Inductive, PTL

(* A successful answer holds the file asked for or what the target itself  *)
(* replied, never a reply of misaki left in the message.                   *)
THEOREM AnswersAreOwn == Spec => []OwnAnswer
<1>1. Inv => OwnAnswer
  BY DEF Inv, Sound, OwnAnswer
<1>. QED
  BY <1>1, Inductive, PTL

(* A failed request is answered with status ok only where no backend       *)
(* reported an error.                                                      *)
THEOREM FailuresLookFailed == Spec => []ErrorsLookLikeErrors
<1>1. Inv => ErrorsLookLikeErrors
  BY DEF Inv, Sound, ErrorsLookLikeErrors
<1>. QED
  BY <1>1, Inductive, PTL
=============================================================================
