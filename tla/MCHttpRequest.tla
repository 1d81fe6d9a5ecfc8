----------------------------- MODULE MCHttpRequest -----------------------------
(* Small instances of HttpRequest for TLC.                                 *)
EXTENDS HttpRequest
CONSTANTS w1, w2

NewMessage == [from |-> "", success |-> TRUE, type |-> "ok"]
OneWorker == {w1}
TwoWorkers == {w1, w2}
=============================================================================
