--------------------------- MODULE MCWebsocketBridge ---------------------------
(* Small instances of WebsocketBridge for TLC.                             *)
EXTENDS WebsocketBridge, TLC
CONSTANTS s1, s2, s3

TwoSessions == {s1, s2}
ThreeSessions == {s1, s2, s3}
Symmetry == Permutations(ThreeSessions)
=============================================================================
