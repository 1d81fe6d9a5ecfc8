------------------------------- MODULE MCGateway -------------------------------
(* Small instances of Gateway for TLC.                                     *)
EXTENDS Gateway
CONSTANTS k1, k2, k3, w1, w2

ThreeSockets == {k1, k2, k3}
TwoWorkers == {w1, w2}
=============================================================================
