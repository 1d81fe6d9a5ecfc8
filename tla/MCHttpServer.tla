----------------------------- MODULE MCHttpServer -----------------------------
(* Small instances of HttpServer for TLC.                                  *)
EXTENDS HttpServer
CONSTANTS k1, k2, k3, k4, w1, w2, w3

FourSockets == {k1, k2, k3, k4}
ThreeWorkers == {w1, w2, w3}
=============================================================================
