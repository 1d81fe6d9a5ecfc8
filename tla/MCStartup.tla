------------------------------- MODULE MCStartup -------------------------------
(* Small instances of Startup for TLC: unsigned integers of two bits.      *)
EXTENDS Startup

SmallPorts == {-1, 0, 1, 3, 5}
SmallCounts == {-1, 0, 1, 2, 5}
FewPorts == {1, 2}
FewCounts == {1}
=============================================================================
