--------------------------- MODULE MCConnections ---------------------------
(* Instances of Connections for TLC.                                        *)
EXTENDS Connections, TLC

CONSTANTS w1, c1, c2, a1

MCSymmetry == Permutations(Caller)
=============================================================================
