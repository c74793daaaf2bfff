------------------------ MODULE MCReliabilityEngine -------------------------
(* Bounded instances of ReliabilityEngine. *)
EXTENDS ReliabilityEngine
CONSTANTS k1, k2
OneKey == {k1}
TwoKeys == {k1, k2}
=============================================================================
