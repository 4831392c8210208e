---------------------------- MODULE MCContainer ----------------------------
(* Instances of Container for TLC: two creators that ask for different     *)
(* ceilings.                                                               *)
EXTENDS Container, TLC

CONSTANTS c1, c2

MCCeiling == c1 :> 7 @@ c2 :> 9
=============================================================================
