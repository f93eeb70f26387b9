------------------------------ MODULE MCSetBuilder ------------------------------
(* Four names, with hash values that collide at some precisions.           *)
EXTENDS SetBuilder, TLC

CONSTANTS s1, s2, s3, s4

MCSymbols == {s1, s2, s3, s4}
(* The empty name, and one that takes the buffer two doublings.            *)
MCLength == (s1 :> 1) @@ (s2 :> 2) @@ (s3 :> 9) @@ (s4 :> 2)
(* 22 and 6 agree in the three lowest bits, all four differ in five.       *)
MCHash == (s1 :> 22) @@ (s2 :> 6) @@ (s3 :> 18) @@ (s4 :> 9)
=============================================================================
