------------------------------ MODULE MCServer ------------------------------
(* Instances of Server small enough for TLC.                               *)
EXTENDS ServerProperties

CONSTANTS p1, p2, m1, m2, h1
=============================================================================
