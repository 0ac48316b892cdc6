----------------------------- MODULE MCSessions -----------------------------
(* Instances of Sessions small enough for TLC.                             *)
EXTENDS SessionsProperties

CONSTANTS u1, u2, s1, s2, h1, h2
=============================================================================
