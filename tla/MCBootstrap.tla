----------------------------- MODULE MCBootstrap -----------------------------
(* Instances of Bootstrap for TLC.                                             *)
EXTENDS Bootstrap

CONSTANTS q1, q2, q3, q4
=============================================================================
