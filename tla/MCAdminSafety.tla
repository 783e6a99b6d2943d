--------------------------- MODULE MCAdminSafety ---------------------------
(* Instance of AdminSafety for TLC; the accounts and the requests that the  *)
(* code treats alike are symmetric.                                        *)
EXTENDS AdminSafety, TLC

CONSTANTS alice, bob, carol, mallory, q1, q2

Symmetry == Permutations({alice, bob, carol}) \cup Permutations({q1, q2})
=============================================================================
