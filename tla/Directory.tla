----------------------------- MODULE Directory -----------------------------
(* What the administration of users promises: every change of an account   *)
(* happens in one step, and the step that takes an administrator away sees  *)
(* another active one at that moment.                                      *)

CONSTANT Users

VARIABLE account \* "active" or "inactive" (an administrator who is suspended or
                 \* banned), "user", or "gone"

Init ==
    /\ account \in [Users -> {"active", "inactive", "user", "gone"}]
    /\ \E u \in Users : account[u] = "active"

Becomes(u, kinds) == account'[u] \in kinds /\ account' = [account EXCEPT ![u] = account'[u]]

\* An administrator is suspended, demoted or deleted.
Leave(u) ==
    /\ account[u] \in {"active", "inactive"}
    /\ \E v \in Users \ {u} : account[v] = "active"
    /\ Becomes(u, {"inactive", "user", "gone"})

\* A user is promoted, or a suspension ends.
Rise(u) == account[u] \in {"user", "inactive"} /\ Becomes(u, {"active", "inactive"})

Go(u) == account[u] = "user" /\ Becomes(u, {"gone"})

Next == \E u \in Users : Leave(u) \/ Rise(u) \/ Go(u)

Spec == Init /\ [][Next]_account
=============================================================================
