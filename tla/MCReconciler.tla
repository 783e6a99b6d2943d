---------------------------- MODULE MCReconciler ----------------------------
(* Reconciler with the plans of the two reconcilers, for TLC.  The Service is *)
(* left out of the larger instances: like the ConfigMap it is applied for     *)
(* every type, and the proxy's is pruned like its Deployment.                 *)
EXTENDS Reconciler, OperatorPlans

Named(plan) == UNION {Elements(plan[t]) : t \in DOMAIN plan}
ServerChildren == Named(ServerApplied) \cup Named(ServerPruned)
ProxyChildren == Named(ProxyApplied) \cup Named(ProxyPruned)

NoService(plan) ==
    [t \in DOMAIN plan |-> SelectSeq(plan[t], LAMBDA o : o[1] # "Service")]
ServerAppliedSmall == NoService(ServerApplied)
ProxyAppliedSmall == NoService(ProxyApplied)
ProxyPrunedSmall == NoService(ProxyPruned)
ServerChildrenSmall == Named(ServerAppliedSmall) \cup Named(ServerPruned)
ProxyChildrenSmall == Named(ProxyAppliedSmall) \cup Named(ProxyPrunedSmall)
=============================================================================
