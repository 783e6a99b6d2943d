---------------------------- MODULE OperatorPlans ----------------------------
(* The children of the two custom resources: what their reconcilers apply and *)
(* prune, by kind and name.  A name is a sequence of parts joined by "-"; the *)
(* name of the resource itself is left out.                                  *)
EXTENDS Sequences

ConfigMapName(base) == base \o <<"config">>

\* MinecraftServer: the opposite workload has the same name.
ServerTypes == {"STATEFUL", "STATELESS"}

ServerName == <<"minecraft">>

ServerWorkload(t) == <<IF t = "STATEFUL" THEN "StatefulSet" ELSE "Deployment", ServerName>>

ServerApplied == [t \in ServerTypes |->
    << <<"ConfigMap", ConfigMapName(ServerName)>>, <<"Service", ServerName>>, ServerWorkload(t)>>]

ServerPruned == [t \in ServerTypes |->
    << ServerWorkload(IF t = "STATEFUL" THEN "STATELESS" ELSE "STATEFUL")>>]

\* ReverseProxyServer: the name depends on the type.
ProxyTypes == {"VELOCITY", "BUNGEECORD"}

ProxyName(t) == <<t>>

ProxyApplied == [t \in ProxyTypes |->
    << <<"ConfigMap", ConfigMapName(ProxyName(t))>>,
       <<"Service", ProxyName(t)>>, <<"Deployment", ProxyName(t)>> >>]

\* pruneStaleResources looks every kind up under ProxyName.
ProxyPruned == [t \in ProxyTypes |->
    LET stale == ProxyName(CHOOSE u \in ProxyTypes : u # t) IN
    << <<"Deployment", stale>>, <<"Service", stale>>, <<"ConfigMap", stale>> >>]
=============================================================================
