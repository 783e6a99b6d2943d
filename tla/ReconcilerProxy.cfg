\* One ReverseProxyServer that changes its type.  An operator at rest waits for
\* its users.
CONSTANTS
    Types <- ProxyTypes
    Children <- ProxyChildrenSmall
    Applied <- ProxyAppliedSmall
    Pruned <- ProxyPrunedSmall
    Nil = Nil
    MaxChanges = 2
    MaxFaults = 0
    MaxDrift = 0
SPECIFICATION Spec
CHECK_DEADLOCK FALSE
INVARIANTS NoStaleChild
