\* One MinecraftServer, with a failed call or a restart and a change of a child by
\* somebody else.  An operator at rest waits for its users.
CONSTANTS
    Types <- ServerTypes
    Children <- ServerChildrenSmall
    Applied <- ServerAppliedSmall
    Pruned <- ServerPruned
    Nil = Nil
    MaxChanges = 2
    MaxFaults = 1
    MaxDrift = 1
SPECIFICATION Spec
CHECK_DEADLOCK FALSE
INVARIANTS TypeOK NothingMissed
