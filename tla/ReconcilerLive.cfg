\* One MinecraftServer that is created, changed and deleted, and a failed call.
\* An operator at rest waits for its users.
CONSTANTS
    Types <- ServerTypes
    Children <- ServerChildrenSmall
    Applied <- ServerAppliedSmall
    Pruned <- ServerPruned
    Nil = Nil
    MaxChanges = 2
    MaxFaults = 1
    MaxDrift = 0
SPECIFICATION FairSpec
CHECK_DEADLOCK FALSE
PROPERTIES Converges
