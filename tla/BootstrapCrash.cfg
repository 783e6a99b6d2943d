\* One restart while a submission creates its account; it stops when all are answered.
CONSTANTS
    q1 = q1
    q2 = q2
    q3 = q3
    q4 = q4
    Nil = Nil
    Requests = {q1, q2}
    PoolSize = 3
    MaxFailures = 0
    MaxCrashes = 1
SPECIFICATION Spec
INVARIANT SetupLeavesAnAdministrator
CHECK_DEADLOCK FALSE
