\* Four submissions fill a pool of three; timers, a failed statement and a restart.
\* It stops when all are answered.
CONSTANTS
    q1 = q1
    q2 = q2
    q3 = q3
    q4 = q4
    Nil = Nil
    Requests = {q1, q2, q3, q4}
    PoolSize = 3
    MaxFailures = 1
    MaxCrashes = 1
SPECIFICATION FairSpec
INVARIANTS OneAdministratorInTime SuccessIsUsable
PROPERTY EveryoneIsAnswered
CHECK_DEADLOCK FALSE
