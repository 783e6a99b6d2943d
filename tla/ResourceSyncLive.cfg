\* Convergence of one server under two requests, a failure or crash, and a
\* status write of the operator.
CONSTANTS
    Words = {"mc", "rp", "lobby"}
    ServerIds <- OneId
    ProxyIds <- NoIds
    Requests = {q1, q2}
    Nil = Nil
    MaxCommits = 2
    MaxFaults = 1
    MaxStatus = 1
SPECIFICATION FairSpec
PROPERTY Converges
