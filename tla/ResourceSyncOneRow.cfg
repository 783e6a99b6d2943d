\* One server and two concurrent requests: overlapping update, delete and
\* re-creation of the same id, with a failure or a crash at any call.
CONSTANTS
    Words = {"mc", "rp", "lobby"}
    ServerIds <- OneId
    ProxyIds <- NoIds
    Requests = {q1, q2}
    Nil = Nil
    MaxCommits = 3
    MaxFaults = 1
    MaxStatus = 0
SPECIFICATION Spec
INVARIANTS TypeOK RemovalOlderThanRow SnapshotComplete
PROPERTIES ResourceHasItsKey LiveRowKept
