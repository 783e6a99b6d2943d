\* Two lines and two inputs of a terminal; two servers, two refreshes at a time, two
\* changes and a failure of the feed; three fetches of the topology and two changes.  All
\* three come to rest: a closed terminal, a feed and a page within their bounds.
CONSTANTS
    AsText = TRUE
    MaxLines = 2
    MaxInputs = 2
    Server = {s1, s2}
    Address = {a1, a2}
    Refresh = {r1, r2}
    MaxChanges = 2
    MaxFailures = 1
    MaxFetches = 3
    MaxVersion = 3
SPECIFICATION ConnectionsSpec
INVARIANTS ConnectionsTypeOK ScreenIsOfTheLast
PROPERTIES Carries SessionsEnd ListSettles HearsWhileConnected NeverGoesBack
CHECK_DEADLOCK FALSE
