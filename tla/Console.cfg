\* Saves one at a time, one change in the form, one deployment by somebody else; four
\* requests and changes of users; five requests of the registry's page, two at a time; every input of the
\* graph and every list of user variables of the constants; two pods of a server, one write
\* of somebody else and one failed call.  A page may stay as it is.
CONSTANTS
    Name <- ManagedNames
    Specs <- MCSpecs
    Extras <- MCExtras
    Varied <- VariedFields
    CustomKey = {"EXTRA"}
    Artifact = {a1}
    Save = {v1}
    MaxEdits = 1
    MaxOthers = 1
    User = {me, u1}
    Self = me
    Task = {t1, t2}
    MaxTasks = 4
    Project = {p1, p2}
    FirstLibrary = 1
    MaxRequests = 5
    MaxUnderWay = 2
    Refresh = {r1}
    MaxPods = 2
    MaxFailures = 1
    ServerList <- MCServers
    ProxyList <- MCProxies
    NodeList <- MCNodes
    StatusName <- MCBackends
    PodLists <- MCPodLists
    Query <- MCQueries
SPECIFICATION ConsoleSpec
INVARIANTS ConsoleTypeOK WellFormed EnvironmentIsMeant PageIsSound PanelIsSound
    PictureIsWhole OperationsAreTrue
PROPERTIES WhatIsShownIsSaved UninstallsOnPurpose KeptRoleStays
CHECK_DEADLOCK FALSE
