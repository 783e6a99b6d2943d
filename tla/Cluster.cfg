\* One upload and two versions of a provider's plugin on one server; two polls at a time
\* of the status and one list, and three versions of the cluster; one failed call of each.
\* A page that was left stays as it is.
CONSTANTS
    Server = {s1}
    Upload = {jarA}
    Release = {via1, via2}
    Project = {"jar", "via"}
    ProjectOf <- DistinctProjects
    Request = {q1, q2}
    MaxRows = 3
    MaxFailures = 1
    List = {pods}
    Poll = {p1, p2}
    MaxVersion = 3
SPECIFICATION PartsSpec
INVARIANTS PartsTypeOK StoreMatchesLibrary OneVersion PollIsShown
PROPERTIES GoneForGood PublishedSettles CatchesUp
CHECK_DEADLOCK FALSE
