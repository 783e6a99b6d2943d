---------------------------- MODULE MCConnections ----------------------------
(***************************************************************************)
(* Three parts that share no state, in one fair instance for TLC: Terminal, *)
(* ProxyFeed and TopologyPage.  A behaviour is a behaviour of one part; the *)
(* others keep a state in which nothing is left to do.                     *)
(***************************************************************************)
EXTENDS TopologyPage

CONSTANTS
    AsText, MaxLines, MaxInputs,                      \* Terminal
    Server, Address, Refresh, MaxChanges, MaxFailures \* ProxyFeed

ASSUME PartsAssumption ==
    AsText \in BOOLEAN /\ MaxLines \in Nat /\ MaxInputs \in Nat /\ MaxChanges \in Nat /\ MaxFailures \in Nat

VARIABLES
    part,
    rows, events, link, client, feed, tasks, refresh, registered, changes, failures, deaf,
    overlap, failed,
    console, mounted, tab, connected, ready, shown, up, down, end, handler, pod, history, printed,
    typed, received, inputs, early

Shell == INSTANCE Terminal
Feed == INSTANCE ProxyFeed

feedVars == <<rows, events, link, client, feed, tasks, refresh, registered, changes, failures,
              deaf, overlap, failed>>
shellVars == <<console, mounted, tab, connected, ready, shown, up, down, end, handler, pod,
               history, printed, typed, received, inputs, early>>
connectionsVars == <<part, vars, feedVars, shellVars>>

ConnectionsInit ==
    /\ part \in {"terminal", "feed", "topology"}
    /\ IF part = "terminal" THEN Shell!Init
       ELSE /\ console = FALSE /\ mounted = FALSE /\ tab = "closed" /\ connected = FALSE
            /\ ready = FALSE /\ shown = <<>> /\ up = <<>> /\ down = <<>> /\ end = "closed"
            /\ handler = "done" /\ pod = "none" /\ history = "none" /\ printed = <<>>
            /\ typed = <<>> /\ received = <<>> /\ inputs = 0 /\ early = FALSE
    /\ IF part = "feed" THEN Feed!Init
       ELSE /\ rows = Feed!Empty /\ events = 0 /\ link = "closed" /\ client = FALSE /\ feed = 0
            /\ tasks = 0 /\ refresh = [r \in Refresh |-> Feed!Idle] /\ registered = rows
            /\ changes = 0 /\ failures = 0 /\ deaf = FALSE /\ overlap = FALSE /\ failed = FALSE
    /\ IF part = "topology" THEN Init
       ELSE /\ version = 1 /\ lists = "failed" /\ sequence = 0 /\ graph = NoGraph
            /\ fetch = [f \in 1 .. MaxFetches |-> NoFetch]
            /\ loading = TRUE /\ error = FALSE /\ initial = TRUE /\ refreshing = FALSE
            /\ overtaken = FALSE

ConnectionsNext ==
    /\ UNCHANGED part
    /\ \/ part = "terminal" /\ Shell!Next /\ UNCHANGED <<vars, feedVars>>
       \/ part = "feed" /\ Feed!Next /\ UNCHANGED <<vars, shellVars>>
       \/ part = "topology" /\ Next /\ UNCHANGED <<feedVars, shellVars>>

ConnectionsSpec ==
    /\ ConnectionsInit /\ [][ConnectionsNext]_connectionsVars
    /\ Shell!Fairness /\ Feed!Fairness /\ Fairness
-----------------------------------------------------------------------------
\* The type of the three parts, and the properties of the instances.
ConnectionsTypeOK == Shell!TypeOK /\ Feed!TypeOK /\ TypeOK

Carries == Shell!Carries
SessionsEnd == Shell!SessionsEnd
ListSettles == Feed!ListSettles
HearsWhileConnected == Feed!HearsWhileConnected
=============================================================================
