---------------------------- MODULE TopologyPage ----------------------------
(***************************************************************************)
(* The topology page (app/dashboard/topology/page.tsx) and its hooks: the  *)
(* lists of servers and proxies, loaded once (use-server-list.ts), and the *)
(* fetches of everything else (use-topology-data.ts), which are numbered,  *)
(* take several calls each, and overlap: one after the lists, one every    *)
(* five seconds after the first, and those of the two Retry buttons.  What *)
(* the backend knows is a version that grows; TopologyGraph has the graph. *)
(***************************************************************************)
EXTENDS Naturals

CONSTANTS
    MaxFetches, \* bound: fetches
    MaxVersion  \* bound: changes at the backend

ASSUME BoundsAssumption == MaxFetches \in Nat /\ MaxVersion \in Nat \ {0}

VARIABLES
    version,    \* of what the backend knows
    lists,      \* useServerList: "asked", "loaded", "failed"
    sequence,   \* requestSequence: the number of the last fetch
    fetch,      \* the fetches: step, kind and the versions read
    graph,      \* the graph on screen
    loading, error, initial, refreshing,
    overtaken   \* history: a fetch with a later number began while `loading` was set

vars == <<version, lists, sequence, fetch, graph, loading, error, initial, refreshing, overtaken>>
screen == <<graph, loading, error, initial, refreshing>>

Fetches == 1 .. MaxFetches
NoFetch == [at |-> "none", refresh |-> FALSE, nodes |-> 0, pods |-> 0]
NoGraph == [nodes |-> 0, pods |-> 0, resources |-> 0, of |-> 0]

Running(f) == fetch[f].at \in {"nodes", "pods", "details", "resources"}

\* What the page makes of the hook's state.
Loading == lists = "asked" \/ (loading /\ lists # "failed")
ErrorPanel == ~Loading /\ (lists = "failed" \/ error) /\ graph = NoGraph
ErrorBar == ~Loading /\ (lists = "failed" \/ error) /\ graph # NoGraph

\* The state right after the page is mounted.
Init ==
    /\ version = 1 /\ lists = "asked"
    /\ sequence = 0 /\ fetch = [f \in Fetches |-> NoFetch]
    /\ graph = NoGraph
    /\ loading = TRUE /\ error = FALSE /\ initial = TRUE /\ refreshing = FALSE
    /\ overtaken = FALSE

\* A server, a node or a pod changes.
Change ==
    /\ version < MaxVersion
    /\ version' = version + 1
    /\ UNCHANGED <<lists, sequence, fetch, screen, overtaken>>

-----------------------------------------------------------------------------
(* A fetch.                                                                 *)

\* fetchTopologyData(isRefresh), up to its first call.
Begin(isRefresh) ==
    /\ sequence < MaxFetches
    /\ sequence' = sequence + 1
    /\ fetch' = [fetch EXCEPT ![sequence + 1] =
                    [NoFetch EXCEPT !.at = "nodes", !.refresh = isRefresh]]
    /\ refreshing' = (refreshing \/ isRefresh)
    /\ loading' = (loading \/ ~isRefresh)
    /\ error' = FALSE
    /\ overtaken' = (overtaken \/ (isRefresh /\ loading))
    /\ UNCHANGED <<version, graph, initial>>

\* The finally block of a fetch that is still the last one.
Settle(f) ==
    /\ initial' = FALSE
    /\ loading' = (loading /\ fetch[f].refresh)
    /\ refreshing' = FALSE

\* The nodes or the custom resources cannot be read.
Fail(f) ==
    /\ fetch[f].at \in {"nodes", "resources"}
    /\ fetch' = [fetch EXCEPT ![f].at = "failed"]
    /\ IF f = sequence
       THEN error' = TRUE /\ Settle(f) /\ UNCHANGED graph
       ELSE UNCHANGED screen
    /\ UNCHANGED <<version, lists, sequence, overtaken>>

ReadNodes(f) ==
    /\ fetch[f].at = "nodes"
    /\ fetch' = [fetch EXCEPT ![f].at = "pods", ![f].nodes = version]
    /\ UNCHANGED <<version, lists, sequence, screen, overtaken>>

\* A list of pods that cannot be read is taken to be empty.
ReadPods(f) ==
    /\ fetch[f].at = "pods"
    /\ fetch' = [fetch EXCEPT ![f].at = "details", ![f].pods = version]
    /\ UNCHANGED <<version, lists, sequence, screen, overtaken>>

\* Connection information and metrics; what cannot be read is left out.
ReadDetails(f) ==
    /\ fetch[f].at = "details"
    /\ fetch' = [fetch EXCEPT ![f].at = "resources"]
    /\ UNCHANGED <<version, lists, sequence, screen, overtaken>>

Graph(f) == [nodes |-> fetch[f].nodes, pods |-> fetch[f].pods, resources |-> version, of |-> f]

\* Mutant: every fetch shows its graph.
Publish_Always(f) ==
    /\ fetch[f].at = "resources"
    /\ fetch' = [fetch EXCEPT ![f].at = "done"]
    /\ graph' = Graph(f) /\ error' = FALSE
    /\ Settle(f)
    /\ UNCHANGED <<version, lists, sequence, overtaken>>

\* The custom resources are read and the graph is built; only the last fetch
\* shows its own.
Publish(f) ==
    /\ fetch[f].at = "resources"
    /\ fetch' = [fetch EXCEPT ![f].at = "done"]
    /\ IF f = sequence
       THEN graph' = Graph(f) /\ error' = FALSE /\ Settle(f)
       ELSE UNCHANGED screen
    /\ UNCHANGED <<version, lists, sequence, overtaken>>

-----------------------------------------------------------------------------
(* What begins one.                                                         *)

\* The lists arrive, and the first effect fetches.
ListsLoaded ==
    /\ lists = "asked"
    /\ lists' = "loaded"
    /\ Begin(FALSE)

\* Nothing loads them again.
ListsFail ==
    /\ lists = "asked"
    /\ lists' = "failed"
    /\ UNCHANGED <<version, sequence, fetch, screen, overtaken>>

\* The interval of the second effect.
Tick == lists # "asked" /\ ~initial /\ Begin(TRUE) /\ UNCHANGED lists

\* The button "Retry now" of the error panel.
RetryNow == ErrorPanel /\ Begin(FALSE) /\ UNCHANGED lists

\* The button "Retry" above a graph that could not be refreshed.
Retry == ErrorBar /\ ~refreshing /\ Begin(TRUE) /\ UNCHANGED lists

Step(f) == Fail(f) \/ ReadNodes(f) \/ ReadPods(f) \/ ReadDetails(f) \/ Publish(f)

Next ==
    \/ Change \/ ListsLoaded \/ ListsFail \/ Tick \/ RetryNow \/ Retry
    \/ \E f \in Fetches : Step(f)

Spec == Init /\ [][Next]_vars

\* Calls are answered, and the interval fires.
Fairness ==
    /\ WF_vars(ListsLoaded \/ ListsFail) /\ WF_vars(Tick)
    /\ \A f \in Fetches : WF_vars(Step(f))
FairSpec == Spec /\ Fairness
-----------------------------------------------------------------------------
(* Properties.                                                              *)

\* The type of the state.
TypeOK ==
    /\ version \in 1 .. MaxVersion
    /\ lists \in {"asked", "loaded", "failed"}
    /\ sequence \in 0 .. MaxFetches
    /\ fetch \in [Fetches -> [at : {"none", "nodes", "pods", "details", "resources", "done", "failed"},
                              refresh : BOOLEAN, nodes : 0 .. MaxVersion, pods : 0 .. MaxVersion]]
    /\ graph \in [nodes : 0 .. MaxVersion, pods : 0 .. MaxVersion,
                  resources : 0 .. MaxVersion, of : 0 .. MaxFetches]
    /\ {loading, error, initial, refreshing, overtaken} \subseteq BOOLEAN

\* Once the last fetch has ended the screen shows its outcome, and nothing turns
\* any more.  The exception is `loading`: a fetch of "Retry now" that the interval
\* overtakes leaves it set for good.
ScreenIsOfTheLast ==
    sequence > 0 /\ ~Running(sequence) =>
        /\ IF fetch[sequence].at = "failed" THEN error ELSE ~error /\ graph.of = sequence
        /\ ~refreshing
        /\ loading => overtaken

\* No part of the picture is ever replaced by an older reading of it, however
\* the calls of overlapping fetches are answered.
NeverGoesBack ==
    [][graph'.nodes >= graph.nodes /\ graph'.pods >= graph.pods
         /\ graph'.resources >= graph.resources]_graph

=============================================================================
