------------------------------ MODULE MCCluster ------------------------------
(***************************************************************************)
(* Two parts that share no state, in one fair instance for TLC: the plugin *)
(* library of PluginRegistry and the page of ClusterPage.  A behaviour is a *)
(* behaviour of one part; the other keeps a state in which nothing is left *)
(* to do.                                                                  *)
(***************************************************************************)
EXTENDS PluginRegistry

CONSTANTS
    List, Poll, MaxVersion  \* ClusterPage

ASSUME ClusterAssumption == MaxVersion \in Nat \ {0}

VARIABLES
    part,
    mounted, version, linked, shown, poll, initialLoading, refreshing, error, hasLoaded, lost, last

\* One upload, and two versions of one provider project.
DistinctProjects == [k \in Key |-> IF k \in Upload THEN "jar" ELSE "via"]

Cluster == INSTANCE ClusterPage WITH failures <- lost

clusterVars == <<mounted, version, linked, shown, poll, initialLoading, refreshing, error,
                 hasLoaded, lost, last>>
partsVars == <<part, vars, clusterVars>>

PartsInit ==
    /\ part \in {"registry", "cluster"}
    /\ IF part = "registry" THEN Init
       ELSE /\ library = {} /\ created = 1 /\ store = {} /\ servers = {} /\ installed = {}
            /\ published = [s \in Server |-> {}] /\ req = [r \in Request |-> Idle]
            /\ cycle = NoCycle /\ failures = 0 /\ marred = {} /\ mixed = {}
    /\ IF part = "cluster" THEN Cluster!Init
       ELSE /\ mounted = FALSE /\ version = 1 /\ linked = FALSE
            /\ shown = [a \in Cluster!Asked |-> 0] /\ poll = [p \in Poll |-> Cluster!NoPoll]
            /\ initialLoading = TRUE /\ refreshing = FALSE /\ error = FALSE
            /\ hasLoaded = FALSE /\ lost = 0 /\ last = Cluster!NoPoll

PartsNext ==
    /\ UNCHANGED part
    /\ \/ part = "registry" /\ Next /\ UNCHANGED clusterVars
       \/ part = "cluster" /\ Cluster!Next /\ UNCHANGED vars

PartsSpec ==
    /\ PartsInit /\ [][PartsNext]_partsVars
    /\ Fairness /\ Cluster!Fairness
-----------------------------------------------------------------------------
\* The type of the two parts, and the properties of the instance.
PartsTypeOK == TypeOK /\ Cluster!TypeOK

PollIsShown == Cluster!PollIsShown
CatchesUp == Cluster!CatchesUp
=============================================================================
