------------------------- MODULE Connections_proofs -------------------------
(***************************************************************************)
(* Proofs about the parts of MCConnections, for any bounds: the screen of   *)
(* TopologyPage shows the outcome of the last fetch and never goes back; in *)
(* ProxyFeed a plugin misses no change while its connection lasts, and has  *)
(* the right list at rest; Terminal implements a channel from the pod's     *)
(* output to the screen and one from the keyboard to the pod, and tells     *)
(* both ends when a session ends; and the state keeps its type.             *)
(***************************************************************************)
EXTENDS MCConnections, Sequences, SequenceTheorems, TLAPS

Steps == {"none", "nodes", "pods", "details", "resources", "done", "failed"}

Fetch == [at : Steps, refresh : BOOLEAN, nodes : 0 .. MaxVersion, pods : 0 .. MaxVersion]

Picture == [nodes : 0 .. MaxVersion, pods : 0 .. MaxVersion,
            resources : 0 .. MaxVersion, of : 0 .. MaxFetches]

\* A fetch has a number once it has begun, and what it read is not newer than the backend.
FetchOK(f) ==
    /\ f > sequence => fetch[f] = NoFetch
    /\ fetch[f].nodes <= version /\ fetch[f].pods <= version

\* A fetch that began after the one on screen has read nothing older.
Later(f) ==
    f > graph.of =>
        /\ fetch[f].at \in {"pods", "details", "resources"} => fetch[f].nodes >= graph.nodes
        /\ fetch[f].at \in {"details", "resources"} => fetch[f].pods >= graph.pods

\* The fetch on screen is over, and what is on screen not newer than the backend.
GraphOK ==
    /\ graph.of <= sequence
    /\ graph.of > 0 => fetch[graph.of].at = "done"
    /\ graph.nodes <= version /\ graph.pods <= version /\ graph.resources <= version

\* Whether `loading` is set is up to the fetch that runs, unless it was overtaken.
LoadingOK ==
    sequence > 0 => (loading => overtaken \/ (Running(sequence) /\ ~fetch[sequence].refresh))

Invariant ==
    /\ TypeOK
    /\ GraphOK
    /\ \A f \in Fetches : FetchOK(f) /\ Later(f)
    /\ LoadingOK
    /\ ScreenIsOfTheLast

-----------------------------------------------------------------------------

\* What a fetch is when it begins.
LEMMA FreshFetch ==
    ASSUME NEW r \in BOOLEAN
    PROVE  /\ [NoFetch EXCEPT !.at = "nodes", !.refresh = r] \in Fetch
           /\ [NoFetch EXCEPT !.at = "nodes", !.refresh = r].at = "nodes"
           /\ [NoFetch EXCEPT !.at = "nodes", !.refresh = r].refresh = r
           /\ [NoFetch EXCEPT !.at = "nodes", !.refresh = r].nodes = 0
           /\ [NoFetch EXCEPT !.at = "nodes", !.refresh = r].pods = 0
<1>1. 0 \in 0 .. MaxVersion
  BY BoundsAssumption
<1>2. NoFetch \in Fetch /\ NoFetch.nodes = 0 /\ NoFetch.pods = 0
  BY <1>1 DEF NoFetch, Fetch, Steps
<1>3. [NoFetch EXCEPT !.at = "nodes"] \in Fetch
  BY <1>2 DEF Fetch, Steps
<1> QED
  BY <1>2, <1>3 DEF Fetch, Steps

LEMMA TypeStep == ASSUME Invariant, [Next]_vars PROVE TypeOK'
<1> USE BoundsAssumption DEF Invariant
<1>1. TypeOK
  OBVIOUS
<1>2. \A f \in Fetches : fetch[f] \in Fetch
  BY <1>1 DEF TypeOK, Fetch, Steps
<1>3. ASSUME NEW r \in BOOLEAN, Begin(r), lists' \in {"asked", "loaded", "failed"}
      PROVE  TypeOK'
  <2>1. [NoFetch EXCEPT !.at = "nodes", !.refresh = r] \in Fetch
    BY FreshFetch
  <2>2. fetch' \in [Fetches -> Fetch]
    BY <1>1, <1>3, <2>1 DEF Begin, TypeOK, Fetch, Steps
  <2>3. sequence' \in 0 .. MaxFetches
    BY <1>1, <1>3 DEF Begin, TypeOK
  <2>4. {loading', error', initial', refreshing', overtaken'} \subseteq BOOLEAN
    BY <1>1, <1>3 DEF Begin, TypeOK
  <2> QED
    BY <1>1, <1>3, <2>2, <2>3, <2>4 DEF Begin, TypeOK, Fetch, Steps
<1>4. ASSUME NEW f \in Fetches, Fail(f) PROVE TypeOK'
  <2>1. [fetch[f] EXCEPT !.at = "failed"] \in Fetch
    BY <1>2 DEF Fetch, Steps
  <2>2. fetch' \in [Fetches -> Fetch]
    BY <1>1, <1>4, <2>1 DEF Fail, TypeOK, Fetch, Steps
  <2>3. {loading', error', initial', refreshing', overtaken'} \subseteq BOOLEAN /\ graph' = graph
    BY <1>1, <1>4 DEF Fail, TypeOK, Settle, screen
  <2> QED
    BY <1>1, <1>4, <2>2, <2>3 DEF Fail, TypeOK, Fetch, Steps
<1>5. ASSUME NEW f \in Fetches, ReadNodes(f) \/ ReadPods(f) \/ ReadDetails(f) PROVE TypeOK'
  <2>1. /\ [fetch[f] EXCEPT !.at = "pods", !.nodes = version] \in Fetch
        /\ [fetch[f] EXCEPT !.at = "details", !.pods = version] \in Fetch
        /\ [fetch[f] EXCEPT !.at = "resources"] \in Fetch
    <3>1. fetch[f] \in Fetch /\ version \in 0 .. MaxVersion
      BY <1>1, <1>2 DEF TypeOK
    <3> QED
      BY <3>1 DEF Fetch, Steps
  <2>2. fetch' \in [Fetches -> Fetch]
    BY <1>1, <1>5, <2>1 DEF ReadNodes, ReadPods, ReadDetails, TypeOK, Fetch, Steps
  <2> QED
    BY <1>1, <1>5, <2>2 DEF ReadNodes, ReadPods, ReadDetails, screen, TypeOK, Fetch, Steps
<1>6. ASSUME NEW f \in Fetches, Publish(f) PROVE TypeOK'
  <2>1. [fetch[f] EXCEPT !.at = "done"] \in Fetch
    BY <1>2 DEF Fetch, Steps
  <2>2. fetch' \in [Fetches -> Fetch]
    BY <1>1, <1>6, <2>1 DEF Publish, TypeOK, Fetch, Steps
  <2>3. Graph(f) \in Picture
    BY <1>1, <1>2 DEF Graph, Picture, Fetch, TypeOK, Fetches
  <2>4. {loading', error', initial', refreshing', overtaken'} \subseteq BOOLEAN
    BY <1>1, <1>6 DEF Publish, TypeOK, Settle, screen
  <2>5. graph' \in Picture
    BY <1>1, <1>6, <2>3 DEF Publish, TypeOK, screen, Picture
  <2> QED
    BY <1>1, <1>6, <2>2, <2>4, <2>5 DEF Publish, TypeOK, Fetch, Steps, Picture
<1>7. CASE Change
  BY <1>1, <1>7 DEF Change, TypeOK, screen
<1>8. CASE ListsFail
  BY <1>1, <1>8 DEF ListsFail, TypeOK, screen
<1>9. CASE UNCHANGED vars
  BY <1>1, <1>9 DEF vars, TypeOK
<1>10. CASE ListsLoaded
  BY <1>3, <1>10 DEF ListsLoaded
<1>11. CASE Tick \/ RetryNow \/ Retry
  <2>1. PICK r \in BOOLEAN : Begin(r)
    BY <1>11 DEF Tick, RetryNow, Retry
  <2> QED
    BY <1>1, <1>3, <1>11, <2>1 DEF Tick, RetryNow, Retry, TypeOK
<1> QED
  BY <1>4, <1>5, <1>6, <1>7, <1>8, <1>9, <1>10, <1>11 DEF Next, Step

-----------------------------------------------------------------------------

\* What the properties need of the type.
LEMMA Types ==
    ASSUME TypeOK
    PROVE  /\ version \in Nat /\ sequence \in Nat /\ sequence <= MaxFetches /\ MaxFetches \in Nat
           /\ graph.of \in Nat /\ graph.of <= MaxFetches
           /\ graph.nodes \in Nat /\ graph.pods \in Nat /\ graph.resources \in Nat
           /\ sequence > 0 => sequence \in Fetches
           /\ graph.of > 0 => graph.of \in Fetches
           /\ \A f \in Fetches : /\ f \in Nat /\ f > 0
                                 /\ fetch[f].at \in Steps /\ fetch[f].refresh \in BOOLEAN
                                 /\ fetch[f].nodes \in Nat /\ fetch[f].pods \in Nat
           /\ {loading, error, refreshing, overtaken} \subseteq BOOLEAN
  BY BoundsAssumption DEF TypeOK, Fetches, Steps

\* A beginning fetch keeps the invariant: its number is new, and it has read nothing.
LEMMA BeginKeeps ==
    ASSUME Invariant, NEW r \in BOOLEAN, Begin(r), TypeOK'
    PROVE  Invariant'
<1> DEFINE n == sequence + 1
<1>1. TypeOK /\ GraphOK
  BY DEF Invariant
<1>2. /\ n \in Fetches /\ n \in Nat /\ sequence \in Nat
      /\ sequence' = n /\ version' = version /\ graph' = graph
  BY <1>1, Types DEF Begin, Fetches
<1>3. /\ fetch'[n].at = "nodes" /\ fetch'[n].refresh = r
      /\ fetch'[n].nodes = 0 /\ fetch'[n].pods = 0
  BY <1>1, <1>2, FreshFetch DEF Begin, TypeOK
<1>4. \A f \in Fetches \ {n} : fetch'[f] = fetch[f]
  BY <1>1, <1>2 DEF Begin, TypeOK
<1>5. GraphOK'
  <2>1. graph.of > 0 => graph.of \in Fetches \ {n}
    BY <1>1, <1>2, Types DEF GraphOK
  <2> QED
    BY <1>1, <1>2, <1>4, <2>1, Types DEF GraphOK
<1>6. ASSUME NEW f \in Fetches PROVE FetchOK(f)' /\ Later(f)'
  <2>1. CASE f = n
    BY <1>1, <1>2, <1>3, <2>1, Types DEF FetchOK, Later
  <2>2. CASE f # n
    <3>1. fetch'[f] = fetch[f] /\ FetchOK(f) /\ Later(f)
      BY <1>4, <2>2 DEF Invariant
    <3> QED
      BY <1>1, <1>2, <2>2, <3>1, Types DEF FetchOK, Later
  <2> QED
    BY <2>1, <2>2
<1>7. Running(sequence)'
  BY <1>2, <1>3 DEF Running
<1>8. LoadingOK'
  <2>1. loading' => overtaken' \/ ~r
    BY DEF Begin
  <2> QED
    BY <1>2, <1>3, <1>7, <2>1 DEF LoadingOK, Running
<1>9. ScreenIsOfTheLast'
  BY <1>7 DEF ScreenIsOfTheLast
<1> QED
  BY <1>5, <1>6, <1>8, <1>9 DEF Invariant

\* A step of a fetch that leaves the screen alone.
LEMMA ReadKeeps ==
    ASSUME Invariant, NEW f \in Fetches, ReadNodes(f) \/ ReadPods(f) \/ ReadDetails(f), TypeOK'
    PROVE  Invariant'
<1>1. TypeOK /\ GraphOK /\ FetchOK(f) /\ Later(f)
  BY DEF Invariant
<1>2. /\ UNCHANGED <<version, sequence, graph, loading, error, refreshing, overtaken>>
      /\ \A g \in Fetches \ {f} : fetch'[g] = fetch[g]
  BY <1>1 DEF ReadNodes, ReadPods, ReadDetails, screen, TypeOK
<1>3. fetch[f].at \in {"nodes", "pods", "details"}
  BY DEF ReadNodes, ReadPods, ReadDetails
<1>4. /\ fetch'[f].refresh = fetch[f].refresh
      /\ \/ /\ fetch'[f].at = "pods" /\ fetch'[f].nodes = version
            /\ fetch'[f].pods = fetch[f].pods
         \/ /\ fetch[f].at = "pods" /\ fetch'[f].at = "details" /\ fetch'[f].pods = version
            /\ fetch'[f].nodes = fetch[f].nodes
         \/ /\ fetch[f].at = "details" /\ fetch'[f].at = "resources"
            /\ fetch'[f].nodes = fetch[f].nodes /\ fetch'[f].pods = fetch[f].pods
  BY <1>1 DEF ReadNodes, ReadPods, ReadDetails, TypeOK
<1>5. f <= sequence
  BY <1>1, <1>3, Types DEF FetchOK, NoFetch
<1>6. GraphOK'
  <2>1. graph.of # f
    BY <1>1, <1>3, Types DEF GraphOK
  <2> QED
    BY <1>1, <1>2, <2>1, Types DEF GraphOK
<1>7. ASSUME NEW g \in Fetches PROVE FetchOK(g)' /\ Later(g)'
  <2>1. CASE g = f
    BY <1>1, <1>2, <1>4, <1>5, <2>1, Types DEF FetchOK, Later, GraphOK
  <2>2. CASE g # f
    <3>1. fetch'[g] = fetch[g] /\ FetchOK(g) /\ Later(g)
      BY <1>2, <2>2 DEF Invariant
    <3> QED
      BY <1>2, <3>1 DEF FetchOK, Later
  <2> QED
    BY <2>1, <2>2
<1>8. ASSUME sequence > 0
      PROVE  Running(sequence)' = Running(sequence) /\ fetch'[sequence].refresh = fetch[sequence].refresh
             /\ (~Running(sequence) => fetch'[sequence].at = fetch[sequence].at)
  <2>1. CASE sequence = f
    BY <1>2, <1>3, <1>4, <2>1 DEF Running
  <2>2. CASE sequence # f
    <3>1. fetch'[sequence] = fetch[sequence]
      BY <1>1, <1>2, <1>8, <2>2, Types
    <3> QED
      BY <1>2, <3>1 DEF Running
  <2> QED
    BY <2>1, <2>2
<1>9. LoadingOK'
  BY <1>2, <1>8 DEF LoadingOK, Invariant
<1>10. ScreenIsOfTheLast'
  BY <1>2, <1>8 DEF ScreenIsOfTheLast, Invariant
<1> QED
  BY <1>6, <1>7, <1>9, <1>10 DEF Invariant

\* The end of a fetch: only the last one changes the screen.
LEMMA EndKeeps ==
    ASSUME Invariant, NEW f \in Fetches, Fail(f) \/ Publish(f), TypeOK'
    PROVE  Invariant'
<1>1. TypeOK /\ GraphOK /\ FetchOK(f) /\ Later(f)
  BY DEF Invariant
<1>2. /\ UNCHANGED <<version, sequence, overtaken>>
      /\ \A g \in Fetches \ {f} : fetch'[g] = fetch[g]
  BY <1>1 DEF Fail, Publish, TypeOK
<1>3. /\ fetch[f].at \in {"nodes", "resources"}
      /\ fetch'[f].at = IF Fail(f) THEN "failed" ELSE "done"
      /\ fetch'[f].refresh = fetch[f].refresh
      /\ fetch'[f].nodes = fetch[f].nodes /\ fetch'[f].pods = fetch[f].pods
  <2>1. CASE Fail(f)
    BY <1>1, <2>1 DEF Fail, TypeOK
  <2>2. CASE ~Fail(f)
    BY <1>1, <2>2 DEF Publish, TypeOK
  <2> QED
    BY <2>1, <2>2
<1>4. f <= sequence /\ graph.of # f
  BY <1>1, <1>3, Types DEF FetchOK, NoFetch, GraphOK
<1>5. graph' = IF Publish(f) /\ f = sequence THEN Graph(f) ELSE graph
  BY <1>3 DEF Fail, Publish, screen
<1>6. ASSUME graph' = graph
      PROVE  GraphOK' /\ \A g \in Fetches : FetchOK(g)' /\ Later(g)'
  <2>1. GraphOK'
    BY <1>1, <1>2, <1>4, <1>6, Types DEF GraphOK
  <2>2. ASSUME NEW g \in Fetches PROVE FetchOK(g)' /\ Later(g)'
    <3>1. CASE g = f
      BY <1>1, <1>2, <1>3, <1>4, <1>6, <3>1, Types DEF FetchOK, Later
    <3>2. CASE g # f
      <4>1. fetch'[g] = fetch[g] /\ FetchOK(g) /\ Later(g)
        BY <1>2, <3>2 DEF Invariant
      <4> QED
        BY <1>2, <1>6, <4>1 DEF FetchOK, Later
    <3> QED
      BY <3>1, <3>2
  <2> QED
    BY <2>1, <2>2
<1>7. ASSUME Publish(f), f = sequence
      PROVE  GraphOK' /\ \A g \in Fetches : FetchOK(g)' /\ Later(g)'
  <2>1. /\ graph'.of = f /\ graph'.nodes = fetch[f].nodes /\ graph'.pods = fetch[f].pods
        /\ graph'.resources = version
    BY <1>5, <1>7 DEF Graph
  <2>2. fetch'[f].at = "done"
    BY <1>1, <1>7 DEF Publish, TypeOK
  <2>3. GraphOK'
    BY <1>1, <1>2, <1>7, <2>1, <2>2, Types DEF GraphOK, FetchOK
  <2>4. ASSUME NEW g \in Fetches PROVE FetchOK(g)' /\ Later(g)'
    <3>1. CASE g = f
      BY <1>1, <1>2, <1>3, <1>4, <2>1, <3>1, Types DEF FetchOK, Later
    <3>2. CASE g # f
      <4>1. fetch'[g] = fetch[g] /\ FetchOK(g)
        BY <1>2, <3>2 DEF Invariant
      <4>2. g > f => fetch[g].at = "none"
        BY <1>7, <4>1, Types DEF FetchOK, NoFetch
      <4> QED
        BY <1>2, <2>1, <4>1, <4>2 DEF FetchOK, Later
    <3> QED
      BY <3>1, <3>2
  <2> QED
    BY <2>3, <2>4
<1>8. GraphOK' /\ \A g \in Fetches : FetchOK(g)' /\ Later(g)'
  BY <1>5, <1>6, <1>7
<1>9. LoadingOK' /\ ScreenIsOfTheLast'
  <2>1. CASE f = sequence
    <3>1. /\ loading' = (loading /\ fetch[f].refresh) /\ ~refreshing'
          /\ Fail(f) => error'
          /\ ~Fail(f) => ~error' /\ graph'.of = f
      BY <2>1 DEF Fail, Publish, Settle, Graph
    <3>2. Running(f)
      BY <1>3 DEF Running
    <3>3. loading' => overtaken'
      BY <1>2, <2>1, <3>1, <3>2, <1>1, Types DEF LoadingOK, Invariant
    <3> QED
      BY <1>2, <1>3, <2>1, <3>1, <3>3 DEF LoadingOK, ScreenIsOfTheLast
  <2>2. CASE f # sequence
    <3>1. UNCHANGED <<graph, loading, error, refreshing>>
      BY <2>2 DEF Fail, Publish, screen
    <3>2. sequence > 0 => fetch'[sequence] = fetch[sequence]
      BY <1>1, <1>2, <2>2, Types
    <3> QED
      BY <1>2, <3>1, <3>2 DEF LoadingOK, ScreenIsOfTheLast, Running, Invariant
  <2> QED
    BY <2>1, <2>2
<1> QED
  BY <1>8, <1>9 DEF Invariant

\* What the backend knows only grows.
LEMMA ChangeKeeps == ASSUME Invariant, Change, TypeOK' PROVE Invariant'
<1>1. TypeOK
  BY DEF Invariant
<1>2. /\ version' = version + 1 /\ version \in Nat
      /\ UNCHANGED <<sequence, fetch, graph, loading, error, refreshing, overtaken>>
  BY <1>1, Types DEF Change, screen
<1>3. GraphOK'
  BY <1>1, <1>2, Types DEF GraphOK, Invariant
<1>4. ASSUME NEW f \in Fetches PROVE FetchOK(f)' /\ Later(f)'
  BY <1>1, <1>2, Types DEF FetchOK, Later, Invariant
<1>5. LoadingOK' /\ ScreenIsOfTheLast'
  BY <1>2 DEF LoadingOK, ScreenIsOfTheLast, Running, Invariant
<1> QED
  BY <1>3, <1>4, <1>5 DEF Invariant

LEMMA InvariantStep == ASSUME Invariant, [Next]_vars PROVE Invariant'
<1>1. TypeOK'
  BY TypeStep
<1>2. CASE Change
  BY <1>1, <1>2, ChangeKeeps
<1>3. CASE ListsLoaded \/ Tick \/ RetryNow \/ Retry
  <2>1. PICK r \in BOOLEAN : Begin(r)
    BY <1>3 DEF ListsLoaded, Tick, RetryNow, Retry
  <2> QED
    BY <1>1, <2>1, BeginKeeps
<1>4. CASE ListsFail \/ UNCHANGED vars
  <2>1. UNCHANGED <<version, sequence, fetch, graph, loading, error, refreshing, overtaken>>
    BY <1>4 DEF ListsFail, screen, vars
  <2> QED
    BY <1>1, <2>1 DEF Invariant, GraphOK, FetchOK, Later, LoadingOK, ScreenIsOfTheLast, Running
<1>5. ASSUME NEW f \in Fetches, Step(f) PROVE Invariant'
  BY <1>1, <1>5, ReadKeeps, EndKeeps DEF Step
<1> QED
  BY <1>2, <1>3, <1>4, <1>5 DEF Next

LEMMA InitHolds == ASSUME Init PROVE Invariant
<1>1. 0 \in 0 .. MaxVersion /\ 0 \in 0 .. MaxFetches /\ 1 \in 1 .. MaxVersion
  BY BoundsAssumption
<1>2. TypeOK
  BY <1>1 DEF Init, TypeOK, NoFetch, NoGraph
<1>3. GraphOK
  BY DEF Init, GraphOK, NoGraph
<1>4. ASSUME NEW f \in Fetches PROVE FetchOK(f) /\ Later(f)
  BY DEF Init, FetchOK, Later, NoFetch, NoGraph
<1> QED
  BY <1>2, <1>3, <1>4 DEF Init, Invariant, LoadingOK, ScreenIsOfTheLast

\* The inductive invariant holds in every reachable state.
THEOREM PageInvariant == Spec => []Invariant
<1>1. Init => Invariant
  BY InitHolds
<1>2. Invariant /\ [Next]_vars => Invariant'
  BY InvariantStep
<1> QED
  BY <1>1, <1>2, PTL DEF Spec

\* Once the last fetch has ended, the screen is its outcome and nothing turns, unless the
\* interval overtook a "Retry now".
THEOREM TheLastIsShown == Spec => []ScreenIsOfTheLast
<1>1. Invariant => ScreenIsOfTheLast
  BY DEF Invariant
<1> QED
  BY <1>1, PageInvariant, PTL

\* No part of the picture is replaced by an older reading.
THEOREM NothingGoesBack == Spec => NeverGoesBack
<1> DEFINE Forward == /\ graph'.nodes >= graph.nodes /\ graph'.pods >= graph.pods
                      /\ graph'.resources >= graph.resources
<1>1. ASSUME Invariant, [Next]_vars PROVE [Forward]_graph
  <2> SUFFICES ASSUME graph' # graph PROVE Forward
    OBVIOUS
  <2>1. PICK f \in Fetches : Publish(f) /\ f = sequence
    BY <1>1 DEF Next, vars, Change, ListsLoaded, ListsFail, Tick, RetryNow, Retry, Begin, Step,
                Fail, ReadNodes, ReadPods, ReadDetails, Publish, screen
  <2>2. TypeOK /\ GraphOK /\ Later(f)
    BY <1>1 DEF Invariant
  <2>3. f > graph.of
    BY <2>1, <2>2, Types DEF GraphOK, Publish
  <2>4. fetch[f].nodes >= graph.nodes /\ fetch[f].pods >= graph.pods
    BY <2>1, <2>2, <2>3 DEF Later, Publish
  <2>5. version >= graph.resources
    BY <2>2, Types DEF GraphOK
  <2> QED
    BY <2>1, <2>4, <2>5 DEF Publish, Graph
<1>2. Invariant /\ [Next]_vars => [Forward]_graph
  BY <1>1
<1> QED
  BY <1>2, PageInvariant, PTL DEF Spec, NeverGoesBack

-----------------------------------------------------------------------------
(* ProxyFeed.                                                               *)

\* Every event, message and refresh is owed to a change, but for the first refresh.
Owed ==
    /\ events + feed <= changes
    /\ events + feed + tasks <= changes + 1

\* The set of clients holds a plugin whose connection is up.
Kept == link = "up" => client

FeedInvariant == Feed!TypeOK /\ Owed /\ Kept

LEMMA NobodyIsServed == Feed!Empty \in Feed!Table
BY DEF Feed!Empty, Feed!Table

LEMMA FeedBegins == ASSUME ConnectionsInit PROVE FeedInvariant
<1>1. /\ rows \in Feed!Table /\ registered = Feed!Empty
      /\ events = 0 /\ link \in {"none", "closed"} /\ client = FALSE /\ feed = 0
      /\ tasks \in {0, 1} /\ refresh = [r \in Refresh |-> Feed!Idle]
      /\ changes = 0 /\ failures = 0
      /\ deaf = FALSE /\ overlap = FALSE /\ failed = FALSE
  <2>1. CASE part = "feed"
    BY <2>1 DEF ConnectionsInit, Feed!Init
  <2>2. CASE part # "feed"
    BY <2>2, NobodyIsServed DEF ConnectionsInit
  <2> QED
    BY <2>1, <2>2
<1>2. refresh \in [Refresh -> [at : {"idle", "asking", "answered"}, answer : Feed!Table]]
  BY <1>1, NobodyIsServed DEF Feed!Idle
<1>3. client \in BOOLEAN /\ deaf \in BOOLEAN /\ overlap \in BOOLEAN /\ failed \in BOOLEAN
  BY <1>1
<1> QED
  BY <1>1, <1>2, <1>3, NobodyIsServed, PartsAssumption DEF FeedInvariant, Owed, Kept, Feed!TypeOK

\* What a refresh registers is a table.
LEMMA Registers ==
    ASSUME FeedInvariant, NEW r \in Refresh, NEW done \in SUBSET Server
    PROVE  [s \in Server |-> IF s \in done THEN refresh[r].answer[s] ELSE registered[s]]
             \in Feed!Table
BY DEF FeedInvariant, Feed!TypeOK, Feed!Table

LEMMA FeedStep == ASSUME FeedInvariant, Feed!Next PROVE FeedInvariant'
<1> USE PartsAssumption, NobodyIsServed DEF FeedInvariant, Owed, Kept
<1>1. ASSUME NEW s \in Server, NEW a \in Address \cup {Feed!Absent}, Feed!Change(s, a)
      PROVE  FeedInvariant'
  <2>1. rows' \in Feed!Table
    BY <1>1 DEF Feed!Change, Feed!TypeOK, Feed!Table
  <2> QED
    BY <1>1, <2>1 DEF Feed!Change, Feed!TypeOK, Feed!connection, Feed!history
<1>2. CASE Feed!Broadcast
  BY <1>2 DEF Feed!Broadcast, Feed!TypeOK
<1>3. CASE Feed!Connect
  BY <1>3 DEF Feed!Connect, Feed!TypeOK, Feed!backend, Feed!history
<1>4. CASE Feed!Join
  BY <1>4 DEF Feed!Join, Feed!TypeOK, Feed!backend, Feed!history
<1>5. CASE Feed!Disconnect
  <2>1. deaf' \in BOOLEAN /\ client' \in BOOLEAN
    BY <1>5 DEF Feed!Disconnect
  <2> QED
    BY <1>5, <2>1 DEF Feed!Disconnect, Feed!TypeOK, Feed!backend
<1>6. CASE Feed!Restart
  <2>1. deaf' \in BOOLEAN /\ client' \in BOOLEAN
    BY <1>6 DEF Feed!Restart
  <2> QED
    BY <1>6, <2>1 DEF Feed!Restart, Feed!TypeOK
<1>7. CASE Feed!Hear
  BY <1>7 DEF Feed!Hear, Feed!TypeOK, Feed!backend, Feed!connection, Feed!history
<1>8. ASSUME NEW r \in Refresh, Feed!BeginRefresh(r) PROVE FeedInvariant'
  <2>1. overlap' \in BOOLEAN /\ failed' \in BOOLEAN
    BY <1>8 DEF Feed!BeginRefresh
  <2> QED
    BY <1>8, <2>1 DEF Feed!BeginRefresh, Feed!TypeOK, Feed!backend, Feed!connection
<1>9. ASSUME NEW r \in Refresh, Feed!Answer(r) PROVE FeedInvariant'
  BY <1>9 DEF Feed!Answer, Feed!TypeOK, Feed!backend, Feed!connection
<1>10. ASSUME NEW r \in Refresh, Feed!FailRefresh(r) PROVE FeedInvariant'
  BY <1>10 DEF Feed!FailRefresh, Feed!TypeOK, Feed!backend, Feed!connection, Feed!Idle
<1>11. ASSUME NEW r \in Refresh, Feed!Populate(r) PROVE FeedInvariant'
  <2>1. registered' \in Feed!Table
    BY <1>11, Registers DEF Feed!Populate
  <2> QED
    BY <1>11, <2>1
    DEF Feed!Populate, Feed!TypeOK, Feed!backend, Feed!connection, Feed!history, Feed!Idle
<1> QED
  BY <1>1, <1>2, <1>3, <1>4, <1>5, <1>6, <1>7, <1>8, <1>9, <1>10, <1>11 DEF Feed!Next

LEMMA FeedSteps ==
    ASSUME FeedInvariant, [ConnectionsNext]_connectionsVars
    PROVE  FeedInvariant'
<1>1. CASE Feed!Next
  BY <1>1, FeedStep
<1>2. CASE UNCHANGED feedVars
  BY <1>2 DEF feedVars, FeedInvariant, Owed, Kept, Feed!TypeOK
<1> QED
  BY <1>1, <1>2 DEF ConnectionsNext, connectionsVars

\* While the connection is up, no step but a broadcast could make the plugin deaf, and
\* that one finds it among the clients.
LEMMA FeedHears ==
    ASSUME FeedInvariant, [ConnectionsNext]_connectionsVars
    PROVE  [link = "up" /\ link' = "up" => (deaf' => deaf)]_Feed!vars
<1>1. CASE Feed!Next
  BY <1>1 DEF FeedInvariant, Kept, Feed!Next, Feed!Change, Feed!Broadcast, Feed!Connect, Feed!Join,
     Feed!Disconnect, Feed!Restart, Feed!Hear, Feed!BeginRefresh, Feed!Answer,
     Feed!FailRefresh, Feed!Populate, Feed!history
<1>2. CASE UNCHANGED feedVars
  BY <1>2 DEF feedVars, Feed!vars
<1> QED
  BY <1>1, <1>2 DEF ConnectionsNext, connectionsVars

\* A plugin that has joined hears of every change while the connection lasts: no
\* broadcast, failed connection or restart of the backend takes it out of the clients
\* and leaves the connection up (services/websocket.ts).
THEOREM NoChangeIsMissed == ConnectionsSpec => HearsWhileConnected
<1>1. ConnectionsInit => FeedInvariant
  BY FeedBegins
<1>2. FeedInvariant /\ [ConnectionsNext]_connectionsVars => FeedInvariant'
  BY FeedSteps
<1>3. FeedInvariant /\ [ConnectionsNext]_connectionsVars
        => [link = "up" /\ link' = "up" => (deaf' => deaf)]_Feed!vars
  BY FeedHears
<1> QED
  BY <1>1, <1>2, <1>3, PTL DEF ConnectionsSpec, HearsWhileConnected, Feed!HearsWhileConnected

-----------------------------------------------------------------------------
(* Queues.  A queue q carries the values of a stream S, among others: those  *)
(* of the stream that are outstanding after the first `from`, in order.  D   *)
(* is the set of values that count.                                          *)

Carrying(q, S, from, to, D) ==
    /\ \A i \in 1 .. Len(q) : q[i] \in D =>
         \E k \in from + 1 .. to :
            /\ q[i] = S[k]
            /\ \A l \in from + 1 .. k - 1 : \E j \in 1 .. i - 1 : q[j] = S[l]
    /\ \A i, j \in 1 .. Len(q) : i < j /\ q[i] \in D => q[i] # q[j]

Complete(q, S, from, to) == \A k \in from + 1 .. to : \E i \in 1 .. Len(q) : q[i] = S[k]

Distinct(S, to) == \A k, l \in 1 .. to : k # l => S[k] # S[l]

\* A value that does not count joins the queue.
LEMMA OtherJoins ==
    ASSUME NEW M, NEW q \in Seq(M), NEW S, NEW from \in Nat, NEW to \in Nat, NEW D,
           NEW m \in M, m \notin D, Carrying(q, S, from, to, D)
    PROVE  /\ Carrying(Append(q, m), S, from, to, D)
           /\ Complete(q, S, from, to) => Complete(Append(q, m), S, from, to)
<1> DEFINE p == Append(q, m)
<1>1. /\ Len(p) = Len(q) + 1 /\ Len(q) \in Nat /\ p[Len(q) + 1] = m
      /\ \A i \in 1 .. Len(q) : p[i] = q[i]
  OBVIOUS
<1> HIDE DEF p
<1>2. Carrying(p, S, from, to, D)
  <2>1. ASSUME NEW i \in 1 .. Len(p), p[i] \in D
        PROVE  \E k \in from + 1 .. to :
                  /\ p[i] = S[k]
                  /\ \A l \in from + 1 .. k - 1 : \E j \in 1 .. i - 1 : p[j] = S[l]
    <3>1. i \in 1 .. Len(q) /\ q[i] \in D
      BY <1>1, <2>1
    <3>2. PICK k \in from + 1 .. to :
             /\ q[i] = S[k]
             /\ \A l \in from + 1 .. k - 1 : \E j \in 1 .. i - 1 : q[j] = S[l]
      BY <3>1 DEF Carrying
    <3>3. ASSUME NEW l \in from + 1 .. k - 1 PROVE \E j \in 1 .. i - 1 : p[j] = S[l]
      <4>1. PICK j \in 1 .. i - 1 : q[j] = S[l]
        BY <3>2
      <4> QED
        BY <1>1, <3>1, <4>1
    <3> QED
      BY <1>1, <3>1, <3>2, <3>3
  <2>2. ASSUME NEW i \in 1 .. Len(p), NEW j \in 1 .. Len(p), i < j, p[i] \in D
        PROVE  p[i] # p[j]
    BY <1>1, <2>2 DEF Carrying
  <2> QED
    BY <2>1, <2>2 DEF Carrying
<1>3. Complete(q, S, from, to) => Complete(p, S, from, to)
  BY <1>1 DEF Complete
<1> QED
  BY <1>2, <1>3 DEF p

\* The next value of the stream joins a queue in which nothing is missing.
LEMMA NextJoins ==
    ASSUME NEW M, NEW q \in Seq(M), NEW S, NEW T, NEW from \in Nat, NEW to \in Nat, NEW D,
           from <= to, T[to + 1] \in M, \A k \in 1 .. to : T[k] = S[k],
           Distinct(T, to + 1),
           Carrying(q, S, from, to, D), Complete(q, S, from, to)
    PROVE  /\ Carrying(Append(q, T[to + 1]), T, from, to + 1, D)
           /\ Complete(Append(q, T[to + 1]), T, from, to + 1)
<1> DEFINE p == Append(q, T[to + 1])
<1>1. /\ Len(p) = Len(q) + 1 /\ Len(q) \in Nat /\ p[Len(q) + 1] = T[to + 1]
      /\ \A i \in 1 .. Len(q) : p[i] = q[i]
  OBVIOUS
<1> HIDE DEF p
<1>2. ASSUME NEW i \in 1 .. Len(p), p[i] \in D
      PROVE  \E k \in from + 1 .. to + 1 :
                /\ p[i] = T[k]
                /\ \A l \in from + 1 .. k - 1 : \E j \in 1 .. i - 1 : p[j] = T[l]
  <2>1. CASE i = Len(q) + 1
    <3>1. \A l \in from + 1 .. to : \E j \in 1 .. Len(q) : p[j] = T[l]
      BY <1>1 DEF Complete
    <3> QED
      BY <1>1, <2>1, <3>1
  <2>2. CASE i \in 1 .. Len(q)
    <3>1. PICK k \in from + 1 .. to :
             /\ q[i] = S[k]
             /\ \A l \in from + 1 .. k - 1 : \E j \in 1 .. i - 1 : q[j] = S[l]
      BY <1>1, <1>2, <2>2 DEF Carrying
    <3> QED
      BY <1>1, <2>2, <3>1, SMTT(30)
  <2> QED
    BY <1>1, <2>1, <2>2
<1>3. ASSUME NEW i \in 1 .. Len(p), NEW j \in 1 .. Len(p), i < j, p[i] \in D
      PROVE  p[i] # p[j]
  <2>1. i \in 1 .. Len(q)
    BY <1>1, <1>3
  <2>2. CASE j \in 1 .. Len(q)
    BY <1>1, <1>3, <2>1, <2>2, SMTT(30) DEF Carrying
  <2>3. CASE j = Len(q) + 1
    <3>1. PICK k \in from + 1 .. to : q[i] = S[k]
      BY <1>1, <1>3, <2>1 DEF Carrying
    <3> QED
      BY <1>1, <2>1, <2>3, <3>1 DEF Distinct
  <2> QED
    BY <1>1, <2>2, <2>3
<1>4. Carrying(p, T, from, to + 1, D)
  BY <1>2, <1>3 DEF Carrying
<1>5. Complete(p, T, from, to + 1)
  <2> SUFFICES ASSUME NEW k \in from + 1 .. to + 1
               PROVE  \E i \in 1 .. Len(p) : p[i] = T[k]
    BY DEF Complete
  <2>1. CASE k = to + 1
    BY <1>1, <2>1
  <2>2. CASE k \in from + 1 .. to
    <3>1. PICK i \in 1 .. Len(q) : q[i] = S[k]
      BY <2>2 DEF Complete
    <3>2. p[i] = T[k] /\ i \in 1 .. Len(p)
      BY <1>1, <2>2, <3>1
    <3> QED
      BY <3>2
  <2> QED
    BY <2>1, <2>2
<1> QED
  BY <1>4, <1>5 DEF p

\* The stream grows and the queue does not.
LEMMA NextIsLost ==
    ASSUME NEW M, NEW q \in Seq(M), NEW S, NEW T, NEW from \in Nat, NEW to \in Nat, NEW D,
           \A k \in 1 .. to : T[k] = S[k], Carrying(q, S, from, to, D)
    PROVE  Carrying(q, T, from, to + 1, D)
<1>1. ASSUME NEW i \in 1 .. Len(q), q[i] \in D
      PROVE  \E k \in from + 1 .. to + 1 :
                /\ q[i] = T[k]
                /\ \A l \in from + 1 .. k - 1 : \E j \in 1 .. i - 1 : q[j] = T[l]
  <2>1. PICK k \in from + 1 .. to :
           q[i] = S[k] /\ \A l \in from + 1 .. k - 1 : \E j \in 1 .. i - 1 : q[j] = S[l]
    BY <1>1 DEF Carrying
  <2>2. T[k] = S[k] /\ \A l \in from + 1 .. k - 1 : T[l] = S[l]
    OBVIOUS
  <2>3. k \in from + 1 .. to + 1
    OBVIOUS
  <2> QED
    BY <2>1, <2>2, <2>3
<1>2. \A i, j \in 1 .. Len(q) : i < j /\ q[i] \in D => q[i] # q[j]
  BY DEF Carrying
<1> QED
  BY <1>1, <1>2 DEF Carrying

\* What leaves the queue, when it counts, is the next value of the stream.
LEMMA HeadLeaves ==
    ASSUME NEW M, NEW q \in Seq(M), NEW S, NEW from \in Nat, NEW to \in Nat, NEW D,
           q # << >>, Head(q) \in D, Distinct(S, to), Carrying(q, S, from, to, D)
    PROVE  /\ from < to /\ Head(q) = S[from + 1]
           /\ Carrying(Tail(q), S, from + 1, to, D)
           /\ Complete(q, S, from, to) => Complete(Tail(q), S, from + 1, to)
<1> DEFINE p == Tail(q)
<1>1. /\ Len(q) = Len(p) + 1 /\ Len(p) \in Nat /\ Head(q) = q[1]
      /\ \A i \in 1 .. Len(p) : p[i] = q[i + 1]
  OBVIOUS
<1> HIDE DEF p
<1>2. from < to /\ q[1] = S[from + 1]
  <2> DEFINE i == 1
  <2>0. i \in 1 .. Len(q) /\ q[i] \in D
    BY <1>1
  <2> HIDE DEF i
  <2>1. PICK k \in from + 1 .. to :
           q[i] = S[k] /\ \A l \in from + 1 .. k - 1 : \E j \in 1 .. i - 1 : q[j] = S[l]
    BY <2>0 DEF Carrying
  <2> USE DEF i
  <2>2. k = from + 1
    <3>1. SUFFICES ASSUME k # from + 1 PROVE FALSE
      OBVIOUS
    <3>2. from + 1 \in from + 1 .. k - 1
      BY <3>1
    <3> QED
      BY <2>1, <3>2
  <2> QED
    BY <2>1, <2>2
<1>3. ASSUME NEW i \in 1 .. Len(p), p[i] \in D
      PROVE  \E k \in from + 2 .. to :
                /\ p[i] = S[k]
                /\ \A l \in from + 2 .. k - 1 : \E j \in 1 .. i - 1 : p[j] = S[l]
  <2>0. i + 1 \in 1 .. Len(q) /\ q[i + 1] \in D /\ (i + 1) - 1 = i
    BY <1>1, <1>3
  <2>1. PICK k \in from + 1 .. to :
           /\ q[i + 1] = S[k]
           /\ \A l \in from + 1 .. k - 1 : \E j \in 1 .. i : q[j] = S[l]
    <3> DEFINE n == i + 1
    <3>1. n \in 1 .. Len(q) /\ q[n] \in D /\ n - 1 = i
      BY <2>0
    <3> HIDE DEF n
    <3>2. PICK k \in from + 1 .. to :
             /\ q[n] = S[k]
             /\ \A l \in from + 1 .. k - 1 : \E j \in 1 .. n - 1 : q[j] = S[l]
      BY <3>1 DEF Carrying
    <3> QED
      BY <3>1, <3>2 DEF n
  <2>2. q[1] # q[i + 1]
    BY <1>1 DEF Carrying
  <2>3. k # from + 1
    BY <1>2, <2>1, <2>2
  <2>4. ASSUME NEW l \in from + 2 .. k - 1 PROVE \E j \in 1 .. i - 1 : p[j] = S[l]
    <3>1. PICK j \in 1 .. i : q[j] = S[l]
      BY <2>1
    <3>2. j # 1
      BY <1>2, <3>1 DEF Distinct
    <3>3. j - 1 \in 1 .. i - 1 /\ p[j - 1] = S[l]
      BY <1>1, <3>1, <3>2
    <3> QED
      BY <3>3
  <2> QED
    BY <1>1, <1>3, <2>1, <2>3, <2>4
<1>4. ASSUME NEW i \in 1 .. Len(p), NEW j \in 1 .. Len(p), i < j, p[i] \in D
      PROVE  p[i] # p[j]
  <2>1. p[i] = q[i + 1] /\ p[j] = q[j + 1] /\ i + 1 \in 1 .. Len(q) /\ j + 1 \in 1 .. Len(q)
    BY <1>1
  <2> QED
    BY <1>4, <2>1 DEF Carrying
<1>5. Carrying(p, S, from + 1, to, D)
  BY <1>3, <1>4 DEF Carrying
<1>6. ASSUME Complete(q, S, from, to) PROVE Complete(p, S, from + 1, to)
  <2>1. SUFFICES ASSUME NEW k \in from + 2 .. to PROVE \E i \in 1 .. Len(p) : p[i] = S[k]
    BY DEF Complete
  <2>2. PICK i \in 1 .. Len(q) : q[i] = S[k]
    BY <1>6 DEF Complete
  <2>3. i # 1
    BY <1>2, <2>2 DEF Distinct
  <2>4. i - 1 \in 1 .. Len(p) /\ p[i - 1] = S[k]
    BY <1>1, <2>2, <2>3
  <2> QED
    BY <2>4
<1> QED
  BY <1>1, <1>2, <1>5, <1>6 DEF p

\* A value that does not count leaves the queue.
LEMMA OtherLeaves ==
    ASSUME NEW M, NEW q \in Seq(M), NEW S, NEW from \in Nat, NEW to \in Nat, NEW D,
           q # << >>, Head(q) \notin D, \A k \in from + 1 .. to : S[k] \in D,
           Carrying(q, S, from, to, D)
    PROVE  /\ Carrying(Tail(q), S, from, to, D)
           /\ Complete(q, S, from, to) => Complete(Tail(q), S, from, to)
<1> DEFINE p == Tail(q)
<1>1. /\ Len(q) = Len(p) + 1 /\ Len(p) \in Nat /\ Head(q) = q[1]
      /\ \A i \in 1 .. Len(p) : p[i] = q[i + 1]
  OBVIOUS
<1> HIDE DEF p
<1>2. ASSUME NEW l \in from + 1 .. to, NEW i \in 1 .. Len(q), q[i] = S[l]
      PROVE  i - 1 \in 1 .. Len(p) /\ p[i - 1] = S[l]
  <2>1. i # 1
    BY <1>1, <1>2
  <2> QED
    BY <1>1, <1>2, <2>1
<1>3. ASSUME NEW i \in 1 .. Len(p), p[i] \in D
      PROVE  \E k \in from + 1 .. to :
                /\ p[i] = S[k]
                /\ \A l \in from + 1 .. k - 1 : \E j \in 1 .. i - 1 : p[j] = S[l]
  <2>0. i + 1 \in 1 .. Len(q) /\ q[i + 1] \in D /\ (i + 1) - 1 = i
    BY <1>1, <1>3
  <2>1. PICK k \in from + 1 .. to :
           /\ q[i + 1] = S[k]
           /\ \A l \in from + 1 .. k - 1 : \E j \in 1 .. i : q[j] = S[l]
    <3> DEFINE n == i + 1
    <3>1. n \in 1 .. Len(q) /\ q[n] \in D /\ n - 1 = i
      BY <2>0
    <3> HIDE DEF n
    <3>2. PICK k \in from + 1 .. to :
             /\ q[n] = S[k]
             /\ \A l \in from + 1 .. k - 1 : \E j \in 1 .. n - 1 : q[j] = S[l]
      BY <3>1 DEF Carrying
    <3> QED
      BY <3>1, <3>2 DEF n
  <2>2. ASSUME NEW l \in from + 1 .. k - 1 PROVE \E j \in 1 .. i - 1 : p[j] = S[l]
    <3>1. PICK j \in 1 .. i : q[j] = S[l]
      BY <2>1
    <3>2. l \in from + 1 .. to /\ j \in 1 .. Len(q)
      BY <1>1, <2>1
    <3>3. j - 1 \in 1 .. Len(p) /\ p[j - 1] = S[l]
      BY <1>2, <3>1, <3>2
    <3> QED
      BY <3>1, <3>3
  <2> QED
    BY <1>1, <1>3, <2>1, <2>2
<1>4. ASSUME NEW i \in 1 .. Len(p), NEW j \in 1 .. Len(p), i < j, p[i] \in D
      PROVE  p[i] # p[j]
  <2>1. p[i] = q[i + 1] /\ p[j] = q[j + 1] /\ i + 1 \in 1 .. Len(q) /\ j + 1 \in 1 .. Len(q)
    BY <1>1
  <2> QED
    BY <1>4, <2>1 DEF Carrying
<1>5. Carrying(p, S, from, to, D)
  BY <1>3, <1>4 DEF Carrying
<1>6. Complete(q, S, from, to) => Complete(p, S, from, to)
  BY <1>2 DEF Complete
<1> QED
  BY <1>5, <1>6 DEF p

\* Values that do not count join the queue.
LEMMA OthersJoin ==
    ASSUME NEW M, NEW q \in Seq(M), NEW S, NEW from \in Nat, NEW to \in Nat, NEW D,
           NEW ms \in Seq(M \ D)
    PROVE  /\ q \o ms \in Seq(M)
           /\ Carrying(q, S, from, to, D) =>
                /\ Carrying(q \o ms, S, from, to, D)
                /\ Complete(q, S, from, to) => Complete(q \o ms, S, from, to)
<1> DEFINE p == q \o ms
<1>0. ms \in Seq(M)
  OBVIOUS
<1>1. /\ p \in Seq(M) /\ Len(p) = Len(q) + Len(ms) /\ Len(q) \in Nat /\ Len(ms) \in Nat
      /\ \A i \in 1 .. Len(q) : p[i] = q[i]
      /\ \A i \in 1 .. Len(p) : i > Len(q) => p[i] = ms[i - Len(q)]
  BY <1>0, ConcatProperties
<1>2. \A i \in 1 .. Len(p) : i > Len(q) => p[i] \notin D
  <2>1. SUFFICES ASSUME NEW i \in 1 .. Len(p), i > Len(q) PROVE p[i] \notin D
    OBVIOUS
  <2>2. i - Len(q) \in 1 .. Len(ms)
    BY <1>1, <2>1
  <2> QED
    BY <1>1, <2>1, <2>2
<1> HIDE DEF p
<1>3. ASSUME Carrying(q, S, from, to, D) PROVE Carrying(p, S, from, to, D)
  <2>1. ASSUME NEW i \in 1 .. Len(p), p[i] \in D
        PROVE  \E k \in from + 1 .. to :
                  /\ p[i] = S[k]
                  /\ \A l \in from + 1 .. k - 1 : \E j \in 1 .. i - 1 : p[j] = S[l]
    <3>1. i \in 1 .. Len(q) /\ q[i] \in D
      BY <1>1, <1>2, <2>1
    <3>2. PICK k \in from + 1 .. to :
             /\ q[i] = S[k]
             /\ \A l \in from + 1 .. k - 1 : \E j \in 1 .. i - 1 : q[j] = S[l]
      BY <1>3, <3>1 DEF Carrying
    <3>3. ASSUME NEW l \in from + 1 .. k - 1 PROVE \E j \in 1 .. i - 1 : p[j] = S[l]
      <4>1. PICK j \in 1 .. i - 1 : q[j] = S[l]
        BY <3>2
      <4> QED
        BY <1>1, <3>1, <4>1, SMTT(30)
    <3> QED
      BY <1>1, <3>1, <3>2, <3>3
  <2>2. ASSUME NEW i \in 1 .. Len(p), NEW j \in 1 .. Len(p), i < j, p[i] \in D
        PROVE  p[i] # p[j]
    <3>1. i \in 1 .. Len(q) /\ q[i] \in D
      BY <1>1, <1>2, <2>2
    <3>2. CASE j \in 1 .. Len(q)
      BY <1>1, <1>3, <2>2, <3>1, <3>2 DEF Carrying
    <3>3. CASE j > Len(q)
      BY <1>2, <2>2, <3>3
    <3> QED
      BY <1>1, <3>2, <3>3
  <2> QED
    BY <2>1, <2>2 DEF Carrying
<1>4. ASSUME Complete(q, S, from, to) PROVE Complete(p, S, from, to)
  <2>1. SUFFICES ASSUME NEW k \in from + 1 .. to PROVE \E i \in 1 .. Len(p) : p[i] = S[k]
    BY DEF Complete
  <2>2. PICK i \in 1 .. Len(q) : q[i] = S[k]
    BY <1>4 DEF Complete
  <2> QED
    BY <1>1, <2>2
<1> QED
  BY <1>1, <1>3, <1>4 DEF p

\* A change that the plugin was told of and has not read yet.
Due == events > 0 \/ feed > 0 \/ tasks > 0

\* The last refresh, if it met no other and nothing failed since, works on an empty
\* list; with no change due it has the rows, and so has the proxy when it is over.
LastRefreshOK ==
    ~overlap /\ ~failed =>
        /\ \A q, r \in Feed!Active : q = r
        /\ Feed!Active # {} => registered = Feed!Empty
        /\ ~deaf /\ ~Due =>
             /\ \A r \in Feed!Active : refresh[r].at = "answered" => refresh[r].answer = rows
             /\ Feed!Active = {} => registered = rows

\* At rest the proxy has the rows of the database at their addresses, or one of the
\* three reasons not to applies.
RightAtRest ==
    ~Due /\ Feed!Active = {} => registered = rows \/ deaf \/ failed \/ overlap

LEMMA LastRefreshBegins == ASSUME ConnectionsInit PROVE LastRefreshOK
<1>1. /\ refresh = [r \in Refresh |-> Feed!Idle]
      /\ tasks = 1 \/ registered = rows
  BY DEF ConnectionsInit, Feed!Init
<1>2. Feed!Active = {}
  BY <1>1 DEF Feed!Active, Feed!Idle
<1> QED
  BY <1>1, <1>2 DEF LastRefreshOK, Due

\* What a step does to the set of the refreshes under way.
LEMMA WhoIsActive ==
    ASSUME FeedInvariant, NEW r \in Refresh
    PROVE  /\ Feed!BeginRefresh(r) => Feed!Active' = Feed!Active \cup {r} /\ r \notin Feed!Active
           /\ Feed!Answer(r) => Feed!Active' = Feed!Active /\ r \in Feed!Active
           /\ Feed!FailRefresh(r) \/ Feed!Populate(r) =>
                Feed!Active' = Feed!Active \ {r} /\ r \in Feed!Active
BY DEF FeedInvariant, Feed!TypeOK, Feed!Active, Feed!BeginRefresh, Feed!Answer,
   Feed!FailRefresh, Feed!Populate, Feed!Idle

\* Onto an empty list an answer is registered whole.
LEMMA RegistersAll ==
    ASSUME FeedInvariant, NEW r \in Refresh, Feed!Populate(r), registered = Feed!Empty
    PROVE  registered' = refresh[r].answer
<1> DEFINE answer == refresh[r].answer
           wanted == {s \in Server : answer[s] # Feed!Absent}
           taken == {s \in wanted : registered[s] \notin {Feed!Absent, answer[s]}}
<1>1. taken = {}
  BY DEF Feed!Empty
<1>2. registered' = [s \in Server |-> IF s \in wanted THEN answer[s] ELSE registered[s]]
  BY <1>1 DEF Feed!Populate
<1>3. answer \in Feed!Table
  BY DEF FeedInvariant, Feed!TypeOK
<1>4. registered' = [s \in Server |-> answer[s]]
  BY <1>2 DEF Feed!Empty
<1> QED
  BY <1>3, <1>4 DEF Feed!Table

LEMMA LastRefreshStep == ASSUME FeedInvariant, LastRefreshOK, Feed!Next PROVE LastRefreshOK'
<1>0. /\ events \in Nat /\ feed \in Nat /\ tasks \in Nat
      /\ client \in BOOLEAN /\ deaf \in BOOLEAN /\ overlap \in BOOLEAN /\ failed \in BOOLEAN
  BY PartsAssumption DEF FeedInvariant, Feed!TypeOK
<1>1. ASSUME NEW s \in Server, NEW a \in Address \cup {Feed!Absent}, Feed!Change(s, a)
      PROVE  LastRefreshOK'
  <2>1. Due' /\ Feed!Active' = Feed!Active
    BY <1>0, <1>1 DEF Feed!Change, Due, Feed!Active
  <2> QED
    BY <1>1, <2>1 DEF Feed!Change, LastRefreshOK, Feed!history
<1>2. CASE Feed!Broadcast \/ Feed!Connect \/ Feed!Join \/ Feed!Disconnect \/ Feed!Restart \/ Feed!Hear
  <2>1. ~deaf' /\ ~Due' => ~deaf /\ ~Due
    <3>1. CASE Feed!Broadcast
      <4>1. CASE client /\ link = "up"
        <5>1. feed' = feed + 1
          BY <3>1, <4>1 DEF Feed!Broadcast
        <5> QED
          BY <1>0, <5>1 DEF Due
      <4>2. CASE ~(client /\ link = "up")
        <5>1. deaf'
          BY <3>1, <4>2 DEF Feed!Broadcast
        <5> QED
          BY <5>1
      <4> QED
        BY <4>1, <4>2
    <3>2. CASE Feed!Disconnect
      BY <1>0, <3>2 DEF Due, Feed!Disconnect, Feed!backend
    <3>3. CASE Feed!Restart
      BY <1>0, <3>3 DEF Due, Feed!Restart
    <3>4. CASE Feed!Connect \/ Feed!Join \/ Feed!Hear
      BY <1>0, <3>4 DEF Due, Feed!Connect, Feed!Join, Feed!Hear, Feed!backend, Feed!history
    <3> QED
      BY <1>2, <3>1, <3>2, <3>3, <3>4
  <2>2. UNCHANGED <<rows, refresh, registered, overlap, failed>>
    BY <1>2 DEF Feed!Broadcast, Feed!Connect, Feed!Join, Feed!Disconnect, Feed!Restart,
       Feed!Hear, Feed!backend, Feed!history
  <2>3. Feed!Active' = Feed!Active
    BY <2>2 DEF Feed!Active
  <2> QED
    BY <2>1, <2>2, <2>3 DEF LastRefreshOK
<1>3. ASSUME NEW r \in Refresh, Feed!BeginRefresh(r) PROVE LastRefreshOK'
  <2>1. Feed!Active' = Feed!Active \cup {r}
    BY <1>3, WhoIsActive
  <2>2. registered' = Feed!Empty /\ (~overlap' => Feed!Active = {}) /\ refresh'[r].at = "asking"
    BY <1>3 DEF Feed!BeginRefresh, FeedInvariant, Feed!TypeOK
  <2> QED
    BY <2>1, <2>2 DEF LastRefreshOK
<1>4. ASSUME NEW r \in Refresh, Feed!Answer(r) PROVE LastRefreshOK'
  <2>1. Feed!Active' = Feed!Active /\ r \in Feed!Active
    BY <1>4, WhoIsActive
  <2>2. /\ UNCHANGED <<rows, registered, overlap, failed>>
        /\ refresh'[r].answer = rows
    BY <1>4 DEF Feed!Answer, Feed!backend, FeedInvariant, Feed!TypeOK
  <2> QED
    BY <2>1, <2>2 DEF LastRefreshOK
<1>5. ASSUME NEW r \in Refresh, Feed!FailRefresh(r) PROVE LastRefreshOK'
  BY <1>5 DEF Feed!FailRefresh, LastRefreshOK
<1>6. ASSUME NEW r \in Refresh, Feed!Populate(r) PROVE LastRefreshOK'
  <2>1. Feed!Active' = Feed!Active \ {r} /\ r \in Feed!Active
    BY <1>6, WhoIsActive
  <2>2. UNCHANGED <<rows, deaf, overlap, failed, events, feed, tasks>> /\ refresh[r].at = "answered"
    BY <1>6 DEF Feed!Populate, Feed!backend, Feed!history
  <2>3. ASSUME ~overlap, ~failed PROVE Feed!Active' = {} /\ registered' = refresh[r].answer
    BY <1>6, <2>1, <2>3, RegistersAll DEF LastRefreshOK
  <2> QED
    BY <2>1, <2>2, <2>3 DEF LastRefreshOK, Due
<1> QED
  BY <1>1, <1>2, <1>3, <1>4, <1>5, <1>6 DEF Feed!Next

LEMMA LastRefreshSteps ==
    ASSUME FeedInvariant, LastRefreshOK, [ConnectionsNext]_connectionsVars
    PROVE  LastRefreshOK'
<1>1. CASE Feed!Next
  BY <1>1, LastRefreshStep
<1>2. CASE UNCHANGED feedVars
  BY <1>2 DEF feedVars, LastRefreshOK, Due, Feed!Active
<1> QED
  BY <1>1, <1>2 DEF ConnectionsNext, connectionsVars

\* When no change is due and no refresh under way, the proxy has the database's servers,
\* unless a change went unheard, a refresh failed, or the last one met another: no
\* order of events, messages and answers leaves an older list behind (Main.kt).
THEOREM TheListIsRightAtRest == ConnectionsSpec => []RightAtRest
<1>1. ConnectionsInit => FeedInvariant /\ LastRefreshOK
  BY FeedBegins, LastRefreshBegins
<1>2. FeedInvariant /\ LastRefreshOK /\ [ConnectionsNext]_connectionsVars
        => FeedInvariant' /\ LastRefreshOK'
  BY FeedSteps, LastRefreshSteps
<1>3. FeedInvariant /\ LastRefreshOK => RightAtRest
  BY DEF LastRefreshOK, RightAtRest, FeedInvariant, Feed!TypeOK
<1> QED
  BY <1>1, <1>2, <1>3, PTL DEF ConnectionsSpec

-----------------------------------------------------------------------------
(* Terminal.                                                                *)

Lines == {Shell!Line(n) : n \in Nat}
Keys == {Shell!Input(n, TRUE) : n \in Nat}

\* The stream of the keyboard.
Presses == [k \in 1 .. Len(typed) |-> Shell!Input(typed[k], TRUE)]

\* No exec session before the backend's socket, no output before the exec session, and
\* nobody is told "ready" before it is open.
Stages ==
    /\ tab = "connecting" => end = "none"
    /\ end = "none" => handler = "none" /\ pod = "none" /\ down = << >>
    /\ handler = "checking" => pod = "none"
    /\ history = "reading" => pod \in {"open", "closed"}
    /\ pod = "none" => printed = << >>
    /\ pod \in {"none", "connecting"} =>
         ~ready /\ \A i \in 1 .. Len(down) : down[i] # Shell!Ready

\* The lines of the pod are numbered, and the terminal shows the first of them.
LinesMatch ==
    /\ \A k \in 1 .. Len(printed) : printed[k] = Shell!Line(k - 1)
    /\ Len(shown) <= Len(printed)
    /\ \A k \in 1 .. Len(shown) : shown[k] = printed[k]

\* The next ones are on their way to an open terminal: all of them while the backend
\* still sends.
LinesFollow ==
    tab = "open" =>
        /\ Carrying(down, printed, Len(shown), Len(printed), Lines)
        /\ end = "open" => Complete(down, printed, Len(shown), Len(printed))

\* Inputs are numbered, only a ready terminal counts them, and the pod has the first.
KeysMatch ==
    /\ ~ready => typed = << >>
    /\ \A k \in 1 .. Len(typed) : typed[k] < inputs
    /\ \A k, l \in 1 .. Len(typed) : k # l => typed[k] # typed[l]
    /\ Len(received) <= Len(typed)
    /\ \A k \in 1 .. Len(received) : received[k] = typed[k]

\* The next ones are on their way to a session that has not ended: all of them while
\* the browser's socket is open.
KeysFollow ==
    AsText /\ pod # "closed" =>
        /\ Carrying(up, Presses, Len(received), Len(typed), Keys)
        /\ tab = "open" => Complete(up, Presses, Len(received), Len(typed))

ShellInvariant ==
    Shell!TypeOK /\ Stages /\ LinesMatch /\ LinesFollow /\ KeysMatch /\ KeysFollow

LEMMA Messages ==
    /\ \A n : Shell!Line(n).type = "line" /\ Shell!Line(n).n = n
    /\ \A n, r : Shell!Input(n, r).type = "input" /\ Shell!Input(n, r).n = n
    /\ \A n : Shell!Input(n, TRUE).ready = TRUE /\ Shell!Input(n, FALSE).ready = FALSE
    /\ \A m \in Lines : m.type = "line"
    /\ \A m \in Keys : m.type = "input" /\ m.ready = TRUE
    /\ \A n \in Nat : Shell!Line(n) \in Lines /\ Shell!Input(n, TRUE) \in Keys
<1>1. /\ \A n : Shell!Line(n).type = "line" /\ Shell!Line(n).n = n
      /\ \A n, r : Shell!Input(n, r).type = "input" /\ Shell!Input(n, r).n = n
  BY DEF Shell!Line, Shell!Input
<1>2. \A n : Shell!Input(n, TRUE).ready = TRUE
  BY DEF Shell!Input
<1>3. \A n : Shell!Input(n, FALSE).ready = FALSE
  BY DEF Shell!Input
<1>4. \A n \in Nat : Shell!Line(n) \in Lines /\ Shell!Input(n, TRUE) \in Keys
  BY DEF Lines, Keys
<1>5. \A m \in Lines : m.type = "line"
  BY <1>1 DEF Lines
<1>6. \A m \in Keys : m.type = "input" /\ m.ready = TRUE
  <2>1. ASSUME NEW m \in Keys PROVE m.type = "input"
    <3>1. PICK n \in Nat : m = Shell!Input(n, TRUE)
      BY Zenon DEF Keys
    <3> QED
      BY <1>1, <3>1, Zenon
  <2>2. \A m \in Keys : m.ready = TRUE
    BY <1>2, Zenon DEF Keys
  <2> QED
    BY <2>1, <2>2, Zenon
<1> QED
  BY <1>1, <1>2, <1>3, <1>4, <1>5, <1>6

\* The messages of the bridge that are not output, and those of the browser that are
\* not input.
LEMMA OtherMessages ==
    /\ {Shell!Ready, Shell!Log, Shell!Error, Shell!Close, Shell!Fin} \subseteq Shell!Message \ Lines
    /\ {Shell!Resize, Shell!Fin} \subseteq Shell!Message \ Keys
    /\ Shell!Error # Shell!Ready /\ Shell!Close # Shell!Ready /\ Shell!Fin # Shell!Ready
    /\ \A n \in Nat : Shell!Line(n) # Shell!Ready /\ Shell!Line(n) # Shell!Fin
    /\ \A n, r : Shell!Input(n, r) # Shell!Fin
<1> USE DEF Shell!Ready, Shell!Log, Shell!Error, Shell!Close, Shell!Fin, Shell!Resize
<1>1. \A m \in Lines : m.type = "line"
  BY Messages
<1>2. \A m \in Keys : m.type = "input"
  BY Messages
<1>3. {Shell!Ready, Shell!Log, Shell!Error, Shell!Close, Shell!Fin, Shell!Resize}
        \subseteq Shell!Message
  BY DEF Shell!Message
<1>4. /\ Shell!Ready.type = "ready" /\ Shell!Log.type = "log" /\ Shell!Error.type = "error"
      /\ Shell!Close.type = "close" /\ Shell!Fin.type = "fin" /\ Shell!Resize.type = "resize"
  OBVIOUS
<1> HIDE DEF Shell!Ready, Shell!Log, Shell!Error, Shell!Close, Shell!Fin, Shell!Resize
<1>5. /\ {Shell!Ready, Shell!Log, Shell!Error, Shell!Close, Shell!Fin} \subseteq Shell!Message \ Lines
      /\ {Shell!Resize, Shell!Fin} \subseteq Shell!Message \ Keys
  BY <1>1, <1>2, <1>3, <1>4
<1> QED
  BY <1>4, <1>5, Messages

\* The type of a message says what it is.
LEMMA Kinds ==
    ASSUME NEW m \in Shell!Message
    PROVE  /\ m.type = "line" <=> m \in Lines
           /\ m \in Keys <=> m.type = "input" /\ m.ready
           /\ m.type = "input" => m.n \in 0 .. MaxInputs
<1> USE DEF Shell!Ready, Shell!Log, Shell!Error, Shell!Close, Shell!Fin, Shell!Resize
<1>1. CASE m \in {Shell!Resize, Shell!Log, Shell!Ready, Shell!Error, Shell!Close, Shell!Fin}
  BY <1>1, Messages
<1>2. CASE m \in {Shell!Input(n, r) : n \in 0 .. MaxInputs, r \in BOOLEAN}
  <2>1. PICK n \in 0 .. MaxInputs, r \in BOOLEAN : m = Shell!Input(n, r)
    BY <1>2
  <2>2. n \in Nat
    BY PartsAssumption
  <2> QED
    BY <2>1, <2>2, Messages
<1>3. CASE m \in {Shell!Line(n) : n \in 0 .. MaxLines}
  <2>1. PICK n \in 0 .. MaxLines : m = Shell!Line(n)
    BY <1>3
  <2>2. n \in Nat
    BY PartsAssumption
  <2> QED
    BY <2>1, <2>2, Messages
<1> QED
  BY <1>1, <1>2, <1>3 DEF Shell!Message

\* The steps that send the browser something that is not output.
Notifies ==
    \/ Shell!Refuse \/ Shell!PodOpens \/ Shell!LogRead \/ Shell!PodEnds
    \/ Shell!ServerGets /\ Head(up) = Shell!Fin

Notices == Seq(Shell!Message \ Lines)

LEMMA NotifiesSends ==
    ASSUME Notifies, down \in Seq(Shell!Message)
    PROVE  /\ \E ms \in Notices : Shell!Sends(ms)
           /\ UNCHANGED <<mounted, tab, connected, ready, shown, typed, inputs, printed>>
           /\ end' = "open" => end = "open"
<1> DEFINE N == Shell!Message \ Lines
<1> USE DEF Shell!screen
<1>0. /\ Shell!Error \in N /\ Shell!Fin \in N /\ Shell!Ready \in N /\ Shell!Log \in N
      /\ Shell!Close \in N
  BY OtherMessages
<1> HIDE DEF N
<1>1. CASE Shell!Refuse
  <2>1. <<Shell!Error, Shell!Fin>> \in Seq(N)
    BY <1>0
  <2> QED
    BY <1>1, <2>1 DEF Shell!Refuse, Shell!Hangs, N, Notices
<1>2. CASE Shell!PodOpens
  <2>1. << >> \in Seq(N) /\ <<Shell!Ready>> \in Seq(N)
    BY <1>0
  <2>2. down' = down => Shell!Sends(<< >>)
    BY ConcatEmptySeq DEF Shell!Sends
  <2> QED
    BY <1>2, <2>1, <2>2 DEF Shell!PodOpens, N, Notices
<1>3. CASE Shell!LogRead
  <2>1. PICK lines \in {<< >>, <<Shell!Log>>} : Shell!Sends(Append(lines, Shell!Ready))
    BY <1>3 DEF Shell!LogRead
  <2>2. Append(lines, Shell!Ready) \in Seq(N)
    <3>1. << >> \in Seq(N) /\ <<Shell!Log>> \in Seq(N)
      BY <1>0
    <3>2. lines \in Seq(N)
      BY <3>1, Zenon
    <3> QED
      BY <1>0, <3>2, AppendProperties
  <2> QED
    BY <1>3, <2>1, <2>2 DEF Shell!LogRead, N, Notices
<1>4. CASE Shell!PodEnds
  <2>1. PICK errors \in {<< >>, <<Shell!Error>>} :
           Shell!Sends(errors \o <<Shell!Close, Shell!Fin>>)
    BY <1>4 DEF Shell!PodEnds
  <2>2. errors \in Seq(N) /\ <<Shell!Close, Shell!Fin>> \in Seq(N)
    <3>1. /\ << >> \in Seq(N) /\ <<Shell!Error>> \in Seq(N)
          /\ <<Shell!Close, Shell!Fin>> \in Seq(N)
      BY <1>0
    <3> QED
      BY <3>1, Zenon
  <2>3. errors \o <<Shell!Close, Shell!Fin>> \in Seq(N)
    BY <2>2, ConcatProperties
  <2> QED
    BY <1>4, <2>1, <2>3 DEF Shell!PodEnds, Shell!Hangs, N, Notices
<1>5. CASE Shell!ServerGets /\ Head(up) = Shell!Fin
  <2>1. <<Shell!Fin>> \in Seq(N)
    BY <1>0
  <2> QED
    BY <1>5, <2>1 DEF Shell!ServerGets, Shell!ClientLeft, Shell!Hangs, N, Notices
<1> QED
  BY <1>1, <1>2, <1>3, <1>4, <1>5 DEF Notifies

\* The messages stay messages.
LEMMA QueuesStep ==
    ASSUME Shell!TypeOK, Shell!Next
    PROVE  up' \in Seq(Shell!Message) /\ down' \in Seq(Shell!Message)
<1>1. \A ms \in Seq(Shell!Message) : ms # << >> => Tail(ms) \in Seq(Shell!Message)
  OBVIOUS
<1>2. CASE Shell!Handshake \/ Shell!LoseConnection \/ Shell!Unmount \/ Shell!Fit
  <2>1. \A m \in {Shell!Resize, Shell!Fin} : Append(up, m) \in Seq(Shell!Message)
    BY OtherMessages DEF Shell!TypeOK
  <2>2. /\ <<Shell!Resize>> \in Seq(Shell!Message) /\ <<Shell!Fin>> \in Seq(Shell!Message)
        /\ << >> \in Seq(Shell!Message)
    BY OtherMessages
  <2>3. Shell!TypeOK => up \in Seq(Shell!Message) /\ down \in Seq(Shell!Message)
    BY DEF Shell!TypeOK
  <2> QED
    BY <1>2, <2>1, <2>2, <2>3, Zenon
    DEF Shell!Handshake, Shell!LoseConnection, Shell!Unmount, Shell!Fit, Shell!bridge
<1>3. CASE Shell!Type
  <2>1. Shell!Input(inputs, ready) \in Shell!Message
    BY DEF Shell!TypeOK, Shell!Message
  <2> QED
    BY <1>3, <2>1 DEF Shell!Type, Shell!TypeOK, Shell!bridge
<1>4. CASE Shell!ClientGets
  BY <1>1, <1>4 DEF Shell!ClientGets, Shell!TypeOK
<1>5. CASE Shell!CheckFails \/ Shell!Accept
  BY <1>5 DEF Shell!CheckFails, Shell!Accept, Shell!TypeOK
<1>6. CASE Notifies
  <2>1. down' \in Seq(Shell!Message)
    BY <1>6, NotifiesSends, OthersJoin DEF Shell!Sends, Shell!TypeOK, Notices
  <2> QED
    BY <1>1, <1>6, <2>1
    DEF Notifies, Shell!Refuse, Shell!PodOpens, Shell!LogRead, Shell!PodEnds, Shell!ServerGets,
        Shell!TypeOK
<1>7. CASE Shell!PodPrints
  <2>1. Shell!Line(Len(printed)) \in Shell!Message
    BY <1>7, PartsAssumption DEF Shell!PodPrints, Shell!TypeOK, Shell!Message
  <2>2. down \o <<Shell!Line(Len(printed))>> \in Seq(Shell!Message)
    BY <2>1 DEF Shell!TypeOK
  <2> QED
    BY <1>7, <2>2 DEF Shell!PodPrints, Shell!TypeOK, Shell!Sends
<1>8. CASE Shell!ServerGets /\ Head(up) # Shell!Fin
  BY <1>1, <1>8 DEF Shell!ServerGets, Shell!Forward, Shell!TypeOK
<1> QED
  BY <1>2, <1>3, <1>4, <1>5, <1>6, <1>7, <1>8 DEF Shell!Next, Notifies

LEMMA ShellTypeStep == ASSUME Shell!TypeOK, Shell!Next PROVE Shell!TypeOK'
<1>1. up' \in Seq(Shell!Message) /\ down' \in Seq(Shell!Message)
  BY QueuesStep
<1>2. shown' \in Seq(Shell!Message)
  <2>1. Shell!ClientGets => Head(down) \in Shell!Message
    BY DEF Shell!ClientGets, Shell!TypeOK
  <2>2. \A m \in Shell!Message : Append(shown, m) \in Seq(Shell!Message)
    BY DEF Shell!TypeOK
  <2>3. shown' = shown \/ (Shell!ClientGets /\ shown' = Append(shown, Head(down)))
    BY DEF Shell!Next, Shell!Handshake, Shell!LoseConnection, Shell!Unmount, Shell!Type,
       Shell!Fit, Shell!ClientGets, Shell!Refuse, Shell!CheckFails, Shell!Accept,
       Shell!PodOpens, Shell!LogRead, Shell!PodPrints, Shell!PodEnds, Shell!ServerGets,
       Shell!screen
  <2> QED
    BY <2>1, <2>2, <2>3 DEF Shell!TypeOK
<1>3. printed' \in Seq(Shell!Message)
  <2>1. Shell!PodPrints => Shell!Line(Len(printed)) \in Shell!Message
    <3>1. Shell!PodPrints => Len(printed) \in 0 .. MaxLines
      BY PartsAssumption DEF Shell!PodPrints, Shell!TypeOK
    <3> QED
      BY <3>1 DEF Shell!Message
  <2>2. \A m \in Shell!Message : Append(printed, m) \in Seq(Shell!Message)
    BY DEF Shell!TypeOK
  <2>3. \/ printed' = printed
        \/ Shell!PodPrints /\ printed' = Append(printed, Shell!Line(Len(printed)))
    BY DEF Shell!Next, Shell!Handshake, Shell!LoseConnection, Shell!Unmount, Shell!Type,
       Shell!Fit, Shell!ClientGets, Shell!Refuse, Shell!CheckFails, Shell!Accept,
       Shell!PodOpens, Shell!LogRead, Shell!PodPrints, Shell!PodEnds, Shell!ServerGets,
       Shell!bridge
  <2> QED
    BY <2>1, <2>2, <2>3 DEF Shell!TypeOK
<1>4. typed' \in Seq(0 .. MaxInputs) /\ inputs' \in 0 .. MaxInputs
  <2>1. Append(typed, inputs) \in Seq(0 .. MaxInputs)
    BY DEF Shell!TypeOK
  <2>2. inputs < MaxInputs => inputs + 1 \in 0 .. MaxInputs
    BY PartsAssumption DEF Shell!TypeOK
  <2>3. typed \in Seq(0 .. MaxInputs) /\ inputs \in 0 .. MaxInputs
    BY DEF Shell!TypeOK
  <2> QED
    BY <2>1, <2>2, <2>3, Zenon
    DEF Shell!Next, Shell!Handshake, Shell!LoseConnection, Shell!Unmount, Shell!Type,
      Shell!Fit, Shell!ClientGets, Shell!Refuse, Shell!CheckFails, Shell!Accept,
      Shell!PodOpens, Shell!LogRead, Shell!PodPrints, Shell!PodEnds, Shell!ServerGets,
      Shell!screen, Shell!TypeOK
<1>5. received' \in Seq(0 .. MaxInputs)
  <2>1. ASSUME Shell!ServerGets, Head(up) # Shell!Fin PROVE received' \in Seq(0 .. MaxInputs)
    <3>1. Head(up) \in Shell!Message
      BY <2>1 DEF Shell!ServerGets, Shell!TypeOK
    <3>2. Head(up).type = "input" => Head(up).n \in 0 .. MaxInputs
      BY <3>1, Kinds
    <3>3. \A n \in 0 .. MaxInputs : Append(received, n) \in Seq(0 .. MaxInputs)
      BY DEF Shell!TypeOK
    <3>4. \/ received' = received
          \/ Head(up).type = "input" /\ received' = Append(received, Head(up).n)
      BY <2>1 DEF Shell!ServerGets, Shell!Forward
    <3> QED
      BY <3>2, <3>3, <3>4 DEF Shell!TypeOK
  <2>2. received' = received \/ (Shell!ServerGets /\ Head(up) # Shell!Fin)
    BY DEF Shell!Next, Shell!Handshake, Shell!LoseConnection, Shell!Unmount, Shell!Type,
       Shell!Fit, Shell!ClientGets, Shell!Refuse, Shell!CheckFails, Shell!Accept,
       Shell!PodOpens, Shell!LogRead, Shell!PodPrints, Shell!PodEnds, Shell!ServerGets,
       Shell!ClientLeft, Shell!bridge
  <2> QED
    BY <2>1, <2>2 DEF Shell!TypeOK
<1>6. console' \in BOOLEAN /\ mounted' \in BOOLEAN /\ connected' \in BOOLEAN
      /\ ready' \in BOOLEAN /\ early' \in BOOLEAN
  BY Zenon
  DEF Shell!Next, Shell!Handshake, Shell!LoseConnection, Shell!Unmount, Shell!Type,
      Shell!Fit, Shell!ClientGets, Shell!Refuse, Shell!CheckFails, Shell!Accept,
      Shell!PodOpens, Shell!LogRead, Shell!PodPrints, Shell!PodEnds, Shell!ServerGets,
      Shell!ClientLeft, Shell!Forward, Shell!bridge, Shell!screen, Shell!TypeOK
<1>7. /\ tab' \in {"connecting", "open", "closing", "closed"}
      /\ end' \in {"none", "open", "closed"}
      /\ handler' \in {"none", "checking", "done", "failed"}
      /\ pod' \in {"none", "connecting", "open", "closed"}
      /\ history' \in {"none", "reading", "done"}
  BY DEF Shell!Next, Shell!Handshake, Shell!LoseConnection, Shell!Unmount, Shell!Type,
      Shell!Fit, Shell!ClientGets, Shell!Refuse, Shell!CheckFails, Shell!Accept,
      Shell!PodOpens, Shell!LogRead, Shell!PodPrints, Shell!PodEnds, Shell!ServerGets,
      Shell!ClientLeft, Shell!Forward, Shell!Hangs, Shell!bridge, Shell!screen, Shell!TypeOK
<1> QED
  BY <1>1, <1>2, <1>3, <1>4, <1>5, <1>6, <1>7 DEF Shell!TypeOK

\* "ready" is said once the exec session is open.
LEMMA NotYetReady ==
    ASSUME Shell!TypeOK, Stages, Shell!Next, pod' \in {"none", "connecting"}
    PROVE  ~ready' /\ \A i \in 1 .. Len(down') : down'[i] # Shell!Ready
<1> DEFINE Unready(q) == \A i \in 1 .. Len(q) : q[i] # Shell!Ready
<1>0. \A q, ms : q \in Seq(Shell!Message) /\ ms \in Seq(Shell!Message) /\ Unready(q) /\ Unready(ms)
        => Unready(q \o ms)
  <2>1. SUFFICES ASSUME NEW q \in Seq(Shell!Message), NEW ms \in Seq(Shell!Message),
                        Unready(q), Unready(ms)
                 PROVE  Unready(q \o ms)
    BY Zenon
  <2>2. SUFFICES ASSUME NEW i \in 1 .. Len(q \o ms) PROVE (q \o ms)[i] # Shell!Ready
    OBVIOUS
  <2>3. CASE i <= Len(q)
    BY <2>1, <2>2, <2>3, ConcatProperties
  <2>4. CASE i > Len(q)
    <3>1. i - Len(q) \in 1 .. Len(ms) /\ (q \o ms)[i] = ms[i - Len(q)]
      BY <2>2, <2>4, ConcatProperties
    <3> QED
      BY <2>1, <3>1
  <2> QED
    BY <2>3, <2>4
<1>1. pod \in {"none", "connecting"}
  BY DEF Shell!Next, Shell!Handshake, Shell!LoseConnection, Shell!Unmount, Shell!Type,
     Shell!Fit, Shell!ClientGets, Shell!Refuse, Shell!CheckFails, Shell!Accept,
     Shell!PodOpens, Shell!LogRead, Shell!PodPrints, Shell!PodEnds, Shell!ServerGets,
     Shell!ClientLeft, Shell!Forward, Shell!bridge, Shell!TypeOK, Stages
<1>2. ~ready /\ Unready(down)
  BY <1>1 DEF Stages
<1>3. CASE Shell!ClientGets
  <2>1. Head(down) = down[1] /\ 1 \in 1 .. Len(down)
    BY <1>3 DEF Shell!ClientGets, Shell!TypeOK
  <2>2. ~ready'
    BY <1>2, <1>3, <2>1 DEF Shell!ClientGets
  <2>3. ASSUME NEW i \in 1 .. Len(Tail(down)) PROVE Tail(down)[i] # Shell!Ready
    <3>1. i + 1 \in 1 .. Len(down) /\ Tail(down)[i] = down[i + 1]
      BY <1>3 DEF Shell!ClientGets, Shell!TypeOK
    <3> QED
      BY <1>2, <3>1
  <2> QED
    BY <1>3, <2>2, <2>3 DEF Shell!ClientGets
<1>4. CASE Shell!Refuse \/ (Shell!ServerGets /\ Head(up) = Shell!Fin)
  <2>1. /\ <<Shell!Error, Shell!Fin>> \in Seq(Shell!Message) /\ Unready(<<Shell!Error, Shell!Fin>>)
        /\ <<Shell!Fin>> \in Seq(Shell!Message) /\ Unready(<<Shell!Fin>>)
    BY OtherMessages
  <2>2. Unready(down \o <<Shell!Error, Shell!Fin>>) /\ Unready(down \o <<Shell!Fin>>)
    BY <1>0, <1>2, <2>1 DEF Shell!TypeOK
  <2>3. ready' = ready /\ Unready(down')
    BY <1>2, <1>4, <2>2
    DEF Shell!Refuse, Shell!ServerGets, Shell!ClientLeft, Shell!Sends, Shell!screen
  <2> QED
    BY <1>2, <2>3
<1>5. CASE \/ Shell!Handshake \/ Shell!Unmount \/ Shell!Type \/ Shell!Fit \/ Shell!CheckFails
           \/ Shell!Accept \/ (Shell!ServerGets /\ Head(up) # Shell!Fin)
  <2>1. ready' = ready /\ down' = down
    BY <1>5 DEF Shell!Handshake, Shell!Unmount, Shell!Type, Shell!Fit, Shell!CheckFails,
       Shell!Accept, Shell!ServerGets, Shell!Forward, Shell!screen
  <2> QED
    BY <1>2, <2>1
<1>6. CASE Shell!LoseConnection
  BY <1>2, <1>6 DEF Shell!LoseConnection
<1>7. CASE Shell!PodOpens \/ Shell!PodPrints \/ Shell!PodEnds
  BY <1>1, <1>7 DEF Shell!PodOpens, Shell!PodPrints, Shell!PodEnds
<1>8. CASE Shell!LogRead
  BY <1>1, <1>8 DEF Shell!LogRead, Stages
<1> QED
  BY <1>3, <1>4, <1>5, <1>6, <1>7, <1>8 DEF Shell!Next

LEMMA StagesStep == ASSUME Shell!TypeOK, Stages, Shell!Next PROVE Stages'
<1>1. tab' = "connecting" => end' = "none"
  BY DEF Stages, Shell!Next, Shell!Handshake, Shell!LoseConnection, Shell!Unmount, Shell!Type,
     Shell!Fit, Shell!ClientGets, Shell!Refuse, Shell!CheckFails, Shell!Accept,
     Shell!PodOpens, Shell!LogRead, Shell!PodPrints, Shell!PodEnds, Shell!ServerGets,
     Shell!ClientLeft, Shell!Forward, Shell!Hangs, Shell!bridge, Shell!screen
<1>2. end' = "none" => handler' = "none" /\ pod' = "none" /\ down' = << >>
  BY DEF Stages, Shell!Next, Shell!Handshake, Shell!LoseConnection, Shell!Unmount, Shell!Type,
     Shell!Fit, Shell!ClientGets, Shell!Refuse, Shell!CheckFails, Shell!Accept,
     Shell!PodOpens, Shell!LogRead, Shell!PodPrints, Shell!PodEnds, Shell!ServerGets,
     Shell!ClientLeft, Shell!Forward, Shell!Hangs, Shell!Sends, Shell!bridge, Shell!screen
<1>3. /\ handler' = "checking" => pod' = "none"
      /\ history' = "reading" => pod' \in {"open", "closed"}
      /\ pod' = "none" => printed' = << >>
  BY DEF Stages, Shell!Next, Shell!Handshake, Shell!LoseConnection, Shell!Unmount, Shell!Type,
     Shell!Fit, Shell!ClientGets, Shell!Refuse, Shell!CheckFails, Shell!Accept,
     Shell!PodOpens, Shell!LogRead, Shell!PodPrints, Shell!PodEnds, Shell!ServerGets,
     Shell!ClientLeft, Shell!Forward, Shell!Hangs, Shell!bridge, Shell!screen
<1> QED
  BY <1>1, <1>2, <1>3, NotYetReady DEF Stages

\* What the lines are.
LEMMA LinesFacts ==
    ASSUME Shell!TypeOK, LinesMatch
    PROVE  /\ Len(printed) \in Nat /\ Len(shown) \in Nat
           /\ Distinct(printed, Len(printed))
           /\ \A k \in 1 .. Len(printed) : printed[k] \in Lines
<1>1. Len(printed) \in Nat /\ Len(shown) \in Nat
  BY DEF Shell!TypeOK
<1>2. \A k \in 1 .. Len(printed) : k - 1 \in Nat /\ printed[k] = Shell!Line(k - 1)
  BY <1>1 DEF LinesMatch
<1>3. \A k \in 1 .. Len(printed) : printed[k].n = k - 1 /\ printed[k] \in Lines
  BY <1>2, Messages
<1> QED
  BY <1>1, <1>3 DEF Distinct

\* An open terminal prints the next line of the pod, and no other.
LEMMA LineShown ==
    ASSUME Shell!TypeOK, LinesMatch, LinesFollow, Shell!ClientGets
    PROVE  /\ UNCHANGED printed
           /\ \/ UNCHANGED shown
              \/ /\ Len(shown) < Len(printed)
                 /\ shown' = Append(shown, printed[Len(shown) + 1])
           /\ LinesMatch' /\ LinesFollow'
<1> DEFINE m == Head(down)
<1>1. /\ down # << >> /\ down \in Seq(Shell!Message) /\ m \in Shell!Message
      /\ down' = Tail(down) /\ UNCHANGED <<printed, end>>
      /\ tab' = "open" => tab = "open" /\ m # Shell!Fin
      /\ shown' = IF (tab = "open" /\ m # Shell!Fin) /\ m.type = "line"
                  THEN Append(shown, m) ELSE shown
  BY DEF Shell!ClientGets, Shell!TypeOK, Shell!bridge
<1>2. m.type = "line" <=> m \in Lines
  BY <1>1, Kinds
<1>3. Len(printed) \in Nat /\ Len(shown) \in Nat /\ Distinct(printed, Len(printed))
      /\ \A k \in Len(shown) + 1 .. Len(printed) : printed[k] \in Lines
  BY LinesFacts
<1>4. CASE tab = "open" /\ m # Shell!Fin /\ m \in Lines
  <2>1. /\ Carrying(down, printed, Len(shown), Len(printed), Lines)
        /\ end = "open" => Complete(down, printed, Len(shown), Len(printed))
    BY <1>4 DEF LinesFollow
  <2>2. /\ Len(shown) < Len(printed) /\ m = printed[Len(shown) + 1]
        /\ Carrying(Tail(down), printed, Len(shown) + 1, Len(printed), Lines)
        /\ Complete(down, printed, Len(shown), Len(printed)) =>
             Complete(Tail(down), printed, Len(shown) + 1, Len(printed))
    BY <1>1, <1>3, <1>4, <2>1, HeadLeaves
  <2>3. /\ shown' = Append(shown, m) /\ Len(shown') = Len(shown) + 1
        /\ shown'[Len(shown) + 1] = m /\ \A k \in 1 .. Len(shown) : shown'[k] = shown[k]
    BY <1>1, <1>2, <1>4, AppendProperties DEF Shell!TypeOK
  <2>4. LinesMatch'
    BY <1>1, <1>3, <2>2, <2>3 DEF LinesMatch
  <2>5. LinesFollow'
    BY <1>1, <2>1, <2>2, <2>3 DEF LinesFollow
  <2> QED
    BY <1>1, <2>2, <2>3, <2>4, <2>5
<1>5. CASE ~(tab = "open" /\ m # Shell!Fin /\ m \in Lines)
  <2>1. shown' = shown
    BY <1>1, <1>2, <1>5
  <2>2. LinesMatch'
    BY <1>1, <2>1 DEF LinesMatch
  <2>3. ASSUME tab' = "open"
        PROVE  /\ Carrying(Tail(down), printed, Len(shown), Len(printed), Lines)
               /\ end = "open" => Complete(Tail(down), printed, Len(shown), Len(printed))
    <3>1. m \notin Lines /\ tab = "open"
      BY <1>1, <1>5, <2>3
    <3>2. /\ Carrying(down, printed, Len(shown), Len(printed), Lines)
          /\ end = "open" => Complete(down, printed, Len(shown), Len(printed))
      BY <3>1 DEF LinesFollow
    <3> QED
      BY <1>1, <1>3, <3>1, <3>2, OtherLeaves
  <2>4. LinesFollow'
    BY <1>1, <2>1, <2>3 DEF LinesFollow
  <2> QED
    BY <1>1, <2>1, <2>2, <2>4
<1> QED
  BY <1>4, <1>5

\* A line of the pod joins the lines on their way while the backend's socket is open.
LEMMA LinePrinted ==
    ASSUME Shell!TypeOK, LinesMatch, LinesFollow, Shell!PodPrints
    PROVE  LinesMatch' /\ LinesFollow'
<1> DEFINE line == Shell!Line(Len(printed))
<1>1. /\ Len(printed) \in Nat /\ Len(shown) \in Nat /\ Len(shown) <= Len(printed)
      /\ Distinct(printed, Len(printed))
      /\ printed \in Seq(Shell!Message) /\ down \in Seq(Shell!Message)
  BY LinesFacts DEF Shell!TypeOK, LinesMatch
<1>2. /\ printed' = Append(printed, line) /\ UNCHANGED <<shown, tab, end>>
      /\ down' = IF end = "open" THEN down \o <<line>> ELSE down
      /\ Len(printed) < MaxLines
  BY DEF Shell!PodPrints, Shell!Sends, Shell!screen
<1>3. line \in Shell!Message /\ line \in Lines
  <2>1. Len(printed) \in 0 .. MaxLines
    BY <1>1, <1>2, PartsAssumption
  <2>2. line \in Shell!Message
    BY <2>1 DEF Shell!Message
  <2> QED
    BY <1>1, <2>2, Messages
<1>4. /\ Len(printed') = Len(printed) + 1 /\ printed'[Len(printed) + 1] = line
      /\ \A k \in 1 .. Len(printed) : printed'[k] = printed[k]
  BY <1>1, <1>2, <1>3, AppendProperties
<1>5. LinesMatch'
  <2>1. ASSUME NEW k \in 1 .. Len(printed) + 1 PROVE printed'[k] = Shell!Line(k - 1)
    <3>1. CASE k \in 1 .. Len(printed)
      BY <1>4, <3>1 DEF LinesMatch
    <3>2. CASE k = Len(printed) + 1
      <4>1. k - 1 = Len(printed)
        BY <1>1, <3>2
      <4> QED
        BY <1>4, <3>2, <4>1
    <3> QED
      BY <1>1, <3>1, <3>2
  <2>2. Len(shown) <= Len(printed) + 1 /\ \A k \in 1 .. Len(shown) : shown[k] = printed'[k]
    BY <1>1, <1>4 DEF LinesMatch
  <2> QED
    BY <1>2, <1>4, <2>1, <2>2 DEF LinesMatch
<1>6. Distinct(printed', Len(printed) + 1)
  <2>1. Shell!TypeOK'
    BY ShellTypeStep DEF Shell!Next
  <2>2. \A k \in 1 .. Len(printed') : k - 1 \in Nat /\ printed'[k] = Shell!Line(k - 1)
    BY <1>1, <1>4, <1>5 DEF LinesMatch
  <2>3. \A k \in 1 .. Len(printed') : printed'[k].n = k - 1
    BY <2>2, Messages
  <2> QED
    BY <1>1, <1>4, <2>3 DEF Distinct
<1>7. ASSUME tab = "open", end = "open"
      PROVE  /\ Carrying(down', printed', Len(shown), Len(printed) + 1, Lines)
             /\ Complete(down', printed', Len(shown), Len(printed) + 1)
  <2>1. down' = Append(down, line)
    BY <1>1, <1>2, <1>3, <1>7, AppendIsConcat
  <2>2. /\ Carrying(down, printed, Len(shown), Len(printed), Lines)
        /\ Complete(down, printed, Len(shown), Len(printed))
    BY <1>7 DEF LinesFollow
  <2> QED
    BY <1>1, <1>3, <1>4, <1>6, <2>1, <2>2, NextJoins
<1>8. ASSUME tab = "open", end # "open"
      PROVE  Carrying(down', printed', Len(shown), Len(printed) + 1, Lines)
  <2>1. Carrying(down, printed, Len(shown), Len(printed), Lines) /\ down' = down
    BY <1>2, <1>8 DEF LinesFollow
  <2> QED
    BY <1>1, <1>4, <2>1, NextIsLost
<1>9. LinesFollow'
  BY <1>2, <1>4, <1>7, <1>8 DEF LinesFollow
<1> QED
  BY <1>5, <1>9

LEMMA LinesStep ==
    ASSUME Shell!TypeOK, Stages, LinesMatch, LinesFollow, Shell!Next
    PROVE  LinesMatch' /\ LinesFollow'
<1>1. CASE Shell!ClientGets
  BY <1>1, LineShown
<1>2. CASE Shell!PodPrints
  BY <1>2, LinePrinted
<1>3. CASE Notifies
  <2>1. PICK ms \in Notices : Shell!Sends(ms)
    BY <1>3, NotifiesSends DEF Shell!TypeOK
  <2>2. UNCHANGED <<shown, tab, printed>> /\ (end' = "open" => end = "open")
    BY <1>3, NotifiesSends DEF Shell!TypeOK
  <2>3. LinesMatch'
    BY <2>2 DEF LinesMatch
  <2>4. ASSUME tab = "open"
        PROVE  /\ Carrying(down', printed, Len(shown), Len(printed), Lines)
               /\ end = "open" => Complete(down', printed, Len(shown), Len(printed))
    <3>1. /\ Carrying(down, printed, Len(shown), Len(printed), Lines)
          /\ end = "open" => Complete(down, printed, Len(shown), Len(printed))
      BY <2>4 DEF LinesFollow
    <3>2. /\ Carrying(down \o ms, printed, Len(shown), Len(printed), Lines)
          /\ Complete(down, printed, Len(shown), Len(printed)) =>
               Complete(down \o ms, printed, Len(shown), Len(printed))
      BY <3>1, LinesFacts, OthersJoin DEF Shell!TypeOK, Notices
    <3> QED
      BY <2>1, <3>1, <3>2 DEF Shell!Sends
  <2>5. LinesFollow'
    BY <2>2, <2>4 DEF LinesFollow
  <2> QED
    BY <2>3, <2>5
<1>4. CASE Shell!Handshake
  <2>1. /\ end = "none" /\ down = << >> /\ printed = << >> /\ shown = << >>
        /\ UNCHANGED <<down, printed, shown>>
    BY <1>4 DEF Shell!Handshake, Stages, LinesMatch, Shell!TypeOK
  <2> QED
    BY <2>1 DEF LinesMatch, LinesFollow, Carrying, Complete
<1>5. CASE Shell!LoseConnection \/ Shell!Unmount
  <2>1. UNCHANGED <<printed, shown>> /\ (tab' = "open" => tab = "open" /\ ~Shell!Unmount)
        /\ (Shell!LoseConnection => tab' # "open")
    BY <1>5 DEF Shell!LoseConnection, Shell!Unmount, Shell!bridge
  <2> QED
    BY <1>5, <2>1 DEF LinesMatch, LinesFollow
<1>6. CASE \/ Shell!Type \/ Shell!Fit \/ Shell!CheckFails \/ Shell!Accept
           \/ Shell!ServerGets /\ Head(up) # Shell!Fin
  <2>1. UNCHANGED <<printed, shown, down, tab, end>>
    BY <1>6 DEF Shell!Type, Shell!Fit, Shell!CheckFails, Shell!Accept, Shell!ServerGets,
       Shell!Forward, Shell!bridge, Shell!screen
  <2> QED
    BY <2>1 DEF LinesMatch, LinesFollow
<1> QED
  BY <1>1, <1>2, <1>3, <1>4, <1>5, <1>6 DEF Shell!Next, Notifies

\* What the stream of the keyboard is.
LEMMA KeysFacts ==
    ASSUME Shell!TypeOK, KeysMatch
    PROVE  /\ Len(typed) \in Nat /\ Len(received) \in Nat
           /\ Distinct(Presses, Len(typed))
           /\ \A k \in 1 .. Len(typed) :
                /\ typed[k] \in Nat /\ Presses[k] = Shell!Input(typed[k], TRUE)
                /\ Presses[k] \in Keys /\ Presses[k].n = typed[k]
<1>1. Len(typed) \in Nat /\ Len(received) \in Nat
  BY DEF Shell!TypeOK
<1>2. \A k \in 1 .. Len(typed) : typed[k] \in Nat
  BY PartsAssumption DEF Shell!TypeOK
<1>3. \A k \in 1 .. Len(typed) : Presses[k] = Shell!Input(typed[k], TRUE)
  BY DEF Presses
<1>4. \A k \in 1 .. Len(typed) : Presses[k].n = typed[k] /\ Presses[k] \in Keys
  <2>1. SUFFICES ASSUME NEW k \in 1 .. Len(typed)
                 PROVE  Presses[k].n = typed[k] /\ Presses[k] \in Keys
    OBVIOUS
  <2>2. Presses[k] = Shell!Input(typed[k], TRUE) /\ typed[k] \in Nat
    BY <1>2, <1>3
  <2>3. Presses[k].n = typed[k]
    BY <2>2 DEF Shell!Input
  <2>4. Presses[k] \in Keys
    BY <2>2 DEF Keys
  <2> QED
    BY <2>3, <2>4
<1>5. Distinct(Presses, Len(typed))
  BY <1>4 DEF Distinct, KeysMatch
<1> QED
  BY <1>1, <1>2, <1>3, <1>4, <1>5

\* What is typed joins the inputs on their way, when the terminal is ready.
LEMMA KeyTyped ==
    ASSUME Shell!TypeOK, KeysMatch, KeysFollow, Shell!Type
    PROVE  KeysMatch' /\ KeysFollow'
<1> DEFINE key == Shell!Input(inputs, ready)
<1>1. /\ Len(typed) \in Nat /\ Len(received) \in Nat /\ Len(received) <= Len(typed)
      /\ Distinct(Presses, Len(typed)) /\ up \in Seq(Shell!Message) /\ inputs \in Nat
  <2>1. inputs \in Nat
    BY PartsAssumption DEF Shell!TypeOK
  <2>2. up \in Seq(Shell!Message) /\ Len(received) <= Len(typed)
    BY DEF Shell!TypeOK, KeysMatch
  <2> QED
    BY <2>1, <2>2, KeysFacts
<1>2. /\ tab = "open" /\ UNCHANGED <<tab, ready, received, pod>> /\ inputs' = inputs + 1
      /\ up' = Append(up, key)
      /\ typed' = IF ready THEN Append(typed, inputs) ELSE typed
  BY DEF Shell!Type, Shell!bridge
<1>3. key \in Shell!Message
  BY DEF Shell!TypeOK, Shell!Message
<1>4. AsText /\ pod # "closed" =>
                        /\ Carrying(up, Presses, Len(received), Len(typed), Keys)
                        /\ Complete(up, Presses, Len(received), Len(typed))
  BY <1>2 DEF KeysFollow
<1>5. CASE ready
  <2>1. /\ typed' \in Seq(0 .. MaxInputs) /\ Len(typed') = Len(typed) + 1
        /\ typed'[Len(typed) + 1] = inputs /\ \A k \in 1 .. Len(typed) : typed'[k] = typed[k]
    BY <1>2, <1>5, AppendProperties DEF Shell!TypeOK
  <2>2. KeysMatch'
    <3>1. \A k \in 1 .. Len(typed) : typed[k] < inputs /\ typed[k] \in Nat
      BY KeysFacts DEF KeysMatch
    <3>2. \A k \in 1 .. Len(typed) + 1 : typed'[k] < inputs + 1
      BY <1>1, <2>1, <3>1
    <3>3. \A k, l \in 1 .. Len(typed) + 1 : k # l => typed'[k] # typed'[l]
      BY <1>1, <2>1, <3>1 DEF KeysMatch
    <3>4. Len(received) <= Len(typed) + 1 /\ \A k \in 1 .. Len(received) : received[k] = typed'[k]
      BY <1>1, <2>1 DEF KeysMatch
    <3> QED
      BY <1>2, <1>5, <2>1, <3>2, <3>3, <3>4 DEF KeysMatch
  <2>3. Distinct(Presses', Len(typed) + 1) /\ Presses'[Len(typed) + 1] = key
        /\ \A k \in 1 .. Len(typed) : Presses'[k] = Presses[k]
    <3>1. Shell!TypeOK'
      BY ShellTypeStep DEF Shell!Next
    <3>2. Distinct(Presses', Len(typed'))
      <4>1. \A k \in 1 .. Len(typed') : Presses'[k] = Shell!Input(typed'[k], TRUE)
        BY DEF Presses
      <4>2. ASSUME NEW k \in 1 .. Len(typed') PROVE Presses'[k].n = typed'[k]
        <5>1. Presses'[k] = Shell!Input(typed'[k], TRUE)
          BY <4>1
        <5> QED
          BY <5>1 DEF Shell!Input
      <4> QED
        BY <2>2, <4>2 DEF Distinct, KeysMatch
    <3>3. ready = TRUE
      BY <1>5 DEF Shell!TypeOK
    <3>4. Presses' = [k \in 1 .. Len(typed') |-> Shell!Input(typed'[k], TRUE)]
      BY DEF Presses
    <3>5. Presses'[Len(typed) + 1] = key
      <4>1. Len(typed) + 1 \in 1 .. Len(typed')
        BY <1>1, <2>1
      <4>2. Presses'[Len(typed) + 1] = Shell!Input(typed'[Len(typed) + 1], TRUE)
        BY <3>4, <4>1
      <4> QED
        BY <2>1, <3>3, <4>2
    <3>6. ASSUME NEW k \in 1 .. Len(typed) PROVE Presses'[k] = Presses[k]
      <4>1. k \in 1 .. Len(typed') /\ typed'[k] = typed[k]
        BY <1>1, <2>1
      <4>2. Presses'[k] = Shell!Input(typed'[k], TRUE)
        BY <3>4, <4>1
      <4>3. Presses[k] = Shell!Input(typed[k], TRUE)
        BY KeysFacts
      <4> QED
        BY <4>1, <4>2, <4>3
    <3> QED
      BY <2>1, <3>2, <3>5, <3>6
  <2>4. AsText /\ pod # "closed" =>
                          /\ Carrying(up', Presses', Len(received), Len(typed) + 1, Keys)
                          /\ Complete(up', Presses', Len(received), Len(typed) + 1)
    <3> DEFINE T == Presses'
    <3>1. /\ Distinct(T, Len(typed) + 1) /\ T[Len(typed) + 1] = key
          /\ \A k \in 1 .. Len(typed) : T[k] = Presses[k]
      BY <2>3
    <3> HIDE DEF T, key
    <3>2. AsText /\ pod # "closed" =>
            /\ Carrying(Append(up, T[Len(typed) + 1]), T, Len(received), Len(typed) + 1, Keys)
            /\ Complete(Append(up, T[Len(typed) + 1]), T, Len(received), Len(typed) + 1)
      BY <1>1, <1>3, <1>4, <3>1, NextJoins
    <3> QED
      BY <1>2, <3>1, <3>2 DEF T, key
  <2> QED
    BY <1>2, <2>1, <2>2, <2>4 DEF KeysFollow
<1>6. CASE ~ready
  <2>1. UNCHANGED typed /\ Presses' = Presses
    BY <1>2, <1>6 DEF Presses
  <2>2. key \notin Keys
    <3>1. ready = FALSE
      BY <1>6 DEF Shell!TypeOK
    <3>2. key.ready = FALSE
      BY <3>1, Messages, Zenon
    <3> QED
      BY <1>3, <3>2, Kinds
  <2>3. KeysMatch'
    <3>1. \A k \in 1 .. Len(typed) : typed[k] < inputs + 1
      <4>1. \A k \in 1 .. Len(typed) : typed[k] < inputs /\ typed[k] \in Nat
        BY KeysFacts DEF KeysMatch
      <4> QED
        BY <1>1, <4>1
    <3> QED
      BY <1>2, <2>1, <3>1 DEF KeysMatch
  <2>4. AsText /\ pod # "closed" =>
                          /\ Carrying(up', Presses, Len(received), Len(typed), Keys)
                          /\ Complete(up', Presses, Len(received), Len(typed))
    <3> HIDE DEF key
    <3> QED
      BY <1>1, <1>2, <1>3, <1>4, <2>2, OtherJoins
  <2> QED
    BY <1>2, <2>1, <2>3, <2>4 DEF KeysFollow
<1> QED
  BY <1>5, <1>6

\* What the bridge forwards to the pod is the next input, and nothing else counts.
LEMMA KeyForwarded ==
    ASSUME Shell!TypeOK, Stages, KeysMatch, KeysFollow, Shell!ServerGets
    PROVE  /\ UNCHANGED typed
           /\ \/ UNCHANGED received
              \/ /\ Len(received) < Len(typed)
                 /\ received' = Append(received, typed[Len(received) + 1])
           /\ KeysMatch' /\ KeysFollow'
<1> DEFINE m == Head(up)
<1>1. /\ up # << >> /\ up \in Seq(Shell!Message) /\ m \in Shell!Message /\ up' = Tail(up)
      /\ UNCHANGED <<typed, tab, ready, inputs>> /\ Presses' = Presses
  BY DEF Shell!ServerGets, Shell!TypeOK, Shell!screen, Presses
<1>2. /\ Len(typed) \in Nat /\ Len(received) \in Nat /\ Distinct(Presses, Len(typed))
      /\ \A k \in 1 .. Len(typed) : Presses[k] \in Keys /\ Presses[k].n = typed[k]
  BY KeysFacts
<1>3. m \in Keys <=> m.type = "input" /\ m.ready
  BY <1>1, Kinds
<1>4. /\ m = Shell!Fin => received' = received /\ pod' = (IF pod = "open" THEN "closed" ELSE pod)
      /\ m # Shell!Fin => /\ pod' = pod
                          /\ received' = IF AsText /\ pod = "open" /\ m \in Keys
                                         THEN Append(received, m.n) ELSE received
  BY <1>3 DEF Shell!ServerGets, Shell!ClientLeft, Shell!Forward
<1>5. pod' # "closed" => pod # "closed"
  BY <1>4
<1>6. m \in Keys => m # Shell!Fin
  BY OtherMessages
<1>7. CASE AsText /\ pod # "closed" /\ m \in Keys
  <2>1. /\ Carrying(up, Presses, Len(received), Len(typed), Keys)
        /\ tab = "open" => Complete(up, Presses, Len(received), Len(typed))
    BY <1>7 DEF KeysFollow
  <2>2. /\ Len(received) < Len(typed) /\ m = Presses[Len(received) + 1]
        /\ Carrying(Tail(up), Presses, Len(received) + 1, Len(typed), Keys)
        /\ Complete(up, Presses, Len(received), Len(typed)) =>
             Complete(Tail(up), Presses, Len(received) + 1, Len(typed))
    BY <1>1, <1>2, <1>7, <2>1, HeadLeaves
  <2>3. m.n = typed[Len(received) + 1]
    BY <1>2, <2>2
  <2>4. pod = "open"
    <3>1. ready
      BY <1>2, <2>2 DEF KeysMatch
    <3> QED
      BY <1>7, <3>1 DEF Stages, Shell!TypeOK
  <2>5. received' = Append(received, typed[Len(received) + 1])
    BY <1>4, <1>6, <1>7, <2>3, <2>4
  <2>6. /\ Len(received') = Len(received) + 1
        /\ received'[Len(received) + 1] = typed[Len(received) + 1]
        /\ \A k \in 1 .. Len(received) : received'[k] = received[k]
    <3>1. typed[Len(received) + 1] \in 0 .. MaxInputs
      <4>1. Len(received) + 1 \in 1 .. Len(typed) /\ typed \in Seq(0 .. MaxInputs)
        BY <1>2, <2>2 DEF Shell!TypeOK
      <4> QED
        BY <4>1, ElementOfSeq
    <3> QED
      BY <2>5, <3>1, AppendProperties DEF Shell!TypeOK
  <2>7. KeysMatch'
    <3>1. /\ Len(received') <= Len(typed)
          /\ \A k \in 1 .. Len(received') : received'[k] = typed[k]
      BY <1>2, <2>2, <2>6 DEF KeysMatch
    <3> QED
      BY <1>1, <3>1 DEF KeysMatch
  <2>8. KeysFollow'
    BY <1>1, <2>1, <2>2, <2>6 DEF KeysFollow
  <2> QED
    BY <1>1, <2>2, <2>5, <2>7, <2>8
<1>8. CASE ~AsText \/ pod = "closed" \/ m \notin Keys
  <2>1. received' = received
    BY <1>4, <1>8
  <2>2. KeysMatch'
    BY <1>1, <2>1 DEF KeysMatch
  <2>3. ASSUME AsText, pod' # "closed"
        PROVE  /\ Carrying(Tail(up), Presses, Len(received), Len(typed), Keys)
               /\ tab = "open" => Complete(Tail(up), Presses, Len(received), Len(typed))
    <3>1. /\ Carrying(up, Presses, Len(received), Len(typed), Keys)
          /\ tab = "open" => Complete(up, Presses, Len(received), Len(typed))
      BY <1>5, <2>3 DEF KeysFollow
    <3>2. m \notin Keys
      BY <1>5, <1>8, <2>3
    <3>3. \A k \in Len(received) + 1 .. Len(typed) : Presses[k] \in Keys
      BY <1>2
    <3> QED
      BY <1>1, <1>2, <3>1, <3>2, <3>3, OtherLeaves
  <2>4. KeysFollow'
    BY <1>1, <2>1, <2>3 DEF KeysFollow
  <2> QED
    BY <1>1, <2>1, <2>2, <2>4
<1> QED
  BY <1>7, <1>8

LEMMA KeysStep ==
    ASSUME Shell!TypeOK, Stages, KeysMatch, KeysFollow, Shell!Next
    PROVE  KeysMatch' /\ KeysFollow'
<1>0. /\ Len(typed) \in Nat /\ Len(received) \in Nat /\ up \in Seq(Shell!Message)
      /\ Shell!Resize \in Shell!Message /\ Shell!Fin \in Shell!Message
      /\ Shell!Resize \notin Keys /\ Shell!Fin \notin Keys
  BY OtherMessages DEF Shell!TypeOK
<1>1. CASE Shell!Type
  BY <1>1, KeyTyped
<1>2. CASE Shell!ServerGets
  BY <1>2, KeyForwarded
<1>3. CASE Shell!Handshake
  <2>1. typed = << >> /\ received = << >> /\ UNCHANGED <<typed, received, inputs, ready>>
    BY <1>3 DEF Shell!Handshake, Stages, KeysMatch, Shell!TypeOK
  <2>2. Carrying(<<Shell!Resize>>, Presses', 0, 0, Keys)
        /\ Complete(<<Shell!Resize>>, Presses', 0, 0)
    BY <1>0 DEF Carrying, Complete
  <2> QED
    BY <1>3, <2>1, <2>2 DEF Shell!Handshake, KeysMatch, KeysFollow
<1>4. CASE Shell!LoseConnection
  <2>1. UNCHANGED <<typed, received, inputs, ready>> /\ tab' # "open"
        /\ (up' = <<Shell!Fin>> \/ up' = << >>)
    BY <1>4 DEF Shell!LoseConnection, Shell!bridge
  <2>2. /\ Carrying(<<Shell!Fin>>, Presses', Len(received), Len(typed), Keys)
        /\ Carrying(<< >>, Presses', Len(received), Len(typed), Keys)
    BY <1>0 DEF Carrying
  <2> QED
    BY <2>1, <2>2 DEF KeysMatch, KeysFollow
<1>5. CASE Shell!Unmount \/ Shell!Fit
  <2>1. /\ UNCHANGED <<typed, received, ready, pod>> /\ Presses' = Presses
        /\ inputs' \in {inputs, inputs + 1} /\ (tab' = "open" => tab = "open")
        /\ up' \in {up, Append(up, Shell!Resize), Append(up, Shell!Fin)}
    BY <1>5 DEF Shell!Unmount, Shell!Fit, Shell!bridge, Presses
  <2>2. KeysMatch'
    <3>1. inputs \in Nat /\ \A k \in 1 .. Len(typed) : typed[k] \in Nat
      BY PartsAssumption, KeysFacts DEF Shell!TypeOK
    <3>2. \A k \in 1 .. Len(typed) : typed[k] < inputs'
      BY <2>1, <3>1 DEF KeysMatch
    <3> QED
      BY <2>1, <3>2 DEF KeysMatch
  <2>3. ASSUME AsText, pod # "closed", NEW m \in {Shell!Resize, Shell!Fin}
        PROVE  /\ Carrying(Append(up, m), Presses, Len(received), Len(typed), Keys)
               /\ tab = "open" => Complete(Append(up, m), Presses, Len(received), Len(typed))
    <3>1. /\ Carrying(up, Presses, Len(received), Len(typed), Keys)
          /\ tab = "open" => Complete(up, Presses, Len(received), Len(typed))
      BY <2>3 DEF KeysFollow
    <3> QED
      BY <1>0, <2>3, <3>1, OtherJoins
  <2>4. KeysFollow'
    BY <2>1, <2>3 DEF KeysFollow
  <2> QED
    BY <2>2, <2>4
<1>6. CASE \/ Shell!ClientGets \/ Shell!Refuse \/ Shell!CheckFails \/ Shell!Accept
           \/ Shell!PodOpens \/ Shell!LogRead \/ Shell!PodPrints \/ Shell!PodEnds
  <2>0. ready => ready'
    BY <1>6, Zenon DEF Shell!ClientGets, Shell!Refuse, Shell!CheckFails, Shell!Accept,
       Shell!PodOpens, Shell!LogRead, Shell!PodPrints, Shell!PodEnds, Shell!screen
  <2>1. /\ UNCHANGED <<typed, received, inputs, up>> /\ Presses' = Presses
        /\ (tab' = "open" => tab = "open") /\ (ready => ready')
    BY <1>6, <2>0 DEF Shell!ClientGets, Shell!Refuse, Shell!CheckFails, Shell!Accept, Shell!PodOpens,
       Shell!LogRead, Shell!PodPrints, Shell!PodEnds, Shell!bridge, Shell!screen, Presses
  <2>2. pod' # "closed" => pod # "closed"
    BY <1>6 DEF Shell!ClientGets, Shell!Refuse, Shell!CheckFails, Shell!Accept, Shell!PodOpens,
       Shell!LogRead, Shell!PodPrints, Shell!PodEnds, Shell!bridge, Stages
  <2> QED
    BY <2>1, <2>2 DEF KeysMatch, KeysFollow
<1> QED
  BY <1>1, <1>2, <1>3, <1>4, <1>5, <1>6 DEF Shell!Next

LEMMA ShellStep == ASSUME ShellInvariant, Shell!Next PROVE ShellInvariant'
BY ShellTypeStep, StagesStep, LinesStep, KeysStep DEF ShellInvariant

\* A closed terminal is one that has nothing left to say.
LEMMA ShellBegins == ASSUME ConnectionsInit PROVE ShellInvariant
<1>1. /\ mounted \in BOOLEAN /\ console \in BOOLEAN
      /\ ready = FALSE /\ connected = FALSE /\ early = FALSE
      /\ tab \in {"connecting", "closed"}
      /\ shown = << >> /\ up = << >> /\ down = << >>
      /\ end \in {"none", "closed"} /\ handler \in {"none", "done"}
      /\ pod = "none" /\ history = "none" /\ printed = << >> /\ typed = << >> /\ received = << >>
      /\ inputs = 0
      /\ tab = "connecting" <=> end = "none"
      /\ end = "none" => handler = "none"
  <2>1. CASE part = "terminal"
    BY <2>1 DEF ConnectionsInit, Shell!Init
  <2>2. CASE part # "terminal"
    BY <2>2 DEF ConnectionsInit
  <2> QED
    BY <2>1, <2>2
<1>2. Shell!TypeOK
  <2>1. ready \in BOOLEAN /\ connected \in BOOLEAN /\ early \in BOOLEAN
    BY <1>1
  <2>2. /\ shown \in Seq(Shell!Message) /\ up \in Seq(Shell!Message) /\ down \in Seq(Shell!Message)
        /\ printed \in Seq(Shell!Message) /\ typed \in Seq(0 .. MaxInputs)
        /\ received \in Seq(0 .. MaxInputs)
    BY <1>1
  <2>3. inputs \in 0 .. MaxInputs
    BY <1>1, PartsAssumption
  <2> QED
    BY <1>1, <2>1, <2>2, <2>3, Zenon DEF Shell!TypeOK
<1>3. Stages
  BY <1>1 DEF Stages
<1>4. LinesMatch /\ LinesFollow
  BY <1>1 DEF LinesMatch, LinesFollow
<1>5. KeysMatch /\ KeysFollow
  <2>1. Len(typed) = 0 /\ Len(received) = 0 /\ Len(up) = 0
    BY <1>1
  <2> QED
    BY <1>1, <2>1 DEF KeysMatch, KeysFollow, Carrying, Complete
<1> QED
  BY <1>2, <1>3, <1>4, <1>5 DEF ShellInvariant

LEMMA ShellSteps ==
    ASSUME ShellInvariant, [ConnectionsNext]_connectionsVars
    PROVE  ShellInvariant'
<1>1. CASE Shell!Next
  BY <1>1, ShellStep
<1>2. CASE UNCHANGED shellVars
  <2>1. Shell!TypeOK'
    BY <1>2 DEF shellVars, ShellInvariant, Shell!TypeOK
  <2>2. UNCHANGED Presses
    BY <1>2 DEF shellVars, Presses
  <2>3. Stages' /\ LinesMatch' /\ LinesFollow' /\ KeysMatch' /\ KeysFollow'
    BY <1>2, <2>2 DEF shellVars, ShellInvariant, Stages, LinesMatch, LinesFollow, KeysMatch, KeysFollow
  <2> QED
    BY <2>1, <2>3 DEF ShellInvariant
<1> QED
  BY <1>1, <1>2 DEF ConnectionsNext, connectionsVars

\* Each step of a terminal is a step of the two channels, or none.
LEMMA OutputStep ==
    ASSUME ShellInvariant, [ConnectionsNext]_connectionsVars
    PROVE  [Shell!Output!Send \/ Shell!Output!Deliver]_<<printed, shown>>
<1>1. CASE Shell!PodPrints
  <2>1. Len(printed) \in 0 .. MaxLines
    BY <1>1, PartsAssumption DEF Shell!PodPrints, ShellInvariant, Shell!TypeOK
  <2>2. \E m \in {Shell!Line(n) : n \in 0 .. MaxLines} : printed' = Append(printed, m)
    BY <1>1, <2>1 DEF Shell!PodPrints
  <2> QED
    BY <1>1, <2>2 DEF Shell!PodPrints, Shell!screen, Shell!Output!Send
<1>2. CASE Shell!ClientGets
  BY <1>2, LineShown DEF ShellInvariant, Shell!Output!Deliver
<1>3. CASE UNCHANGED <<printed, shown>>
  BY <1>3
<1>4. CASE Shell!Next
  BY <1>1, <1>2, <1>3, <1>4
  DEF Shell!Next, Shell!Handshake, Shell!LoseConnection, Shell!Unmount, Shell!Type,
      Shell!Fit, Shell!Refuse, Shell!CheckFails, Shell!Accept, Shell!PodOpens,
      Shell!LogRead, Shell!PodEnds, Shell!ServerGets, Shell!bridge, Shell!screen
<1> QED
  BY <1>3, <1>4 DEF ConnectionsNext, connectionsVars, shellVars

LEMMA KeyboardStep ==
    ASSUME ShellInvariant, [ConnectionsNext]_connectionsVars
    PROVE  [Shell!Keyboard!Send \/ Shell!Keyboard!Deliver]_<<typed, received>>
<1>1. CASE Shell!Type
  <2>1. inputs \in 0 .. MaxInputs
    BY DEF ShellInvariant, Shell!TypeOK
  <2> QED
    BY <1>1, <2>1 DEF Shell!Type, Shell!bridge, Shell!Keyboard!Send
<1>2. CASE Shell!ServerGets
  BY <1>2, KeyForwarded DEF ShellInvariant, Shell!Keyboard!Deliver
<1>3. CASE UNCHANGED <<typed, received>>
  BY <1>3
<1>4. CASE Shell!Next
  BY <1>1, <1>2, <1>3, <1>4
  DEF Shell!Next, Shell!Handshake, Shell!LoseConnection, Shell!Unmount, Shell!ClientGets,
      Shell!Fit, Shell!Refuse, Shell!CheckFails, Shell!Accept, Shell!PodOpens, Shell!PodPrints,
      Shell!LogRead, Shell!PodEnds, Shell!bridge, Shell!screen
<1> QED
  BY <1>3, <1>4 DEF ConnectionsNext, connectionsVars, shellVars

\* The inductive invariant of the terminal: what is on its way carries the lines and the
\* inputs that are outstanding, in order, and all of them while both sockets are open.
THEOREM TerminalInvariant == ConnectionsSpec => []ShellInvariant
<1>1. ConnectionsInit => ShellInvariant
  BY ShellBegins
<1>2. ShellInvariant /\ [ConnectionsNext]_connectionsVars => ShellInvariant'
  BY ShellSteps
<1> QED
  BY <1>1, <1>2, PTL DEF ConnectionsSpec

\* The terminal refines the two channels: it shows the lines of the pod one by one from
\* the first, and what is typed once it said "ready" reaches the pod in order and without
\* a gap (terminal.ts, 140 to 330), however the log, the end of the session and the loss
\* of a connection fall, for any number of lines and inputs.
THEOREM NothingIsGarbled == ConnectionsSpec => Carries
<1>1. ConnectionsInit => Shell!Output!Init /\ Shell!Keyboard!Init
  BY DEF ConnectionsInit, Shell!Init, Shell!Output!Init, Shell!Keyboard!Init
<1>2. ShellInvariant /\ [ConnectionsNext]_connectionsVars
        => /\ [Shell!Output!Send \/ Shell!Output!Deliver]_<<printed, shown>>
           /\ [Shell!Keyboard!Send \/ Shell!Keyboard!Deliver]_<<typed, received>>
  BY OutputStep, KeyboardStep
<1> QED
  BY <1>1, <1>2, TerminalInvariant, PTL
  DEF ConnectionsSpec, Carries, Shell!Carries, Shell!ShowsWhatIsPrinted,
      Shell!ReadyMeansListening, Shell!Output!Spec, Shell!Keyboard!Spec

-----------------------------------------------------------------------------
(* How a session ends.                                                      *)

\* One of these messages is on its way.
Holds(q, S) == \E i \in 1 .. Len(q) : q[i] \in S

Goodbyes == {Shell!Close, Shell!Fin}

\* What each end of the bridge has been told, or is about to be.
Tidings ==
    /\ connected => tab = "open"
    /\ connected /\ end = "closed" => Holds(down, Goodbyes)
    /\ pod = "closed" \/ Holds(down, {Shell!Fin}) => end = "closed"
    /\ connected => handler # "none"
    /\ end = "open" /\ handler = "done" =>
         \/ pod = "connecting"
         \/ pod = "open" /\ (history = "reading" \/ ready \/ ~connected \/ Holds(down, {Shell!Ready}))
    /\ end = "closed" => early \/ (handler # "checking" /\ pod \in {"none", "closed"})
    /\ tab \in {"closing", "closed"} /\ end = "open" => Holds(up, {Shell!Fin})
    /\ ~mounted /\ ~early => tab \in {"closing", "closed"}

\* A badge that outlives its session, a badge without "ready" and an exec session
\* whose terminal is gone are waiting for a message that was sent, or for a step of
\* the bridge that is due; a lookup that failed and a terminal that left early are not.
NobodyIsForgotten ==
    /\ connected /\ pod = "closed" => tab = "open" /\ Holds(down, Goodbyes)
    /\ connected /\ ~ready =>
         \/ handler \in {"checking", "failed"} \/ pod = "connecting" \/ history = "reading"
         \/ Holds(down, {Shell!Ready} \cup Goodbyes)
    /\ ~mounted /\ pod \in {"connecting", "open"} => early \/ Holds(up, {Shell!Fin})

LEMMA HoldsJoined ==
    ASSUME NEW M, NEW q \in Seq(M), NEW ms \in Seq(M), NEW S
    PROVE  Holds(q \o ms, S) <=> Holds(q, S) \/ Holds(ms, S)
<1>1. ASSUME NEW i \in 1 .. Len(q), q[i] \in S PROVE Holds(q \o ms, S)
  BY <1>1, ConcatProperties DEF Holds
<1>2. ASSUME NEW i \in 1 .. Len(ms), ms[i] \in S PROVE Holds(q \o ms, S)
  <2>1. Len(q) + i \in 1 .. Len(q \o ms) /\ (q \o ms)[Len(q) + i] = ms[i]
    BY ConcatProperties
  <2> QED
    BY <1>2, <2>1 DEF Holds
<1>3. ASSUME NEW i \in 1 .. Len(q \o ms), (q \o ms)[i] \in S PROVE Holds(q, S) \/ Holds(ms, S)
  <2>1. CASE i <= Len(q)
    BY <1>3, <2>1, ConcatProperties DEF Holds
  <2>2. CASE i > Len(q)
    <3>1. i - Len(q) \in 1 .. Len(ms) /\ (q \o ms)[i] = ms[i - Len(q)]
      BY <2>2, ConcatProperties
    <3> QED
      BY <1>3, <3>1 DEF Holds
  <2> QED
    BY <2>1, <2>2
<1> QED
  BY <1>1, <1>2, <1>3 DEF Holds

LEMMA HoldsTail ==
    ASSUME NEW M, NEW q \in Seq(M), q # << >>, NEW S
    PROVE  Holds(q, S) <=> Head(q) \in S \/ Holds(Tail(q), S)
<1>1. /\ Len(q) \in Nat \ {0} /\ Head(q) = q[1]
      /\ Len(Tail(q)) = Len(q) - 1
      /\ \A i \in 1 .. Len(Tail(q)) : Tail(q)[i] = q[i + 1]
  OBVIOUS
<1>2. ASSUME NEW i \in 1 .. Len(q), q[i] \in S PROVE q[1] \in S \/ Holds(Tail(q), S)
  <2>1. CASE i > 1
    <3>1. i - 1 \in 1 .. Len(Tail(q)) /\ Tail(q)[i - 1] = q[i]
      BY <1>1, <2>1
    <3> QED
      BY <1>2, <3>1 DEF Holds
  <2> QED
    BY <1>2, <2>1
<1>3. ASSUME NEW i \in 1 .. Len(Tail(q)), Tail(q)[i] \in S PROVE Holds(q, S)
  <2>1. i + 1 \in 1 .. Len(q) /\ q[i + 1] \in S
    BY <1>1, <1>3
  <2> QED
    BY <2>1 DEF Holds
<1>4. q[1] \in S => Holds(q, S)
  BY <1>1 DEF Holds
<1> QED
  BY <1>1, <1>2, <1>3, <1>4 DEF Holds

LEMMA HoldsAppended ==
    ASSUME NEW M, NEW q \in Seq(M), NEW m \in M, NEW S
    PROVE  Holds(Append(q, m), S) <=> Holds(q, S) \/ m \in S
<1>1. /\ Len(Append(q, m)) = Len(q) + 1 /\ Append(q, m)[Len(q) + 1] = m
      /\ \A i \in 1 .. Len(q) : Append(q, m)[i] = q[i]
  OBVIOUS
<1>2. Len(q) \in Nat
  OBVIOUS
<1>3. ASSUME NEW i \in 1 .. Len(Append(q, m)), Append(q, m)[i] \in S
      PROVE  Holds(q, S) \/ m \in S
  <2>1. i \in 1 .. Len(q) \/ i = Len(q) + 1
    BY <1>1, <1>2
  <2> QED
    BY <1>1, <1>3, <2>1 DEF Holds
<1>4. ASSUME NEW i \in 1 .. Len(q), q[i] \in S PROVE Holds(Append(q, m), S)
  BY <1>1, <1>2, <1>4 DEF Holds
<1>5. m \in S => Holds(Append(q, m), S)
  BY <1>1, <1>2 DEF Holds
<1> QED
  BY <1>3, <1>4, <1>5 DEF Holds

\* What a short message holds.
LEMMA HoldsOne ==
    /\ \A S : ~Holds(<< >>, S)
    /\ \A m, S : Holds(<<m>>, S) <=> m \in S
    /\ \A m, n, S : Holds(<<m, n>>, S) <=> m \in S \/ n \in S
BY DEF Holds

LEMMA SendsNews ==
    ASSUME Shell!TypeOK, NEW ms \in Seq(Shell!Message), Shell!Sends(ms), NEW S
    PROVE  Holds(down', S) <=> Holds(down, S) \/ (end = "open" /\ Holds(ms, S))
<1>1. Holds(down \o ms, S) <=> Holds(down, S) \/ Holds(ms, S)
  BY HoldsJoined DEF Shell!TypeOK
<1> QED
  BY <1>1 DEF Shell!Sends

\* What the bridge sends, and what it says.
LEMMA News ==
    /\ {Shell!Ready, Shell!Log, Shell!Error, Shell!Close, Shell!Fin, Shell!Resize}
         \subseteq Shell!Message
    /\ Shell!Fin \notin {Shell!Ready, Shell!Log, Shell!Error, Shell!Close}
    /\ Shell!Ready \notin {Shell!Close, Shell!Fin, Shell!Error}
    /\ \A n \in Nat : Shell!Line(n) \notin {Shell!Ready, Shell!Close, Shell!Fin}
BY DEF Shell!Message, Shell!Ready, Shell!Log, Shell!Error, Shell!Close, Shell!Fin,
   Shell!Resize, Shell!Line

\* The browser's steps.
LEMMA BrowserTidings ==
    ASSUME Shell!TypeOK, Stages, Tidings,
           Shell!Handshake \/ Shell!LoseConnection \/ Shell!Unmount \/ Shell!Type \/ Shell!Fit
    PROVE  Tidings'
<1>1. CASE Shell!Handshake
  BY <1>1, HoldsOne DEF Shell!Handshake, Tidings, Stages
<1>2. CASE Shell!LoseConnection
  <2>1. ~Holds(down', {Shell!Fin}) /\ (tab = "open" => Holds(up', {Shell!Fin}))
    BY <1>2, HoldsOne DEF Shell!LoseConnection
  <2> QED
    BY <1>2, <2>1 DEF Shell!LoseConnection, Shell!bridge, Tidings, Stages
<1>3. CASE Shell!Unmount
  <2>1. Holds(up', {Shell!Fin}) \/ (tab # "open" /\ up' = up)
    BY <1>3, HoldsAppended, News DEF Shell!Unmount, Shell!TypeOK
  <2>2. tab \in {"connecting", "open", "closing", "closed"} /\ early \in BOOLEAN
    BY DEF Shell!TypeOK
  <2>3. ~early' => tab' \in {"closing", "closed"} \/ ~mounted
    BY <1>3, <2>2 DEF Shell!Unmount
  <2> QED
    BY <1>3, <2>1, <2>3 DEF Shell!Unmount, Shell!bridge, Tidings
<1>4. CASE Shell!Type \/ Shell!Fit
  <2>1. tab = "open" /\ UNCHANGED <<mounted, tab, connected, ready, down, Shell!bridge, early>>
    BY <1>4 DEF Shell!Type, Shell!Fit
  <2> QED
    BY <2>1 DEF Shell!bridge, Tidings
<1> QED
  BY <1>1, <1>2, <1>3, <1>4

\* A message arrives at the browser.
LEMMA ArrivalTidings ==
    ASSUME Shell!TypeOK, Stages, Tidings, Shell!ClientGets
    PROVE  Tidings'
<1>1. down \in Seq(Shell!Message) /\ down # << >> /\ down' = Tail(down)
  BY DEF Shell!ClientGets, Shell!TypeOK
<1>2. \A S : Holds(down, S) <=> Head(down) \in S \/ Holds(down', S)
  BY <1>1, HoldsTail
<1>3. /\ tab' = IF Head(down) = Shell!Fin THEN "closed" ELSE tab
      /\ connected' => connected /\ Head(down) \notin Goodbyes
      /\ ready \/ (tab = "open" /\ Head(down) # Shell!Fin /\ Head(down) = Shell!Ready) => ready'
      /\ UNCHANGED <<mounted, up, end, handler, pod, history, early>>
  BY DEF Shell!ClientGets, Shell!bridge, Goodbyes
<1>4. Holds(down', {Shell!Fin}) => Holds(down, {Shell!Fin})
  BY <1>2
<1>5. connected' /\ Holds(down, Goodbyes) => Holds(down', Goodbyes)
  BY <1>2, <1>3
<1>6. connected' /\ Holds(down, {Shell!Ready}) => ready' \/ Holds(down', {Shell!Ready})
  BY <1>2, <1>3, News DEF Tidings, Goodbyes
<1>7. Head(down) = Shell!Fin => end = "closed"
  BY <1>2 DEF Tidings
<1>8. connected' => connected /\ tab' = tab
  BY <1>3 DEF Goodbyes
<1> QED
  BY <1>3, <1>4, <1>5, <1>6, <1>7, <1>8 DEF Tidings

\* The bridge's own steps.
LEMMA BridgeTidings ==
    ASSUME Shell!TypeOK, Stages, Tidings,
           \/ Shell!Refuse \/ Shell!CheckFails \/ Shell!Accept
           \/ Shell!PodOpens \/ Shell!LogRead \/ Shell!PodPrints \/ Shell!PodEnds
    PROVE  Tidings'
<1> USE DEF Shell!screen
<1>0. Shell!Fin \in Goodbyes /\ Shell!Close \in Goodbyes
  BY DEF Goodbyes
<1>1. CASE Shell!Refuse
  <2>1. <<Shell!Error, Shell!Fin>> \in Seq(Shell!Message)
    BY News
  <2>2. \A S : Holds(down', S) <=>
                 Holds(down, S) \/ (end = "open" /\ Holds(<<Shell!Error, Shell!Fin>>, S))
    BY <1>1, <2>1, SendsNews DEF Shell!Refuse
  <2>3. /\ end = "open" => Holds(down', Goodbyes)
        /\ Holds(down, Goodbyes) => Holds(down', Goodbyes)
    BY <1>0, <2>2, HoldsOne
  <2>4. end \in {"open", "closed"} /\ end' = "closed" /\ pod = "none"
    BY <1>1 DEF Shell!Refuse, Shell!Hangs, Stages, Shell!TypeOK
  <2> QED
    BY <1>1, <2>3, <2>4 DEF Shell!Refuse, Tidings
<1>2. CASE Shell!CheckFails
  BY <1>2 DEF Shell!CheckFails, Tidings
<1>3. CASE Shell!Accept
  BY <1>3 DEF Shell!Accept, Tidings
<1>4. CASE Shell!PodOpens
  <2>1. <<Shell!Ready>> \in Seq(Shell!Message)
    BY News
  <2>2. ASSUME ~console
        PROVE \A S : Holds(down', S) <=> Holds(down, S) \/ (end = "open" /\ Shell!Ready \in S)
    BY <1>4, <2>1, <2>2, SendsNews, HoldsOne DEF Shell!PodOpens
  <2>3. /\ Holds(down, Goodbyes) => Holds(down', Goodbyes)
        /\ Holds(down', {Shell!Fin}) => Holds(down, {Shell!Fin})
        /\ end = "open" => history' = "reading" \/ Holds(down', {Shell!Ready})
    BY <1>4, <2>2, News DEF Shell!PodOpens
  <2> QED
    BY <1>4, <2>3 DEF Shell!PodOpens, Tidings, Stages
<1>5. CASE Shell!LogRead
  <2>1. PICK lines \in {<< >>, <<Shell!Log>>} : Shell!Sends(Append(lines, Shell!Ready))
    BY <1>5 DEF Shell!LogRead
  <2>2. lines \in Seq(Shell!Message) /\ Append(lines, Shell!Ready) \in Seq(Shell!Message)
    <3>1. << >> \in Seq(Shell!Message) /\ <<Shell!Log>> \in Seq(Shell!Message)
      BY News
    <3>2. lines \in Seq(Shell!Message)
      BY <3>1, Zenon
    <3> QED
      BY <3>2, News, AppendProperties
  <2>3. \A S : Holds(down', S) <=> Holds(down, S)
                 \/ (end = "open" /\ (Holds(lines, S) \/ Shell!Ready \in S))
    BY <2>1, <2>2, SendsNews, HoldsAppended, News
  <2>4. ~Holds(lines, {Shell!Fin})
    BY <2>1, News, HoldsOne
  <2>5. /\ Holds(down, Goodbyes) => Holds(down', Goodbyes)
        /\ Holds(down', {Shell!Fin}) => Holds(down, {Shell!Fin})
        /\ end = "open" => Holds(down', {Shell!Ready})
    <3>1. Holds(down, Goodbyes) => Holds(down', Goodbyes)
      BY <2>3
    <3>2. Shell!Ready \notin {Shell!Fin} /\ Shell!Ready \in {Shell!Ready}
      BY News
    <3>3. Holds(down', {Shell!Fin}) => Holds(down, {Shell!Fin})
      BY <2>3, <2>4, <3>2
    <3>4. end = "open" => Holds(down', {Shell!Ready})
      BY <2>3, <3>2
    <3> QED
      BY <3>1, <3>3, <3>4
  <2>6. pod \in {"open", "closed"}
    BY <1>5 DEF Shell!LogRead, Stages
  <2> QED
    BY <1>5, <2>5, <2>6 DEF Shell!LogRead, Tidings
<1>6. CASE Shell!PodPrints
  <2>0. Len(printed) \in Nat /\ Len(printed) < MaxLines
    BY <1>6 DEF Shell!PodPrints, Shell!TypeOK
  <2>1. Shell!Line(Len(printed)) \in Shell!Message /\ Len(printed) \in Nat
    BY <2>0, PartsAssumption DEF Shell!Message
  <2>2. <<Shell!Line(Len(printed))>> \in Seq(Shell!Message)
    BY <2>1
  <2>3. \A S : Holds(down', S) <=> Holds(down, S) \/ (end = "open" /\ Shell!Line(Len(printed)) \in S)
    BY <1>6, <2>2, SendsNews, HoldsOne DEF Shell!PodPrints
  <2>4. /\ Holds(down, Goodbyes) => Holds(down', Goodbyes)
        /\ Holds(down', {Shell!Fin}) => Holds(down, {Shell!Fin})
        /\ Holds(down, {Shell!Ready}) => Holds(down', {Shell!Ready})
    <3>1. Holds(down, Goodbyes) => Holds(down', Goodbyes)
      BY <2>3
    <3>2. Shell!Line(Len(printed)) \notin {Shell!Fin}
      BY <2>1, News
    <3>3. Holds(down', {Shell!Fin}) => Holds(down, {Shell!Fin})
      BY <2>3, <3>2
    <3>4. Holds(down, {Shell!Ready}) => Holds(down', {Shell!Ready})
      BY <2>3
    <3> QED
      BY <3>1, <3>3, <3>4
  <2> QED
    BY <1>6, <2>4 DEF Shell!PodPrints, Tidings
<1>7. CASE Shell!PodEnds
  <2>1. PICK errors \in {<< >>, <<Shell!Error>>} :
           Shell!Sends(errors \o <<Shell!Close, Shell!Fin>>)
    BY <1>7 DEF Shell!PodEnds
  <2>2. errors \in Seq(Shell!Message) /\ <<Shell!Close, Shell!Fin>> \in Seq(Shell!Message)
    <3>1. << >> \in Seq(Shell!Message) /\ <<Shell!Error>> \in Seq(Shell!Message)
          /\ <<Shell!Close, Shell!Fin>> \in Seq(Shell!Message)
      BY News
    <3> QED
      BY <3>1, Zenon
  <2>3. errors \o <<Shell!Close, Shell!Fin>> \in Seq(Shell!Message)
    BY <2>2, ConcatProperties
  <2>4. Holds(errors \o <<Shell!Close, Shell!Fin>>, Goodbyes)
    <3>1. Holds(<<Shell!Close, Shell!Fin>>, Goodbyes)
      BY <1>0, HoldsOne
    <3>2. Holds(errors \o <<Shell!Close, Shell!Fin>>, Goodbyes)
            <=> Holds(errors, Goodbyes) \/ Holds(<<Shell!Close, Shell!Fin>>, Goodbyes)
      BY <2>2, HoldsJoined
    <3> QED
      BY <3>1, <3>2
  <2>5. /\ end = "open" => Holds(down', Goodbyes)
        /\ Holds(down, Goodbyes) => Holds(down', Goodbyes)
    BY <2>1, <2>3, <2>4, SendsNews
  <2>6. end \in {"open", "closed"} /\ end' = "closed" /\ handler # "checking"
    BY <1>7 DEF Shell!PodEnds, Shell!Hangs, Stages, Shell!TypeOK
  <2> QED
    BY <1>7, <2>5, <2>6 DEF Shell!PodEnds, Tidings
<1> QED
  BY <1>1, <1>2, <1>3, <1>4, <1>5, <1>6, <1>7

\* A message arrives at the bridge.
LEMMA ServerTidings ==
    ASSUME Shell!TypeOK, Stages, Tidings, Shell!ServerGets
    PROVE  Tidings'
<1> USE DEF Shell!screen
<1>1. up \in Seq(Shell!Message) /\ up # << >> /\ up' = Tail(up)
  BY DEF Shell!ServerGets, Shell!TypeOK
<1>2. CASE Head(up) = Shell!Fin
  <2>1. <<Shell!Fin>> \in Seq(Shell!Message)
    BY News
  <2>2. Shell!Sends(<<Shell!Fin>>)
    BY <1>2 DEF Shell!ServerGets, Shell!ClientLeft
  <2>3. /\ end = "open" => Holds(down', Goodbyes)
        /\ Holds(down, Goodbyes) => Holds(down', Goodbyes)
        /\ end = "none" => down' = down
    BY <2>1, <2>2, SendsNews, HoldsOne DEF Goodbyes, Shell!Sends
  <2>4. /\ UNCHANGED <<mounted, tab, connected, ready, handler, history>>
        /\ end' = IF end = "open" THEN "closed" ELSE end
        /\ pod' = IF pod = "open" THEN "closed" ELSE pod
        /\ early' = (early \/ handler = "checking" \/ pod = "connecting")
    BY <1>2 DEF Shell!ServerGets, Shell!ClientLeft, Shell!Hangs
  <2>5. end \in {"none", "open", "closed"} /\ pod \in {"none", "connecting", "open", "closed"}
    BY DEF Shell!TypeOK
  <2>6. CASE end = "none"
    BY <2>3, <2>4, <2>6 DEF Tidings, Stages
  <2>7. CASE end \in {"open", "closed"}
    <3>1. end' = "closed" /\ (early' \/ (handler' # "checking" /\ pod' \in {"none", "closed"}))
      BY <2>4, <2>5, <2>7
    <3> QED
      BY <2>3, <2>4, <2>7, <3>1 DEF Tidings
  <2> QED
    BY <2>5, <2>6, <2>7
<1>3. CASE Head(up) # Shell!Fin
  <2>1. Holds(up, {Shell!Fin}) => Holds(up', {Shell!Fin})
    BY <1>1, <1>3, HoldsTail
  <2>2. UNCHANGED <<mounted, tab, connected, ready, handler, history, down, end, pod, early>>
    BY <1>3 DEF Shell!ServerGets, Shell!Forward
  <2> QED
    BY <2>1, <2>2 DEF Tidings
<1> QED
  BY <1>2, <1>3

LEMMA TidingsSteps ==
    ASSUME ShellInvariant, Tidings, [ConnectionsNext]_connectionsVars
    PROVE  Tidings'
<1>1. CASE Shell!Next
  BY <1>1, BrowserTidings, ArrivalTidings, BridgeTidings, ServerTidings
  DEF Shell!Next, ShellInvariant
<1>2. CASE UNCHANGED shellVars
  BY <1>2 DEF shellVars, Tidings
<1> QED
  BY <1>1, <1>2 DEF ConnectionsNext, connectionsVars

LEMMA TidingsBegin == ASSUME ConnectionsInit PROVE Tidings
<1>1. ~connected /\ down = << >> /\ end \in {"none", "closed"} /\ pod = "none"
      /\ handler \in {"none", "done"} /\ (end = "none" => tab = "connecting" /\ mounted)
      /\ (end = "closed" => ~mounted /\ tab = "closed")
  BY DEF ConnectionsInit, Shell!Init
<1> QED
  BY <1>1, HoldsOne DEF Tidings

\* However a session ends - by the pod, the user, the network, a refusal - each end
\* has been told or the message is on its way: only delivery is left, and the two
\* exceptions are a failed lookup and a terminal that left while a socket connected
\* (terminal.ts and terminal.tsx).
THEOREM TheEndIsTold == ConnectionsSpec => []NobodyIsForgotten
<1>1. ConnectionsInit => Tidings
  BY TidingsBegin
<1>2. ShellInvariant /\ Tidings /\ [ConnectionsNext]_connectionsVars => Tidings'
  BY TidingsSteps
<1>3. ShellInvariant /\ Tidings => NobodyIsForgotten
  <2>1. ASSUME Shell!TypeOK, Stages, Tidings PROVE NobodyIsForgotten
    <3>1. \A q : Holds(q, {Shell!Ready}) \/ Holds(q, Goodbyes) => Holds(q, {Shell!Ready} \cup Goodbyes)
      BY DEF Holds
    <3>2. connected => end # "none"
      BY <2>1 DEF Stages, Tidings
    <3>3. pod \in {"connecting", "open"} => end # "none"
      BY <2>1 DEF Stages
    <3> QED
      BY <2>1, <3>1, <3>2, <3>3 DEF Tidings, NobodyIsForgotten, Shell!TypeOK
  <2> QED
    BY <2>1 DEF ShellInvariant
<1> QED
  BY <1>1, <1>2, <1>3, TerminalInvariant, PTL DEF ConnectionsSpec

-----------------------------------------------------------------------------
(* The three parts together.                                                *)

LEMMA PageBegins == ASSUME ConnectionsInit PROVE Invariant
<1>1. CASE part = "topology"
  BY <1>1, InitHolds DEF ConnectionsInit
<1>2. CASE part # "topology"
  <2>1. 0 \in 0 .. MaxVersion /\ 0 \in 0 .. MaxFetches /\ 1 \in 1 .. MaxVersion
    BY BoundsAssumption
  <2>2. TypeOK
    <3>1. /\ version = 1 /\ lists = "failed" /\ sequence = 0 /\ graph = NoGraph
          /\ fetch = [f \in 1 .. MaxFetches |-> NoFetch]
          /\ loading = TRUE /\ error = FALSE /\ initial = TRUE /\ refreshing = FALSE
          /\ overtaken = FALSE
      BY <1>2, Zenon DEF ConnectionsInit
    <3>2. /\ loading \in BOOLEAN /\ error \in BOOLEAN /\ initial \in BOOLEAN
          /\ refreshing \in BOOLEAN /\ overtaken \in BOOLEAN
      BY <3>1, Zenon
    <3> QED
      BY <2>1, <3>1, <3>2 DEF TypeOK, NoFetch, NoGraph, Fetches
  <2>3. GraphOK
    BY <1>2 DEF ConnectionsInit, GraphOK, NoGraph
  <2>4. ASSUME NEW f \in Fetches PROVE FetchOK(f) /\ Later(f)
    BY <1>2 DEF ConnectionsInit, FetchOK, Later, NoFetch, NoGraph, Fetches
  <2> QED
    BY <1>2, <2>2, <2>3, <2>4 DEF ConnectionsInit, Invariant, LoadingOK, ScreenIsOfTheLast
<1> QED
  BY <1>1, <1>2

\* The type of the three parts holds for all bounds.
THEOREM ConnectionsTyped == ConnectionsSpec => []ConnectionsTypeOK
<1> DEFINE I == ShellInvariant /\ FeedInvariant /\ Invariant
<1>1. ConnectionsInit => I
  BY ShellBegins, FeedBegins, PageBegins
<1>2. I /\ [ConnectionsNext]_connectionsVars => I'
  <2>1. [ConnectionsNext]_connectionsVars => [Next]_vars
    BY DEF ConnectionsNext, connectionsVars
  <2> QED
    BY <2>1, ShellSteps, FeedSteps, InvariantStep
<1>3. I => ConnectionsTypeOK
  BY DEF ShellInvariant, FeedInvariant, Invariant, ConnectionsTypeOK
<1> QED
  BY <1>1, <1>2, <1>3, PTL DEF ConnectionsSpec
=============================================================================
