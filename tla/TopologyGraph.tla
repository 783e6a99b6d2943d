--------------------------- MODULE TopologyGraph ---------------------------
(***************************************************************************)
(* The picture of the topology page: the graph built from what a fetch has *)
(* read (lib/topology-utils.ts, the end of use-topology-data.ts), the      *)
(* filters of its toolbar (topology-canvas.tsx, topology-toolbar.tsx) and   *)
(* the places of its nodes (use-graph-layout.ts).  The id of a server is    *)
(* the name of its custom resource, and a pod is the node it runs on.       *)
(* Health, metrics and labels are left out.                                *)
(***************************************************************************)
EXTENDS Integers, Sequences, FiniteSets, SequencesExt

CONSTANTS
    ServerList,  \* the servers, in the order of the list
    ProxyList,   \* the proxies
    NodeList,    \* the Kubernetes nodes there may be
    StatusName,  \* names a proxy's status may list
    PodLists,    \* the nodes of the pods of every server and proxy
    Query        \* what a search may find: the ids whose label contains the text

Nowhere == "nowhere" \* a pod that is not scheduled

\* The empty text is in every label.
NoSearch == ToSet(ServerList) \cup ToSet(ProxyList) \cup ToSet(NodeList)

VARIABLES
    input,  \* what the fetch has read
    show    \* the filters

vars == <<input, show>>

Switches == {"servers", "proxies", "nodes", "connections"}

\* nodes: those the cluster lists; backends: the status of a proxy's resource.
Inputs == [pods : PodLists, nodes : SUBSET ToSet(NodeList),
           backends : [ToSet(ProxyList) -> SUBSET StatusName]]

-----------------------------------------------------------------------------
(* The graph.                                                               *)

Server(s) == [type |-> "server", id |-> s]
Proxy(p) == [type |-> "proxy", id |-> p]
K8sNode(n) == [type |-> "node", id |-> n]

\* serverToK8sNodes and proxyToK8sNodes, in the order of the pods.
HostList(w) == SelectSeq(input.pods[w], LAMBDA node : node # Nowhere)

\* Mutant: what the proxy's status lists need not be in the list of servers.
Routes_Unknown(p) == input.backends[p]

\* parseProxyServerConnections
Routes(p) == input.backends[p] \cap ToSet(ServerList)

Nodes ==
    {Server(s) : s \in ToSet(ServerList)} \cup {Proxy(p) : p \in ToSet(ProxyList)}
        \cup {K8sNode(n) : n \in input.nodes}

HostEdges(item) == {<<K8sNode(n), item>> : n \in ToSet(HostList(item.id)) \cap input.nodes}

Edges ==
    (UNION {{<<Proxy(p), Server(s)>> : s \in Routes(p)} : p \in ToSet(ProxyList)})
        \cup (UNION {HostEdges(item) : item \in {i \in Nodes : i.type # "node"}})

-----------------------------------------------------------------------------
(* The filters.                                                             *)

Switch(item) ==
    CASE item.type = "server" -> "servers" [] item.type = "proxy" -> "proxies" [] OTHER -> "nodes"

\* filterNodes
Visible(item) == Switch(item) \in show.on /\ item.id \in show.search
VisibleNodes == {item \in Nodes : Visible(item)}

\* filterEdges
VisibleEdges ==
    IF "connections" \in show.on
    THEN {e \in Edges : e[1] \in VisibleNodes /\ e[2] \in VisibleNodes} ELSE {}

-----------------------------------------------------------------------------
(* The layout.                                                              *)

\* What a filter keeps of a list: those of a set, in the order of the list.
Kept(list, set) ==
    LET kept[i \in 0 .. Len(list)] ==
            IF i = 0 THEN <<>>
            ELSE IF list[i] \in set THEN Append(kept[i - 1], list[i]) ELSE kept[i - 1]
    IN kept[Len(list)]

NodeWidth == 320
Spacing == 350

\* Servers before proxies, in the order of the lists.
Apps ==
    Kept([i \in DOMAIN ServerList |-> Server(ServerList[i])], VisibleNodes)
        \o Kept([i \in DOMAIN ProxyList |-> Proxy(ProxyList[i])], VisibleNodes)

\* k8sNodeGroups: an application stands below its first node.
Group(n) ==
    Kept(Apps, {app \in ToSet(Apps) : HostList(app.id) # <<>> /\ HostList(app.id)[1] = n})
Orphans == Kept(Apps, {app \in ToSet(Apps) : HostList(app.id) = <<>>})

\* The visible nodes, those with a group first.
Columns ==
    LET visible == {n \in input.nodes : K8sNode(n) \in VisibleNodes} IN
    Kept(NodeList, {n \in visible : Group(n) # <<>>})
        \o Kept(NodeList, {n \in visible : Group(n) = <<>>})

ColumnWidth(n) == IF Len(Group(n)) > 1 THEN Len(Group(n)) * NodeWidth ELSE NodeWidth

\* currentX before the i-th column.
Left[i \in 1 .. Len(Columns) + 1] ==
    IF i = 1 THEN 0 ELSE Left[i - 1] + ColumnWidth(Columns[i - 1]) + Spacing
Center(i) == Left[i] + ColumnWidth(Columns[i]) \div 2

At(item, x, y) == [item |-> item, x |-> x, y |-> y]

\* Mutant: the applications without a pod start at the left.
OrphanPlaces_Left == {At(Orphans[i], (i - 1) * NodeWidth, 1) : i \in DOMAIN Orphans}

OrphanPlaces ==
    {At(Orphans[i], Left[Len(Columns) + 1] + (i - 1) * NodeWidth, 1) : i \in DOMAIN Orphans}

GroupPlaces(c) ==
    LET group == Group(Columns[c])
        start == Center(c) - (Len(group) * NodeWidth) \div 2 + NodeWidth \div 2 IN
    {At(group[i], start + (i - 1) * NodeWidth, 1) : i \in DOMAIN group}

\* Before the picture is centred.
Places ==
    {At(K8sNode(Columns[c]), Center(c), 0) : c \in DOMAIN Columns}
        \cup (UNION {GroupPlaces(c) : c \in DOMAIN Columns}) \cup OrphanPlaces

-----------------------------------------------------------------------------
Init ==
    /\ input \in Inputs
    /\ show = [on |-> Switches, search |-> NoSearch]

\* toggleFilter
Toggle(filter) ==
    /\ show' = [show EXCEPT !.on = IF filter \in @ THEN @ \ {filter} ELSE @ \cup {filter}]
    /\ UNCHANGED input

\* handleSearchChange
Search(found) ==
    /\ show' = [show EXCEPT !.search = found]
    /\ UNCHANGED input

Next == (\E filter \in Switches : Toggle(filter)) \/ \E found \in Query : Search(found)

Spec == Init /\ [][Next]_vars
-----------------------------------------------------------------------------
(* Properties.                                                              *)

\* The type of the state.
TypeOK ==
    /\ input \in Inputs
    /\ show \in [on : SUBSET Switches, search : Query \cup {NoSearch}]

\* Every line has a node at both ends, although a proxy's status and the pods are
\* read later than the servers and the nodes.
EdgesHaveEnds == \A e \in Edges : e[1] \in Nodes /\ e[2] \in Nodes

\* Two nodes in a row are a node's width apart, whatever stands below what.
NothingOverlaps ==
    \A a, b \in Places : a # b /\ a.y = b.y => a.x - b.x >= NodeWidth \/ b.x - a.x >= NodeWidth

\* What passes the filters is in the picture, and once.  The exception is an
\* application whose first node is filtered out or not listed: it disappears too.
NothingIsLost ==
    \A item \in VisibleNodes :
        LET drawn == Cardinality({a \in Places : a.item = item}) IN
        \/ drawn = 1
        \/ /\ drawn = 0 /\ item.type # "node" /\ HostList(item.id) # <<>>
           /\ K8sNode(HostList(item.id)[1]) \notin VisibleNodes

\* The three together (topology-utils.ts, use-graph-layout.ts).
PictureIsWhole == EdgesHaveEnds /\ NothingOverlaps /\ NothingIsLost
=============================================================================
