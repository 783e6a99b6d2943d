------------------------------ MODULE MCConsole ------------------------------
(***************************************************************************)
(* Six parts that share no state, in one instance for TLC: the pages of    *)
(* ServerForm, UsersPage, RegistryPage, TopologyGraph and ManagePage, and   *)
(* the variables of a pod, of PodEnv.  A behaviour is a behaviour of one    *)
(* part; the others keep the value of a page that has not been opened.      *)
(***************************************************************************)
EXTENDS MCServerForm, PodEnv, FiniteSets

CONSTANTS
    User, Self, Task, MaxTasks,       \* UsersPage
    Project, FirstLibrary, MaxRequests, MaxUnderWay, \* RegistryPage
    Refresh, MaxPods, MaxFailures,    \* ManagePage, and MaxOthers
    ServerList, ProxyList, NodeList, StatusName, PodLists, Query  \* TopologyGraph

ASSUME PagesAssumption ==
    /\ Self \in User /\ IsFiniteSet(Task) /\ MaxTasks \in Nat \ {0}
    /\ MaxRequests \in Nat /\ MaxRequests >= 2 /\ FirstLibrary \in {0, 1}
    /\ MaxPods \in Nat \ {0} /\ MaxFailures \in Nat

\* The lists of the backend and of the cluster name everything once.
ASSUME ListsAssumption ==
    \A names \in {ServerList, ProxyList, NodeList} :
        /\ names \in Seq({names[i] : i \in DOMAIN names})
        /\ \A i, j \in DOMAIN names : names[i] = names[j] => i = j

VARIABLES
    part, error,
    db, users, session, dialog, pending, loading, sequence, task, tasks, changes, behind, missed,
    twice,
    library, projects, source, selected, versions, artifacts, target, busy, request, requests,
    searched, stored, overlap, failed, nothing,
    input, show,
    running, stable, pods, server, pod, opening, acting, actionError, calls, writes, failures,
    excused

\* TopologyGraph: a server with up to two pods, a second one, a proxy, two nodes and a
\* server that a proxy's status lists and the database does not.
MCServers == <<"s1", "s2">>
MCProxies == <<"p1">>
MCNodes == <<"n1", "n2">>
MCBackends == {"s1", "s3"}

\* No text, a text of one label, a text of a label of each type.
MCQueries == {{"s1", "s2", "p1", "n1", "n2"}, {"s1"}, {"s1", "p1", "n1"}}

MCPodLists ==
    {[w \in {"s1", "s2", "p1"} |-> CASE w = "s1" -> a [] w = "s2" -> b [] OTHER -> c] :
        a \in UNION {[1 .. k -> {"n1", "n2", "nowhere"}] : k \in 0 .. 2},
        b \in {<<>>, <<"n1">>}, c \in {<<>>, <<"n2">>}}

\* PodEnv: the optional fields whose variables are protected vary; the others are all set or
\* all unset.
MCOptions ==
    {o \cup p : o \in SUBSET {"apiKeySecretRef", "backendURL", "pluginURL"},
                p \in {{}, {"motd", "levelSeed", "levelType", "opts", "useAikarFlags",
                           "useMeowIceFlags"}}}

\* Every kind with its options, and the memory at and around the bounds of the code.
MCSpecs ==
    [kind : Kinds, optional : MCOptions, limit : {256}, request : {0}, percent : {0}]
    \cup [kind : {"server"}, optional : {{}}, limit : {0, 256, 257, 1000},
          request : {0, 600}, percent : {0, 1, 26, 100}]

MCEntries ==
    {[name |-> n, value |-> 2, from |-> 0] :
        n \in {"EULA", "MINIKURA_API_KEY", "MEMORY", "PLUGINS"}}
    \cup {[name |-> n, value |-> 3, from |-> 2] : n \in {"MINIKURA_API_KEY", "MEMORY", "PLUGINS"}}

\* Up to three user variables.
MCExtras == UNION {[1 .. n -> MCEntries] : n \in 0 .. 3}

Users == INSTANCE UsersPage
Registry == INSTANCE RegistryPage
Graph == INSTANCE TopologyGraph

Manage == INSTANCE ManagePage WITH
    loading <- opening, error <- actionError, request <- calls, others <- writes

usersVars == <<db, users, session, dialog, pending, loading, sequence, task, tasks, changes, behind,
               missed, twice>>
registryVars == <<library, projects, source, selected, versions, artifacts, target, busy, request,
                  requests, searched, stored, overlap, failed, nothing>>
graphVars == <<input, show>>
manageVars == <<running, stable, pods, server, pod, opening, acting, actionError, calls, writes,
                failures, excused>>
consoleVars == <<part, error, vars, envVars, usersVars, registryVars, graphVars, manageVars>>

ConsoleInit ==
    /\ part \in {"form", "users", "registry", "graph", "env", "manage"}
    /\ error = FALSE
    /\ IF part = "form" THEN Init
       ELSE /\ kind = "new" /\ exists = FALSE /\ row = 0 /\ installed = {}
            /\ page = "closed" /\ form = 0 /\ picked = {} /\ list = "none" /\ seen = {}
            /\ saves = [s \in Save |-> [at |-> "idle"]] /\ touched = {} /\ edits = 0 /\ others = 0
    /\ IF part = "users" THEN Users!Init
       ELSE /\ db = [u \in User |-> Users!Gone] /\ users = db
            /\ session = FALSE /\ dialog = Users!Closed /\ pending = FALSE /\ loading = FALSE
            /\ sequence = 1 /\ task = [t \in Task |-> Users!Idle] /\ tasks = 0 /\ changes = 0
            /\ behind = FALSE /\ missed = FALSE /\ twice = FALSE
    /\ IF part = "registry" THEN Registry!Init
       ELSE /\ library = 0 /\ projects = {} /\ source = 0 /\ selected = "none"
            /\ versions = "none" /\ artifacts = 0 /\ target = FALSE /\ busy = FALSE
            /\ request = [r \in 1 .. MaxRequests |-> Registry!NoRequest] /\ requests = 0
            /\ searched = 0 /\ stored = {} /\ overlap = FALSE /\ failed = FALSE /\ nothing = FALSE
    /\ IF part = "graph" THEN Graph!Init
       ELSE input = 0 /\ show = 0
    /\ IF part = "env" THEN EnvInit
       ELSE spec = 0 /\ extra = <<>> /\ env = <<>> /\ index = {} /\ next = 1
    /\ IF part = "manage" THEN Manage!Init
       ELSE /\ running = FALSE /\ stable = FALSE /\ pods = <<>> /\ server = "unknown" /\ pod = 0
            /\ opening = FALSE /\ acting = FALSE /\ actionError = FALSE
            /\ calls = [r \in Manage!Place |-> Manage!Quiet] /\ writes = 0 /\ failures = 0
            /\ excused = FALSE

ConsoleNext ==
    /\ UNCHANGED part
    /\ \/ /\ part = "form" /\ Next
          /\ UNCHANGED <<error, usersVars, registryVars, graphVars, envVars, manageVars>>
       \/ /\ part = "users" /\ Users!Next
          /\ UNCHANGED <<vars, registryVars, graphVars, envVars, manageVars>>
       \/ /\ part = "registry" /\ Registry!Next
          /\ UNCHANGED <<vars, usersVars, graphVars, envVars, manageVars>>
       \/ /\ part = "graph" /\ Graph!Next
          /\ UNCHANGED <<error, vars, usersVars, registryVars, envVars, manageVars>>
       \/ /\ part = "env" /\ EnvNext
          /\ UNCHANGED <<error, vars, usersVars, registryVars, graphVars, manageVars>>
       \/ /\ part = "manage" /\ Manage!Next
          /\ UNCHANGED <<error, vars, usersVars, registryVars, graphVars, envVars>>

ConsoleSpec == ConsoleInit /\ [][ConsoleNext]_consoleVars
-----------------------------------------------------------------------------
\* The type of each part, and the properties of all of them.
ConsoleTypeOK ==
    CASE part = "form" -> TypeOK
      [] part = "users" -> Users!TypeOK
      [] part = "registry" -> Registry!TypeOK
      [] part = "graph" -> Graph!TypeOK
      [] part = "manage" -> Manage!TypeOK
      [] OTHER -> EnvTypeOK

PageIsSound == part = "users" => Users!PageIsSound
PanelIsSound == Registry!PanelIsSound
PictureIsWhole == part = "graph" => Graph!PictureIsWhole
OperationsAreTrue == part = "manage" => Manage!OperationsAreTrue
EnvironmentIsMeant == part = "env" => SaysWhatIsMeant
KeptRoleStays == Users!KeptRoleStays
=============================================================================
