----------------------------- MODULE ManagePage -----------------------------
(***************************************************************************)
(* The page of one server's operations (app/dashboard/servers/manage/[id]): *)
(* what it shows of the row and of the pods, its buttons, and the actions   *)
(* behind them (routes/servers.ts): start and stop write the row, restart   *)
(* deletes the pods or starts a server that is stopped.  Another            *)
(* administrator writes the row too, and the operator makes and removes the *)
(* pods.  The button "Refresh" works beside everything but an action that   *)
(* is already under way, and an action may begin while it is answered.      *)
(***************************************************************************)
EXTENDS Naturals

CONSTANTS
    Refresh,    \* refreshes under way at a time
    MaxPods,    \* bound: pods ever made
    MaxOthers,  \* bound: writes of another administrator
    MaxFailures \* bound: calls that fail

VARIABLES
    running,    \* the column of the row
    stable,     \* whether pods keep their name (a StatefulSet) or not (a Deployment)
    pods,       \* of every pod that is ever made: "unmade", "up", "leaving", "gone"
    server,     \* what the page has of the row: "unknown", "running", "stopped"
    pod,        \* and of the pods: the one it shows, or 0
    loading, acting, error,
    request,    \* what is under way in each place
    others, failures,
    excused     \* history: another's write, a failed call or overlapping requests
                \* since the last undisturbed reading

vars == <<running, stable, pods, server, pod, loading, acting, error, request, others, failures, excused>>
page == <<server, pod, loading, acting, error>>
world == <<running, stable, pods>>

Pod == 1 .. MaxPods
Place == {"first", "action"} \cup Refresh
Listed == {p \in Pod : pods[p] \in {"up", "leaving"}}
Up == {p \in Pod : pods[p] = "up"}
Word(b) == IF b THEN "running" ELSE "stopped"

\* A request: at "called" its action is on its way, at "listed" a restart holds a list of
\* pods, at "reading" the row and the pods are read.  History: the pod that was clicked for,
\* and whether nothing disturbed it, before (`sure`) and meanwhile (`clean`).
Quiet == [at |-> "none", kind |-> "none", list |-> {}, left |-> {}, server |-> "unknown", pod |-> 0,
          clicked |-> 0, sure |-> FALSE, clean |-> FALSE]

Active == {r \in Place : request[r].at # "none"}
Disturbed == [r \in Place |-> [request[r] EXCEPT !.clean = FALSE]]
Opened(r, at, kind) ==
    [q \in Place |->
        IF q = r THEN [Quiet EXCEPT !.at = at, !.kind = kind, !.left = {"server", "pods"}, !.clicked = pod,
                                    !.sure = ~excused, !.clean = (Active = {})]
        ELSE [request[q] EXCEPT !.clean = FALSE]]

\* The effect has asked for both.
Init ==
    /\ running \in BOOLEAN /\ stable \in BOOLEAN
    /\ pods = [p \in Pod |-> IF p = 1 /\ running THEN "up" ELSE "unmade"]
    /\ server = "unknown" /\ pod = 0 /\ loading = TRUE /\ acting = FALSE /\ error = FALSE
    /\ request = [r \in Place |-> IF r = "first" THEN [Quiet EXCEPT !.at = "reading", !.kind = "first",
                                      !.left = {"server", "pods"}, !.clean = TRUE] ELSE Quiet]
    /\ others = 0 /\ failures = 0 /\ excused = FALSE

-----------------------------------------------------------------------------
(* Around the page.                                                         *)

\* Another administrator starts or stops the server.
Other ==
    /\ others < MaxOthers
    /\ others' = others + 1
    /\ running' = ~running
    /\ excused' = TRUE /\ request' = Disturbed
    /\ UNCHANGED <<stable, pods, page, failures>>

\* The operator's workload makes a pod.
PodComes ==
    /\ running /\ Up = {} /\ (stable => Listed = {})
    /\ \E p \in Pod :
        /\ pods[p] = "unmade" /\ \A q \in 1 .. p - 1 : pods[q] # "unmade"
        /\ pods' = [pods EXCEPT ![p] = "up"]
    /\ UNCHANGED <<running, stable, page, request, others, failures, excused>>

\* A stopped server's pod is told to go, and a pod that was told goes.
PodLeaves ==
    /\ \E p \in Pod :
        \/ ~running /\ pods[p] = "up" /\ pods' = [pods EXCEPT ![p] = "leaving"]
        \/ pods[p] = "leaving" /\ pods' = [pods EXCEPT ![p] = "gone"]
    /\ UNCHANGED <<running, stable, page, request, others, failures, excused>>

-----------------------------------------------------------------------------
(* The buttons.                                                             *)

ShowsServer == ~loading /\ server # "unknown"

Offered(kind) ==
    \/ server = "running" /\ kind = "stop"
    \/ server = "stopped" /\ kind = "start"
    \/ server = "running" /\ kind = "restart" /\ pod # 0

Click(kind) ==
    /\ ShowsServer /\ ~acting /\ Offered(kind)
    /\ acting' = TRUE /\ error' = FALSE
    /\ request' = Opened("action", "called", kind)
    /\ excused' = (excused \/ Active # {})
    /\ UNCHANGED <<world, server, pod, loading, others, failures>>

\* "Refresh" is disabled during an action, not during another refresh.
ClickRefresh(r) ==
    /\ ShowsServer /\ ~acting /\ request[r].at = "none"
    /\ request' = Opened(r, "reading", "refresh")
    /\ excused' = (excused \/ Active # {})
    /\ UNCHANGED <<world, page, others, failures>>

-----------------------------------------------------------------------------
(* The backend's side of an action.                                         *)

Step(kind) == request["action"].at = "called" /\ request["action"].kind = kind
To(at) == request' = [request EXCEPT !["action"].at = at]

StartStop ==
    /\ Step("start") \/ Step("stop")
    /\ running' = (request["action"].kind = "start")
    /\ To("reading")
    /\ UNCHANGED <<stable, pods, page, others, failures, excused>>

\* Mutant: the test of the row is turned round.
LookUp_Inverted ==
    /\ Step("restart")
    /\ IF running
       THEN running' = TRUE /\ To("reading")
       ELSE UNCHANGED running /\ request' = [request EXCEPT !["action"].at = "listed", !["action"].list = Listed]
    /\ UNCHANGED <<stable, pods, page, others, failures, excused>>

\* A restart looks at the row: a stopped server is started, of one that runs the
\* pods are listed.
LookUp ==
    /\ Step("restart")
    /\ IF ~running
       THEN running' = TRUE /\ To("reading")
       ELSE UNCHANGED running /\ request' = [request EXCEPT !["action"].at = "listed", !["action"].list = Listed]
    /\ UNCHANGED <<stable, pods, page, others, failures, excused>>

\* A request ends badly: the action's and the first one's failure is shown, that of a
\* refresh is nobody's.
Refused(r) ==
    /\ request' = [request EXCEPT ![r] = Quiet]
    /\ error' = (error \/ r \notin Refresh)
    /\ acting' = (acting /\ r # "action")
    /\ loading' = (loading /\ r # "first")
    /\ excused' = TRUE
    /\ UNCHANGED <<server, pod>>

\* The listed pods are deleted by name, all at once.  One that is gone refuses, unless
\* a new one has its name.
DeletePods ==
    /\ request["action"].at = "listed"
    /\ LET list == request["action"].list
           missing == list \ Listed
           renamed == IF stable /\ missing # {} THEN Listed ELSE {} IN
        /\ pods' = [p \in Pod |-> IF p \in (list \cap Listed) \cup renamed THEN "leaving" ELSE pods[p]]
        /\ IF missing = {} \/ renamed # {}
           THEN To("reading") /\ UNCHANGED <<page, excused>>
           ELSE Refused("action")
    /\ UNCHANGED <<running, stable, others, failures>>

\* A call fails: the action's own, or one of the two that read.
Fail(r) ==
    /\ request[r].at # "none" /\ failures < MaxFailures
    /\ failures' = failures + 1
    /\ Refused(r)
    /\ UNCHANGED <<world, others>>

-----------------------------------------------------------------------------
(* What is read and shown.                                                  *)

\* The row and the pods are read each at its moment; of the pods the page takes a
\* running one.
Read(r) ==
    /\ request[r].at = "reading"
    /\ \/ /\ "server" \in request[r].left
          /\ request' = [request EXCEPT ![r].left = @ \ {"server"}, ![r].server = Word(running)]
       \/ /\ "pods" \in request[r].left
          /\ \E p \in (IF Listed = {} THEN {0} ELSE Listed) :
                request' = [request EXCEPT ![r].left = @ \ {"pods"}, ![r].pod = p]
    /\ UNCHANGED <<world, page, others, failures, excused>>

\* Mutant: an action ends without reading anything again.
Shown_NotOfActions(r) ==
    IF r = "action" THEN UNCHANGED <<server, pod>>
    ELSE server' = request[r].server /\ pod' = request[r].pod

Shown(r) == server' = request[r].server /\ pod' = request[r].pod

\* Both are there.
End(r) ==
    /\ request[r].at = "reading" /\ request[r].left = {}
    /\ Shown(r)
    /\ loading' = (loading /\ r # "first")
    /\ acting' = (acting /\ r # "action")
    /\ excused' = ~request[r].clean
    /\ request' = [request EXCEPT ![r] = Quiet]
    /\ UNCHANGED <<world, error, others, failures>>

Backend == StartStop \/ LookUp \/ DeletePods

Next ==
    \/ Other \/ PodComes \/ PodLeaves
    \/ \E kind \in {"start", "stop", "restart"} : Click(kind)
    \/ \E r \in Refresh : ClickRefresh(r)
    \/ Backend
    \/ \E r \in Place : Fail(r) \/ Read(r) \/ End(r)

Spec == Init /\ [][Next]_vars
-----------------------------------------------------------------------------
(* Properties.                                                              *)

\* The type of the state.
TypeOK ==
    /\ pods \in [Pod -> {"unmade", "up", "leaving", "gone"}]
    /\ server \in {"unknown", "running", "stopped"} /\ pod \in 0 .. MaxPods
    /\ request \in [Place -> [at : {"none", "called", "listed", "reading"},
            kind : {"none", "first", "refresh", "start", "stop", "restart"}, list : SUBSET Pod,
            left : SUBSET {"server", "pods"}, server : {"unknown", "running", "stopped"},
            pod : 0 .. MaxPods, clicked : 0 .. MaxPods, sure : BOOLEAN, clean : BOOLEAN]]
    /\ others \in 0 .. MaxOthers /\ failures \in 0 .. MaxFailures
    /\ {running, stable, loading, acting, error, excused} \subseteq BOOLEAN

\* At rest every button can be used, and the page says of the server what its row says
\* unless another administrator, a failure or overlapping requests came between.
PageIsTrue ==
    Active = {} =>
        /\ ~acting /\ ~loading
        /\ ~excused /\ ShowsServer => server = Word(running)

\* A restart that was clicked for a pod the page rightly showed, and that nobody
\* disturbed, has told that pod to go once it is accepted.  One that another's stop
\* came before may only start the server again, and leave the pod as it is.
RestartReplaces ==
    LET a == request["action"] IN
    a.at = "reading" /\ a.kind = "restart" /\ a.sure /\ a.clean => pods[a.clicked] \in {"leaving", "gone"}

\* The two together (page.tsx, 58 to 105).
OperationsAreTrue == PageIsTrue /\ RestartReplaces
=============================================================================
