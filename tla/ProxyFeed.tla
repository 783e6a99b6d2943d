----------------------------- MODULE ProxyFeed -----------------------------
(***************************************************************************)
(* How a Velocity proxy learns of the game servers: the backend's change   *)
(* feed (services/websocket.ts, the /servers/ws route, the event handlers  *)
(* that broadcast) and the plugin that fetches the list after every change *)
(* (Main.kt, MinikuraWebSocketClient.kt).  A row is a server and its       *)
(* address; both change.  Refreshes run on the proxy's scheduler, several   *)
(* at a time.  The plugin connects once and never again.                   *)
(***************************************************************************)
EXTENDS Naturals, FiniteSets

CONSTANTS
    Server,      \* ids of game servers
    Address,     \* their addresses
    Refresh,     \* bound: refreshes that run at the same time
    MaxChanges,  \* bound: changes of the rows
    MaxFailures  \* bound: failed calls, lost connections and restarts

Absent == "absent"
Table == [Server -> Address \cup {Absent}]
Empty == [s \in Server |-> Absent]

VARIABLES
    rows,       \* the Server rows
    events,     \* changes whose event has not been published yet
    link,       \* the plugin's connection: "none", "checking", "lost", "up", "closed"
    client,     \* it is in the set of clients
    feed,       \* messages on their way to the plugin
    tasks,      \* refreshes that have not begun
    refresh,    \* the others: step and answer
    registered, \* the servers registered at the proxy
    changes, failures,
    deaf,       \* history: a change went unheard since the rows were last read
    overlap,    \* history: the last refresh began while another was running
    failed      \* history: a refresh failed since the last one began

vars == <<rows, events, link, client, feed, tasks, refresh, registered, changes, failures,
          deaf, overlap, failed>>
backend == <<rows, events, changes>>
connection == <<link, client>>
history == <<deaf, overlap, failed>>

Idle == [at |-> "idle", answer |-> Empty]
Active == {r \in Refresh : refresh[r].at # "idle"}

\* The plugin starts: it connects, and fetches the list for the first time.
Init ==
    /\ rows \in Table
    /\ events = 0 /\ link = "none" /\ client = FALSE /\ feed = 0
    /\ tasks = 1 /\ refresh = [r \in Refresh |-> Idle]
    /\ registered = Empty
    /\ changes = 0 /\ failures = 0
    /\ deaf = FALSE /\ overlap = FALSE /\ failed = FALSE

-----------------------------------------------------------------------------
(* The backend.                                                             *)

\* A server is created, updated or deleted.
Change(s, a) ==
    /\ changes < MaxChanges /\ a # rows[s]
    /\ changes' = changes + 1
    /\ rows' = [rows EXCEPT ![s] = a]
    /\ events' = events + 1
    /\ UNCHANGED <<connection, feed, tasks, refresh, registered, failures, history>>

\* Mutant: a broadcast takes its clients out of the set.
Broadcast_Once ==
    /\ events > 0
    /\ events' = events - 1
    /\ feed' = IF client /\ link = "up" THEN feed + 1 ELSE feed
    /\ deaf' = (deaf \/ ~(client /\ link = "up"))
    /\ client' = FALSE
    /\ UNCHANGED <<rows, link, tasks, refresh, registered, changes, failures, overlap, failed>>

\* The event handler sends to every client, and forgets those it cannot reach.
Broadcast ==
    /\ events > 0
    /\ events' = events - 1
    /\ feed' = IF client /\ link = "up" THEN feed + 1 ELSE feed
    /\ deaf' = (deaf \/ ~(client /\ link = "up"))
    /\ client' = (client /\ link = "up")
    /\ UNCHANGED <<rows, link, tasks, refresh, registered, changes, failures, overlap, failed>>

Connect ==
    /\ link = "none"
    /\ link' = "checking"
    /\ UNCHANGED <<backend, client, feed, tasks, refresh, registered, failures, history>>

\* The open handler has looked up the key of a connection that may be closed.  A
\* key that is no proxy's (any more) closes it.
Join ==
    /\ link \in {"checking", "lost"}
    /\ \/ /\ link' = IF link = "checking" THEN "up" ELSE "closed"
          /\ client' = TRUE
       \/ /\ link' = "closed"
          /\ UNCHANGED client
    /\ UNCHANGED <<backend, feed, tasks, refresh, registered, failures, history>>

\* The close handler; messages on their way are lost.
Disconnect ==
    /\ failures < MaxFailures /\ link \in {"none", "checking", "up"}
    /\ failures' = failures + 1
    /\ link' = IF link = "checking" THEN "lost" ELSE "closed"
    /\ client' = FALSE
    /\ feed' = 0 /\ deaf' = (deaf \/ feed > 0)
    /\ UNCHANGED <<backend, tasks, refresh, registered, overlap, failed>>

\* The backend restarts: its clients and the events not yet published are gone.
Restart ==
    /\ failures < MaxFailures
    /\ failures' = failures + 1
    /\ events' = 0 /\ client' = FALSE /\ feed' = 0
    /\ link' = IF link = "none" THEN "none" ELSE "closed"
    /\ deaf' = (deaf \/ events > 0 \/ feed > 0)
    /\ UNCHANGED <<rows, tasks, refresh, registered, changes, overlap, failed>>

-----------------------------------------------------------------------------
(* The plugin.                                                              *)

\* Mutant: onMessage and the event it fires both schedule a refresh.
Hear_Twice ==
    /\ feed > 0
    /\ feed' = feed - 1 /\ tasks' = tasks + 2
    /\ UNCHANGED <<backend, connection, refresh, registered, failures, history>>

\* onMessage: every action schedules a refresh.
Hear ==
    /\ feed > 0
    /\ feed' = feed - 1 /\ tasks' = tasks + 1
    /\ UNCHANGED <<backend, connection, refresh, registered, failures, history>>

\* Mutant: the servers registered before are kept.
BeginRefresh_Keep(r) ==
    /\ tasks > 0 /\ refresh[r].at = "idle"
    /\ tasks' = tasks - 1
    /\ refresh' = [refresh EXCEPT ![r].at = "asking"]
    /\ overlap' = (Active # {}) /\ failed' = FALSE
    /\ UNCHANGED <<backend, connection, feed, registered, failures, deaf>>

\* fetchServers unregisters everything, then asks.
BeginRefresh(r) ==
    /\ tasks > 0 /\ refresh[r].at = "idle"
    /\ tasks' = tasks - 1
    /\ registered' = Empty
    /\ refresh' = [refresh EXCEPT ![r].at = "asking"]
    /\ overlap' = (Active # {}) /\ failed' = FALSE
    /\ UNCHANGED <<backend, connection, feed, failures, deaf>>

\* GET /plugin/servers
Answer(r) ==
    /\ refresh[r].at = "asking"
    /\ refresh' = [refresh EXCEPT ![r] = [at |-> "answered", answer |-> rows]]
    /\ deaf' = FALSE
    /\ UNCHANGED <<backend, connection, feed, tasks, registered, failures, overlap, failed>>

\* The call fails or is refused, and nothing is registered again.
FailRefresh(r) ==
    /\ failures < MaxFailures /\ refresh[r].at = "asking"
    /\ failures' = failures + 1
    /\ refresh' = [refresh EXCEPT ![r] = Idle]
    /\ failed' = TRUE
    /\ UNCHANGED <<backend, connection, feed, tasks, registered, deaf, overlap>>

\* populateServers registers one server after the other.  Registering a name
\* with another address throws, and the servers after it are left out: with done
\* the ones before it.
Populate(r) ==
    LET answer == refresh[r].answer
        wanted == {s \in Server : answer[s] # Absent}
        taken == {s \in wanted : registered[s] \notin {Absent, answer[s]}} IN
    /\ refresh[r].at = "answered"
    /\ \E done \in SUBSET (wanted \ taken) :
        /\ taken = {} => done = wanted
        /\ registered' = [s \in Server |-> IF s \in done THEN answer[s] ELSE registered[s]]
    /\ refresh' = [refresh EXCEPT ![r] = Idle]
    /\ UNCHANGED <<backend, connection, feed, tasks, failures, history>>

Next ==
    \/ \E s \in Server, a \in Address \cup {Absent} : Change(s, a)
    \/ Broadcast \/ Connect \/ Join \/ Disconnect \/ Restart \/ Hear
    \/ \E r \in Refresh : BeginRefresh(r) \/ Answer(r) \/ FailRefresh(r) \/ Populate(r)

Spec == Init /\ [][Next]_vars

\* The handlers of both sides run, and calls are answered.
Fairness ==
    /\ WF_vars(Broadcast) /\ WF_vars(Connect) /\ WF_vars(Join) /\ WF_vars(Hear)
    /\ \A r \in Refresh :
        WF_vars(BeginRefresh(r) \/ Answer(r) \/ FailRefresh(r) \/ Populate(r))
FairSpec == Spec /\ Fairness
-----------------------------------------------------------------------------
(* Properties.                                                              *)

\* The type of the state.
TypeOK ==
    /\ rows \in Table /\ registered \in Table
    /\ events \in 0 .. MaxChanges /\ feed \in 0 .. MaxChanges
    /\ link \in {"none", "checking", "lost", "up", "closed"}
    /\ client \in BOOLEAN
    /\ tasks \in 0 .. MaxChanges + 1
    /\ refresh \in [Refresh -> [at : {"idle", "asking", "answered"}, answer : Table]]
    /\ changes \in 0 .. MaxChanges /\ failures \in 0 .. MaxFailures
    /\ deaf \in BOOLEAN /\ overlap \in BOOLEAN /\ failed \in BOOLEAN

\* The proxy ends up with the servers of the database at their addresses, or for
\* one of three reasons: a change it was not told of since it last read the rows,
\* a failed refresh, or a last refresh that began during another.
ListSettles == <>[](registered = rows \/ deaf \/ failed \/ overlap)

\* A plugin that has joined hears of every change for as long as the connection
\* lasts: the set of clients never loses one that is there.
HearsWhileConnected == [][link = "up" /\ link' = "up" => (deaf' => deaf)]_vars
=============================================================================
