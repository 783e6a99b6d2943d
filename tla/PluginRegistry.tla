--------------------------- MODULE PluginRegistry ---------------------------
(***************************************************************************)
(* The plugin library of the backend: services/plugin-registry.ts and the *)
(* routes that call it.  A plugin artifact is a row of PluginArtifact: a   *)
(* release of a public provider, of which only the address is kept, or an  *)
(* uploaded JAR, whose bytes are an object of an S3 bucket named by their  *)
(* hash.  ServerPlugin rows say which artifact is installed on which       *)
(* server, and the synchronization publishes them in the server's custom   *)
(* resource.                                                               *)
(*                                                                         *)
(* One action is the code between two awaits.  A transaction is its first *)
(* statement (Statement: the deleteMany, which sees the rows committed by  *)
(* then and locks them) and its second one with the commit (Commit).       *)
(***************************************************************************)
EXTENDS Naturals, FiniteSets

CONSTANTS
    Server,     \* ids of game servers
    Upload,     \* uploaded artifacts, by their unique key: a JAR and a file name
    Release,    \* provider releases, by their unique key
    Project,    \* the provider's projects, and the hashes of JARs
    ProjectOf,  \* provider_project_id: of an upload it is the hash of the JAR
    Request,    \* HTTP requests
    MaxRows,    \* bound: artifact rows ever created
    MaxFailures \* bound: calls that fail

Key == Upload \cup Release

ASSUME RegistryAssumption ==
    /\ Upload \cap Release = {}
    /\ ProjectOf \in [Key -> Project]
    /\ MaxRows \in Nat \ {0} /\ MaxFailures \in Nat

\* No JAR is in the library under two names, and no provider project has a
\* hash for a name.  The code checks neither.
DistinctJars ==
    \A k \in Upload, l \in Key : ProjectOf[k] = ProjectOf[l] => k = l

Row == Key \X (1 .. MaxRows)    \* a row of PluginArtifact: its key and its id
Installation == Server \X Row   \* a row of ServerPlugin
Jar == {ProjectOf[k] : k \in Upload}

VARIABLES
    library,   \* the PluginArtifact rows
    created,   \* number of rows created so far
    store,     \* the objects in the bucket, by hash
    servers,   \* the Server rows
    installed, \* the ServerPlugin rows
    published, \* by server: the artifacts its custom resource lists
    req,       \* what each request does next
    cycle,     \* the timer's synchronization: servers to write, and the list read
    failures,  \* number of failed calls so far
    marred,    \* history: JARs on which two requests overlapped or one failed
    mixed      \* history: servers on which two transactions overlapped, or to
               \* which two versions of a project were assigned on purpose

vars == <<library, created, store, servers, installed, published, req, cycle,
          failures, marred, mixed>>
ghosts == <<failures, marred, mixed>>

Ops == {"upload", "register", "install", "deploy", "assign", "delete", "list"}
Idle == [at |-> "idle", op |-> "list", server |-> {}, rows |-> {}, keys |-> {},
         doomed |-> {}, stale |-> {}, seen |-> {}]
Done == [Idle EXCEPT !.at = "done"]
Publish(ss) == IF ss = {} THEN Done ELSE [Idle EXCEPT !.at = "sync", !.stale = ss]
NoCycle == [todo |-> {}, seen |-> {}]

Plugins(s) == {x \in Row : <<s, x>> \in installed}
RowOf(k) == {x \in library : x[1] = k}
SameProject(x, y) == ProjectOf[x[1]] = ProjectOf[y[1]] /\ (x[1] \in Upload <=> y[1] \in Upload)

\* Every row of the library may be installed, every upload has its object.
Init ==
    /\ \E keys \in SUBSET Key :
        /\ library = {<<k, 1>> : k \in keys}
        /\ store = {ProjectOf[k] : k \in keys \cap Upload}
    /\ created = 1
    /\ servers = Server
    /\ installed \in SUBSET (Server \X library)
    /\ \A s \in Server : \A x, y \in Plugins(s) : SameProject(x, y) => x = y
    /\ published = [s \in Server |-> Plugins(s)]
    /\ req = [r \in Request |-> Idle]
    /\ cycle = NoCycle
    /\ failures = 0
    /\ marred = {}
    /\ mixed = {}

-----------------------------------------------------------------------------
(* Requests.  A request acts on a JAR from its first call to its commit.    *)

InTransaction(j) == j.at = "commit"
JarsOf(j) ==
    IF j.op \in {"upload", "delete"} /\ j.at \in {"put", "upsert", "object", "statement", "commit"}
    THEN {ProjectOf[k] : k \in j.keys \cap Upload}
    ELSE {}

Begin(r, job) ==
    /\ req[r].at = "idle"
    /\ req' = [req EXCEPT ![r] = job]
    /\ marred' = marred \cup {c \in JarsOf(job) : \E q \in Request : c \in JarsOf(req[q])}
    /\ UNCHANGED <<library, created, store, servers, installed, published, cycle, failures, mixed>>

\* POST /artifacts/upload with a JAR of acceptable size.
BeginUpload(r, k) == Begin(r, [Idle EXCEPT !.at = "put", !.op = "upload", !.keys = {k}])

\* POST /artifacts: the release is downloaded to hash it, and nothing is read.
BeginRegister(r, k) == Begin(r, [Idle EXCEPT !.at = "upsert", !.op = "register", !.keys = {k}])

\* POST /servers/:id/plugins: register, then deploy.
BeginInstall(r, s, k) ==
    Begin(r, [Idle EXCEPT !.at = "upsert", !.op = "install", !.server = {s}, !.keys = {k}])

\* POST /servers/:id/deployments/:artifactId
BeginDeploy(r, s, x) ==
    Begin(r, [Idle EXCEPT !.at = "check", !.op = "deploy", !.server = {s}, !.rows = {x}])

\* PUT /servers/:id/plugins: exactly these artifacts.
BeginAssign(r, s, xs) ==
    Begin(r, [Idle EXCEPT !.at = "check", !.op = "assign", !.server = {s}, !.rows = xs])

\* DELETE /library/:artifactId reads the row and the servers it is installed on.
BeginDelete(r, x) ==
    /\ x \in library
    /\ Begin(r, [Idle EXCEPT !.at = IF x[1] \in Upload THEN "object" ELSE "statement",
                             !.op = "delete", !.rows = {x}, !.keys = {x[1]},
                             !.stale = {s \in Server : <<s, x>> \in installed}])

\* GET /artifacts fills in the metadata that provider rows lack.
BeginList(r, xs) ==
    /\ xs # {} /\ xs \subseteq {x \in library : x[1] \in Release}
    /\ Begin(r, [Idle EXCEPT !.at = "backfill", !.op = "list", !.rows = xs])

\* Mutant: the metadata is upserted, so a row that is gone comes back.
Backfill_Upsert(r) ==
    /\ req[r].at = "backfill"
    /\ \E x \in req[r].rows :
        /\ req' = [req EXCEPT ![r] = IF @.rows = {x} THEN Done ELSE [@ EXCEPT !.rows = @ \ {x}]]
        /\ library' = IF RowOf(x[1]) = {} THEN library \cup {x} ELSE library
    /\ UNCHANGED <<created, store, servers, installed, published, cycle, ghosts>>

\* The project is fetched and the row updated; a row that is gone is an error
\* nobody waits for.  Metadata is not part of the state.
Backfill(r) ==
    LET j == req[r] IN
    /\ j.at = "backfill"
    /\ \E x \in j.rows :
        req' = [req EXCEPT ![r] = IF j.rows = {x} THEN Done ELSE [j EXCEPT !.rows = j.rows \ {x}]]
    /\ UNCHANGED <<library, created, store, servers, installed, published, cycle, ghosts>>

PutObject(r) ==
    /\ req[r].at = "put"
    /\ store' = store \cup {ProjectOf[k] : k \in req[r].keys}
    /\ req' = [req EXCEPT ![r].at = "upsert"]
    /\ UNCHANGED <<library, created, servers, installed, published, cycle, ghosts>>

\* The unique key finds the row or a new one is created.
Upsert(r) ==
    /\ req[r].at = "upsert"
    /\ \E k \in req[r].keys :
        /\ IF RowOf(k) # {}
           THEN UNCHANGED <<library, created>>
           ELSE /\ created < MaxRows
                /\ created' = created + 1
                /\ library' = library \cup {<<k, created + 1>>}
        /\ req' = [req EXCEPT ![r] =
             IF @.op = "install"
             THEN [@ EXCEPT !.at = "check", !.rows = {x \in library' : x[1] = k}]
             ELSE Done]
    /\ UNCHANGED <<store, servers, installed, published, cycle, ghosts>>

\* Mutant: the object stays in the bucket.
DeleteObject_Skipped(r) ==
    /\ req[r].at = "object"
    /\ req' = [req EXCEPT ![r].at = "statement"]
    /\ UNCHANGED <<library, created, store, servers, installed, published, cycle, ghosts>>

DeleteObject(r) ==
    /\ req[r].at = "object"
    /\ store' = store \ {ProjectOf[k] : k \in req[r].keys}
    /\ req' = [req EXCEPT ![r].at = "statement"]
    /\ UNCHANGED <<library, created, servers, installed, published, cycle, ghosts>>

\* deploy and reconcile look the server and the artifacts up first.
Check(r) ==
    /\ req[r].at = "check"
    /\ req' = [req EXCEPT ![r] = IF @.server \subseteq servers /\ @.rows \subseteq library
                                 THEN [@ EXCEPT !.at = "statement"] ELSE Done]
    /\ UNCHANGED <<library, created, store, servers, installed, published, cycle, ghosts>>

\* Mutant: deploy leaves the other versions of the project installed.
Doomed_OtherVersionsStay(j) ==
    {p \in installed :
        \/ j.op = "assign" /\ p[1] \in j.server /\ p[2] \notin j.rows
        \/ j.op = "delete" /\ p[2] \in j.rows}

\* The installations the deleteMany of each transaction removes: other versions
\* of the project, artifacts not in the list, the artifact everywhere.
Doomed(j) ==
    {p \in installed :
        \/ /\ j.op \in {"deploy", "install"}
           /\ p[1] \in j.server
           /\ \E x \in j.rows : x # p[2] /\ SameProject(x, p[2])
        \/ j.op = "assign" /\ p[1] \in j.server /\ p[2] \notin j.rows
        \/ j.op = "delete" /\ p[2] \in j.rows}

Locked(r, ps) == \E q \in Request \ {r} : InTransaction(req[q]) /\ req[q].doomed \cap ps # {}

Statement(r) ==
    LET j == req[r] IN
    /\ j.at = "statement"
    /\ ~Locked(r, Doomed(j))
    /\ req' = [req EXCEPT ![r].at = "commit", ![r].doomed = Doomed(j)]
    /\ mixed' = mixed
         \cup {s \in j.server : \E q \in Request : InTransaction(req[q]) /\ s \in req[q].server}
         \cup {s \in j.server : \E x, y \in j.rows : x # y /\ SameProject(x, y)}
    /\ UNCHANGED <<library, created, store, servers, installed, published, cycle, failures, marred>>

\* Mutant: the foreign key does not restrict the deletion of an artifact.
Committable_NoRestrict(j) == j.server \subseteq servers /\ j.rows \subseteq library

\* What the database demands of the rest of the transaction: the rows referred
\* to exist, and nothing refers to a row that is deleted.
Committable(j) ==
    /\ j.server \subseteq servers
    /\ j.rows \subseteq library
    /\ j.op = "delete" => \A p \in installed \ j.doomed : p[2] \notin j.rows

Commit(r) ==
    LET j == req[r] IN
    /\ j.at = "commit"
    /\ Committable(j)
    /\ ~Locked(r, j.server \X j.rows)
    /\ installed' = (installed \ j.doomed) \cup (j.server \X j.rows)
    /\ library' = IF j.op = "delete" THEN library \ j.rows ELSE library
    /\ req' = [req EXCEPT ![r] = Publish(IF j.op = "delete" THEN j.stale ELSE j.server)]
    /\ UNCHANGED <<created, store, servers, published, cycle, ghosts>>

\* The transaction is rolled back: by a constraint, or as the victim of a
\* deadlock, which here may strike any transaction that waits for a lock.
RollBack(r) ==
    LET j == req[r] IN
    /\ j.at = "commit"
    /\ ~Committable(j) \/ Locked(r, j.server \X j.rows)
    /\ req' = [req EXCEPT ![r] = Done]
    /\ marred' = marred \cup JarsOf(j)
    /\ UNCHANGED <<library, created, store, servers, installed, published, cycle, failures, mixed>>

\* DELETE /servers/:id/installations/:installationId is one statement.
Remove(r, p) ==
    /\ req[r].at = "idle"
    /\ p \in installed
    /\ ~Locked(r, {p})
    /\ installed' = installed \ {p}
    /\ req' = [req EXCEPT ![r] = Publish({p[1]})]
    /\ UNCHANGED <<library, created, store, servers, published, cycle, ghosts>>

\* A request is over when none of its synchronizations is under way.
Syncing(j) == IF j.stale \cup j.server = {} THEN Done ELSE j

\* syncServerById of each server, all at once: read the row, ...
SyncRead(r) ==
    LET j == req[r] IN
    /\ j.at = "sync"
    /\ \E s \in j.stale :
        req' = [req EXCEPT ![r] =
            [j EXCEPT !.stale = j.stale \ {s}, !.server = j.server \cup {s},
                      !.seen = j.seen \cup {p \in installed : p[1] = s}]]
    /\ UNCHANGED <<library, created, store, servers, installed, published, cycle, ghosts>>

\* The synchronization of a server has ended.
Synced(j, s) ==
    Syncing([j EXCEPT !.stale = j.stale \ {s}, !.server = j.server \ {s},
                      !.seen = {p \in j.seen : p[1] # s}])

\* ... then write the resource.
SyncWrite(r) ==
    LET j == req[r] IN
    /\ j.at = "sync"
    /\ \E s \in j.server :
        /\ published' = [published EXCEPT ![s] = {x \in Row : <<s, x>> \in j.seen}]
        /\ req' = [req EXCEPT ![r] = Synced(j, s)]
    /\ UNCHANGED <<library, created, store, servers, installed, cycle, ghosts>>

\* One of the synchronizations fails; the others go on.
LoseSync(r) ==
    LET j == req[r] IN
    /\ failures < MaxFailures
    /\ j.at = "sync"
    /\ failures' = failures + 1
    /\ \E s \in j.stale \cup j.server : req' = [req EXCEPT ![r] = Synced(j, s)]
    /\ UNCHANGED <<library, created, store, servers, installed, published, cycle, marred, mixed>>

Waiting == {"put", "upsert", "object", "check", "statement", "commit", "backfill"}

\* A call fails and the request with it; a transaction is rolled back.
Fail(r) ==
    /\ failures < MaxFailures
    /\ req[r].at \in Waiting
    /\ failures' = failures + 1
    /\ marred' = marred \cup JarsOf(req[r])
    /\ req' = [req EXCEPT ![r] = Done]
    /\ UNCHANGED <<library, created, store, servers, installed, published, cycle, mixed>>

-----------------------------------------------------------------------------
(* The timer's synchronization, and the deletion of a server.               *)

\* Mutant: only servers with plugins are written.
CycleLoad_WithPlugins ==
    /\ cycle.todo = {}
    /\ cycle' = [todo |-> {s \in servers : Plugins(s) # {}}, seen |-> installed]
    /\ UNCHANGED <<library, created, store, servers, installed, published, req, ghosts>>

CycleLoad ==
    /\ cycle.todo = {}
    /\ cycle' = [todo |-> servers, seen |-> installed]
    /\ UNCHANGED <<library, created, store, servers, installed, published, req, ghosts>>

CycleWrite ==
    /\ \E s \in cycle.todo :
        /\ published' = [published EXCEPT ![s] = {x \in Row : <<s, x>> \in cycle.seen}]
        /\ cycle' = [todo |-> cycle.todo \ {s},
                     seen |-> {p \in cycle.seen : p[1] # s}]
    /\ UNCHANGED <<library, created, store, servers, installed, req, ghosts>>

\* The foreign key of ServerPlugin cascades.
DeleteServer(s) ==
    /\ s \in servers
    /\ \A r \in Request : ~Locked(r, {p \in installed : p[1] = s})
    /\ servers' = servers \ {s}
    /\ installed' = {p \in installed : p[1] # s}
    /\ UNCHANGED <<library, created, store, published, req, cycle, ghosts>>

Starts(r) ==
    \/ \E k \in Upload : BeginUpload(r, k)
    \/ \E k \in Release : BeginRegister(r, k)
    \/ \E s \in Server, k \in Release : BeginInstall(r, s, k)
    \/ \E s \in Server, x \in library : BeginDeploy(r, s, x)
    \/ \E s \in Server, xs \in SUBSET library : BeginAssign(r, s, xs)
    \/ \E x \in library : BeginDelete(r, x)
    \/ \E xs \in SUBSET library : BeginList(r, xs)
    \/ \E p \in installed : Remove(r, p)

Step(r) ==
    \/ Backfill(r) \/ PutObject(r) \/ Upsert(r) \/ DeleteObject(r)
    \/ Check(r) \/ Statement(r) \/ Commit(r) \/ RollBack(r)
    \/ SyncRead(r) \/ SyncWrite(r)

Next ==
    \/ \E r \in Request : Starts(r) \/ Step(r) \/ Fail(r) \/ LoseSync(r)
    \/ CycleLoad
    \/ CycleWrite
    \/ \E s \in Server : DeleteServer(s)

Spec == Init /\ [][Next]_vars

\* Awaited calls are answered or fail, and the timer fires.
Fairness == (\A r \in Request : WF_vars(Step(r))) /\ WF_vars(CycleLoad) /\ WF_vars(CycleWrite)
FairSpec == Spec /\ Fairness
-----------------------------------------------------------------------------
(* Properties.                                                              *)

JobType ==
    [at : Waiting \cup {"idle", "sync", "done"}, op : Ops, server : SUBSET Server, rows : SUBSET Row,
     keys : SUBSET Key, doomed : SUBSET Installation, stale : SUBSET Server, seen : SUBSET Installation]

\* The type of the state, with the unique key of the artifacts and the foreign
\* keys of the installations.
TypeOK ==
    /\ library \subseteq Row
    /\ created \in Nat
    /\ store \subseteq Jar
    /\ servers \subseteq Server
    /\ installed \subseteq servers \X library
    /\ published \in [Server -> SUBSET Row]
    /\ req \in [Request -> JobType]
    /\ cycle \in [todo : SUBSET Server, seen : SUBSET Installation]
    /\ failures \in Nat
    /\ marred \subseteq Jar
    /\ mixed \subseteq Server
    /\ \A x, y \in library : x[1] = y[1] => x = y

\* The bucket and the library agree about every JAR: an artifact has its
\* content and content has its artifact, unless a request on the JAR is under
\* way, failed half-way, or overlapped another one (upload stores first,
\* deleteArtifact deletes the object first; neither knows of the other).
StoreMatchesLibrary ==
    DistinctJars =>
        \A c \in Jar \ marred :
            (\A r \in Request : c \notin JarsOf(req[r]))
            => (c \in store <=> \E x \in library : x[1] \in Upload /\ ProjectOf[x[1]] = c)

\* A server runs one version of a plugin, unless transactions on the server
\* overlapped or an administrator assigned two: deploy removes the others.
OneVersion ==
    \A s \in Server \ mixed : \A x, y \in Plugins(s) : SameProject(x, y) => x = y

\* A deleted artifact stays deleted: no late metadata update, registration or
\* upload brings its row back (a new upload is a new row).
GoneForGood == [][library' \ library \subseteq Row \ (Key \X (1 .. created))]_vars

\* After the last change every server's resource comes to list exactly the
\* installed artifacts, whichever of the synchronizations was late or failed,
\* and although a deletion synchronizes the servers it knew of at its start.
PublishedSettles == <>[](\A s \in servers : published[s] = Plugins(s))
=============================================================================
