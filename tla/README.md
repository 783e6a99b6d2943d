# Verification of Minikura

Minikura runs Minecraft servers and reverse proxies on Kubernetes. A backend
(`apps/backend`: TypeScript, Elysia, Prisma) keeps the desired state in PostgreSQL
and copies it into custom resources; an operator (`operator`: Go,
controller-runtime) turns these into workloads; a Velocity plugin
(`plugins/MinikuraVelocity`: Kotlin) lets the proxies follow the servers; a web UI
(`apps/web`: Next.js) is what administrators use. This directory holds TLA+ models
of the parts of that code where the order of steps decides whether it is right, the
TLC runs that check them, and proofs for TLAPS.

Run everything from this directory: `tlc -config X.cfg M.tla` for a run of
`PROJECT.json`, `tlapm M_proofs.tla` for a proof module. `PROJECT.json` also maps
every definition to the lines it models.

## 1. Inventory

| Component (code) | State | Operations | Talks to | What is hard | Correct if |
|---|---|---|---|---|---|
| Operator resource sync (`services/operator-resource-sync.ts`) | `syncing`; the chains of calls in flight; custom resources and Secrets in the cluster | `syncAll` (30 s timer), `sync…ById`, `delete…`, conflict retry, prune | database, API server, event handlers | one `await` per call, chains overlap; prune compares with rows read earlier; failures and crashes at every call | the cluster converges to the database; a row that was there when a cycle read the tables is not taken down by that cycle |
| CRUD services, repositories, event bus, event handlers (`application/services`, `infrastructure`) | rows of Server, ReverseProxyServer and their variables | create, update, delete; events after the commit | sync, WebSocket | several statements without a transaction; crash between commit and event | as above |
| User administration (`user.service.ts`, `user.repository.impl.ts`) | role, suspension and ban of accounts | update, suspend, delete, each in a SERIALIZABLE transaction | sessions | concurrent requests that count each other; dates that pass | somebody can always administer; nobody locks themselves out |
| First-run setup (`routes/bootstrap.ts`) | advisory lock, User and Account rows, pool | `POST /bootstrap/setup` | better-auth, PostgreSQL | work outside the transaction that guards it; timers; pool exhaustion | one administrator, who can log in |
| Kubernetes operator (`operator/internal/controller`) | informer caches, work queue | `Reconcile` of both kinds: apply, prune, status patch | API server, backend through the resources | works from a stale cache; missed events; restarts; partial failure | at rest children and status are those of the current spec |
| Pod environment and memory (`operator/internal/resources`) | the list `UserEnv` builds | managed variables, merge of user variables, heap and limits | server-side apply, kubelet | duplicates, two sources, protected names, boundaries | every pod spec is acceptable and the user's last word counts, except on protected names |
| Change feed (`services/websocket.ts`, `routes/servers.ts`) | set of clients | open with key lookup, close, broadcast | plugin | close during the lookup, broadcast before registration | each connected proxy hears of each change |
| Velocity plugin, server list (`Main.kt`, `MinikuraWebSocketClient.kt`) | data store, registered servers, `acceptingTransfers` | fetch, apply task, refresh | backend, players | refreshes overlap on several threads; no reconnect | the proxy knows the servers of the last answer |
| Velocity plugin, transfers (`ProxyTransferHandler.kt`, `ProxyTransferUtils.kt`) | cookie futures, migration batches | login, cookie, migrate, end | other proxies | late answers, a player who reconnects | players end where they were sent; a proxy that ends gets empty |
| Plugin registry (`services/plugin-registry.ts`) | PluginArtifact, ServerPlugin, S3 objects | register, upload, deploy, delete, download | S3, providers, sync | shared objects, object store outside the transaction | an installed plugin can be downloaded |
| Terminal bridge (`routes/terminal.ts`) | two sockets per session | open, message, close on each side | browser, exec API | each side closes or fails while the other connects | no session outlives its client; input and output keep their order |
| API keys (`middleware/api-key.ts`) | none | lookup by unique key | | | |
| Kubernetes views (`services/k8s.ts`, `services/kubernetes`) | none | read-only queries, pod restart | API server | | |
| Web UI (`apps/web`) | React state of the hooks and forms | polling, forms in two requests, pure mapping functions | backend | overlapping answers, half-saved forms | the newest answer is shown; a form survives a round trip |
| Environment config patcher | none | edits YAML at pod start | | | |
| Schema, shared packages, scripts | unique keys, cascades | | | | |

How they interact: a request commits rows and publishes an event; a handler first
broadcasts to the proxies and then synchronizes the row; independently, the timer's
cycle synchronizes every row and prunes what has none. The custom resources are the
only interface between backend and operator (the backend writes `spec`, the operator
`status`, both change the resourceVersion). The proxies read the backend, not the
cluster.

The hazards of this code are in `PROJECT.json` under "hazards", each with its line and
the property that covers it, or the reason why none does. Two are uncovered: the ids
whose legacy Secret name is another row's, which the properties exclude by hypothesis
(`NoNameCollision`), and `endProxy`, which belongs to the transfers. Several others have a
note: the code does not prevent their outcome and nothing repairs it, and the property says
what holds everywhere else, with the case it leaves out in its comment. These come on top, in
code that is not modelled or below what the models tell apart:

* Transfers: a player who reconnects within three seconds loses the new future to the
  first attempt's `finally` (`ProxyTransferHandler.kt:120`).
* Plugin: players are accepted before the server list is filled (`Main.kt:136`).
* Sync: a Secret whose resource is gone already is never removed
  (`operator-resource-sync.ts:314`).
* Operator: prune deletes by name without a uid precondition
  (`minecraftserver_controller.go:101`); a storage size that cannot be parsed is retried
  for ever (`minecraftserver_controller.go:76`).
* Patcher: a variable that gives one key a plain and an indexed value ends the program
  before the remaining variables (`Main.kt:41`).

## 2. Plan

Modules in the order of their importance; all but the last three are written.

1. `ResourceSync` - the backend's synchronization with the requests that feed it.
2. `AdminSafety` - user administration, and `Directory`, the abstract specification it
   implements.
3. `Reconciler` (+ `OperatorPlans`) - the operator's loop, one plan per kind.
4. `Bootstrap` - the first-run setup.
5. `PodSpec`, `PodEnv` - environment and memory of the pods.
6. `PluginRegistry` - artifacts, objects and installations.
7. `ProxyFeed` - broadcast, connection and refreshes of a proxy.
8. `Terminal` - the two sockets; `Channel` is the abstract specification of each
   direction.
9. The web pages that write or that put several answers together: `ServerSettings` and
   `ServerForm`, `UsersPage`, `RegistryPage`, `TopologyPage` and `TopologyGraph`,
   `ClusterPage`, `ManagePage`.
10. `ProxyTransfer` - logins, cookies and the end of a proxy. Not written.
11. `DesiredState` - an abstract specification "the cluster shows some database state
    that existed since the last convergence", and the composition of `ResourceSync`
    with `Reconciler` through the custom resource. Not written: each of the two alone
    has more than a million states on one row, so the composition needs a coarser
    `ResourceSync` first.
12. The environment config patcher, as operators compared with a reference definition.
    Not written.

## 3. What is modelled

### ResourceSync

`db` holds a row as the commit that wrote it (`ver`) and the commit that created it
(`key`, its API key); `cr` and `secrets` are the cluster; `work` is where each chain
of calls is; `cycle` and `snap` are `syncAll` with the rows it read. One action is the
code between two `await`s: `FetchRow` to `DeleteLegacy` are `syncServer` and
`syncReverseProxy`; `DeleteResource` and `DeleteSecret` a removal; `StartCycle`,
`LoadTable`, `StartSyncs`, `SkipPrune`, `StartPrune`, `ListStale` and `EndCycle` are
`syncAll` and `deleteStaleResources`; `CreateRow`, `UpdateRow`, `ContinueUpdate`,
`AbandonUpdate` and `DeleteRow` the repositories with the event that follows. Any
waiting call can fail (`FailCall`, `FailRead`) and the process can die (`Crash`).
`OperatorWritesStatus` and `CollectGarbage` are the cluster. The model starts as an
upgraded deployment does: some rows, some Secrets under their legacy name, no
resources. A resourceVersion is the Boolean "nobody wrote the object
since it was read". The API server's part is external: a replace that answers 404 is
followed by a create that carries a resourceVersion, which it refuses.

Ids are sequences of words joined by "-", because the code builds Secret names by
prefixing: the Secret of `lobby` is `mc-lobby-api-key`, the legacy name of the id
`mc-lobby` too. `NoNameCollision` states that this does not happen. The code does
not check it, so the properties that depend on it have it as a hypothesis.

Two abstractions bound what a slow call may do: a list call left behind by a failed
cycle ends before a later cycle loads that table again, and a removal left behind
ends before a later cycle removes the same row. The broadcast to the proxies, which
precedes the sync in the handlers, is in `ProxyFeed`.

### AdminSafety

`role` and `suspension` are the accounts, `req` the requests past authorization. A
request is authorized and checked against its sender at once (`Authorize`), reads and
counts in its transaction (`Begin`, or `Refuse` when nobody else is left), and commits
(`Commit`) or is aborted (`Abort`) later. SERIALIZABLE
is modelled by what it guarantees here: a commit that changes what another open
transaction has read or counted dooms one of them, and no one retries. Time is the event "this
date is now past".

`Directory` is what this promises: an account is active, inactive, a user or gone, and
one step takes an administrator away while it sees another active one.
`ActsAtOnce` is its specification under the mapping `Account`: the code checks in
one step and writes in a later one, with others in between, and is still a refinement
of the specification that does both at once.

### Reconciler and OperatorPlans

Both reconcilers run the same loop on a different list of children, so the loop is
one module parameterised by the plan (`Applied`, `Pruned` by type), and
`OperatorPlans` holds the two plans as the code has them, object names included.
`cr` and `children` are the API server, `seen` and `known` the caches, `owes` the
events not delivered, `job` the reconciliation in progress with the copy it took. Each step is
one API call: `Apply` (server-side apply; `RefuseApply` when another uid is the
controller), `Prune` (lookup in the cache, then delete), `UpdateStatus` (a
merge patch of what differs from the cached copy, `PatchStatus`). A failed call (`FailCall`) ends
the reconciliation with a Failed status whose patch may fail too; `Restart` empties queue and job and
refills the caches. One worker runs, because the deployment uses leader election and
the default concurrency. Specs the CRD schema refuses do not occur. The readiness
conditions and the list of backends in the status are not modelled.

### Bootstrap

`pc` is where each submission is, `conn` which transactions hold a connection, `lock`
the advisory lock, `late` whose transaction has expired, `users` and `credentials`
what better-auth committed. `createUser` is two actions, because its two statements
commit separately on another connection. `Expire` rolls the transaction back while
the callback goes on; `Fail` is any refused statement; `Crash` ends everything.
Statements in flight at a crash count as before or after it. A submission the schema
refuses has no effect.

### PodSpec and PodEnv

`PodSpec` has what does not change: `MinecraftEnv` and `ProxyEnv`, the managed variables
in their order, and `HeapMB`, `LimitMB` and `RequestMB`, the memory. `PodEnv` is the loop of
`UserEnv`, a state machine with one turn per step: `Skip` (protected), `Override` (in place),
`AppendNew`. A value is a number (0 the empty string, the memory in MB), a reference a
number too; texts are not built.

### PluginRegistry

`library`, `servers` and `installed` are the tables, `store` the bucket, `published` what
each server's custom resource lists. A request (`req`) is a step per `await`; a
transaction is two, `Statement` (the `deleteMany`, which sees what is committed by
then and locks it) and `Commit`, because under READ COMMITTED another can commit
between the two; `RollBack` is a constraint or a deadlock. `PutObject` stores an upload's
object before its row exists (`Upsert`) and `DeleteObject` removes it before the
transaction, so a failure in between (`Fail`) is visible. `Backfill` is the
metadata that a list request writes later. `SyncRead`, `SyncWrite` and `LoseSync` are the
synchronization that follows a request, `CycleLoad` and `CycleWrite` the timer's; the
rest of a synchronization is in `ResourceSync`. `Committable` is what the foreign keys of the
schema demand. `marred` and `mixed` are history
variables that name the cases in which a property is not claimed.

### ServerSettings and ServerForm

`ServerSettings` is the data of the server form: which field lives in a column, in a
variable or in both (`Field`, by classes), what the form makes of a row (`Loaded`, `Shown`)
and what a save makes of the form (`Sent`, `Managed`, `Patched`, `FreshColumn`). Values are
classes: absent, empty, the default, another, and those the code compares with.
`ServerForm` is the page: which panel lets a user change what, the plugin list that
arrives later or fails, and a save of two requests (`Submit`, `Stored`, `Deployed`,
`SaveFails`) that goes on when the page is left.

### UsersPage, RegistryPage, ManagePage, ClusterPage, TopologyPage

Five pages with the same difficulty: answers come late, in any order or not at all,
while the user goes on. Each has the state of its React component, one action per
handler up to its first `await` and one per continuation, and a backend reduced to what
the page can tell apart: a version that grows (`RegistryPage`, `ClusterPage`, `TopologyPage`),
the rows (`UsersPage`), the row and the pods (`ManagePage`). They differ in what protects them
from each other's answers, and the models keep that difference: `UsersPage` and
`TopologyPage` number their fetches, `RegistryPage` has one flag `busy` for all handlers,
`ManagePage` disables the buttons, `ClusterPage` has nothing. `ManagePage` contains the
backend's `restart`, which deletes the pods one call at a time. `missed`, of `UsersPage`, says
that a change may be missing from the table, the form or the request under way; a fetch that
brings everything while nothing else is open ends it (`CaughtUp`). The library of
`RegistryPage` starts with artifacts or without (`FirstLibrary`).

### TopologyGraph

The picture of one fetch: nodes and edges from servers, proxies, status and pods
(`Nodes`, `Edges`), the filters (`VisibleNodes`) and the layout (`Places`), with integer
coordinates. A search is the set of those whose label contains its text, any set for the
proofs. Its state is only the input and the filters. `Kept` is what a `filter` keeps of
a list, in order, and `Left` the running `currentX` of the loop over the columns; both are
recursive functions, about which the proofs reason.

### ProxyFeed

`rows` and `events` are the backend's table and the events not yet published, `client`
whether the proxy is in the set of clients, `link` the plugin's connection, whose key is
looked up (`Connect`) before `Join` adds the client, even one that has gone by then, or closes the connection because
the key is no proxy's. `refresh` are the fetches
on the proxy's scheduler: `BeginRefresh` empties the registered servers, `Answer` reads the
rows, `Populate` registers them, and they overlap. `FailRefresh`, `Disconnect` and `Restart`
are the faults. As committed the plugin does not compile (`Main.kt:111`); the model takes the code as
written otherwise.

### Terminal and Channel

One mounted terminal, its socket, the bridge's handlers and the exec socket behind them,
up to the end. The bridge drops every message that is not text (`parseTerminalMessage`), and
whether the framework hands it text or the parsed object is not in this repository: that is
the constant `AsText`. The run has it TRUE, the proofs either value; if it is FALSE no input
reaches the pod, which `ReadyMeansListening` allows (it promises no delivery).
`Channel` promises of one direction that what arrives is, message by
message, what was sent. It is instantiated twice, for the live output
(`ShowsWhatIsPrinted`) and for what is typed once the terminal said "ready"
(`ReadyMeansListening`), each with its refinement mapping.

### MCConsole, MCConnections, MCCluster

These put parts that share no state into one instance for TLC: a behaviour is a
behaviour of one part (`part`), and the others keep the value they have at rest. Nothing is
composed by this. It means only that a run explores the sum of the parts' states, not
their product, and that one run answers for several small modules. The next-state
relations are the modules' own, so every disjunct of each is exercised.

## 4. Runs

| Run (cfg) | Question | Instance |
|---|---|---|
| `resource_sync_one_row` | what can take down a row that exists, or publish a server without its key? | 1 server, 2 requests, 3 commits, 1 failure or crash |
| `resource_sync_live` | does the cluster converge? | 1 server, 2 requests, 2 commits, 1 failure, 1 status write |
| `admin_safety` | does an administrator always remain, and are requests atomic? | 3 symmetric accounts and a banned one, 2 requests |
| `reconciler_faults` | is a change missed in spite of stale caches and failures? | 2 changes, 1 failure, 1 foreign write |
| `reconciler_live` | does the operator come to rest in the right state? | 2 changes, 1 failure |
| `reconciler_proxy_stale` | violated: the ConfigMap of a proxy's old type stays | 2 changes |
| `bootstrap` | one account, usable, and an answer for everybody? | 4 submissions, pool of 3, timers, a failure, a crash |
| `bootstrap_crash` | violated: an account nobody can use, and a closed setup | 2 submissions, a crash |
| `registry_and_cluster` | do bucket, library, installations and resources agree; does the page of the cluster recover? | 1 upload, 2 versions of one project, 1 server, 2 requests, 1 failure; 2 polls, 1 list and the status, 3 versions, 1 failure |
| `server_form_rest` | violated: a save resets what its user never touched | 1 save, 1 edit, 1 deployment by others |
| `console_pages` | is what the pages show and write what their users mean; is every pod's environment acceptable? | see `Console.cfg`: all forms with one edit, 4 requests of users, 5 of the registry's page (two at a time, a library with artifacts), every graph of 2 servers, a proxy and 2 nodes, every kind of pod and up to 3 user variables, 2 pods of a server |
| `connections` | do terminal, feed and topology carry everything in order, and end? | 2 lines and 2 inputs; 2 servers, 2 refreshes, 2 changes, 1 failure; 3 fetches, 3 versions |

Each passing run visits between a hundred thousand and some million states and
takes half a minute to four minutes with two workers.

Why the bounds are enough to be interesting. *Three commits* are the shortest
history with a row, its deletion and its re-creation, the case in which a removal
meets a younger row; the model starts with rows and without, so a history of two may
begin with the deletion. *One failure* leaves a cycle's calls behind and starts the next
cycle beside them; a second one repeats this. *Two requests* and the cycle make three
chains on one row. *Three accounts*: two that take each other away and one that
comes or goes meanwhile. *Two changes* of a resource are a change the worker has
not seen and one that overtakes it. *A pool that the submissions can
fill* makes the one with the lock wait for connections the others hold.
*Three user variables* contain a duplicate of a duplicate, one between two equal ones, and
one of each kind. *Two versions of one project* and two requests are the two transactions that
remove each other's installation; one *upload* with two requests is an upload during its
deletion. *Three fetches* of the topology are the one that is overtaken, the one that
overtakes, and a later one that must not be undone; *three versions* give each another
answer. *Two refreshes* at a time with two changes let an older list replace a newer one.
*Two requests at a time* of the registry's page overlap in every pair of kinds, and the library
that is not empty is the one in which every button can be first. *Two lines and two inputs* show a gap, a doubling and an exchange. The proofs remove the
bounds where they could be carried out.

`CHECK_DEADLOCK FALSE` is set only where the system may stop: an operator at rest
waits for its users, a setup whose submissions are all answered is over, the loop of
`UserEnv` ends, a page may stay as it is, a terminal that is closed stays closed.

Each property of a passing run has a mutant in its module, a definition that
differs from the code the way a bug would, and under which TLC finds the property
violated (`PROJECT.json`, "mutants").

### Properties

* `RemovalOlderThanRow`, `SnapshotComplete`, `LiveRowKept` - the prune step and deletions
  in flight. A removal of a row that exists is older than the row: a deletion still running
  when the id is created again, or a cycle that read the tables before the row was created.
  Both are real and take the new resource down until the next cycle. A row that was there when the
  table was read, and is not being deleted, is out of danger (`Endangered`), and `LiveRowKept`
  says that it stays so and keeps Secret and resource, whatever other rows, failures and
  crashes do.
* `ResourceHasItsKey` - the Secret precedes the resource, for every row whenever it was
  created; a row loses its key only to a step of a chain that is older than the row
  (`LateStep`).
* `Converges` (ResourceSync) - after the last commit and failure the cluster becomes
  and stays equal to the database.
* `ActiveAdminExists`, `NoSelfLockout`, `ActsAtOnce` - see AdminSafety.
* `NothingMissed`, `Converges` (Reconciler) - what holds whenever the operator rests, and
  that it gets there. `NoStaleChild`, that nothing of another type is left, is asked of the
  proxy's plan only, where the prune step does not name every child.
* `OneAdministratorInTime`, `SuccessIsUsable`, `EveryoneIsAnswered` -
  the setup. Transactions that end within their 15 seconds create one account between
  them, whatever expired ones do beside them.
* `WellFormed` (`NamesUnique`, `OneSource`, `ProtectedKept`) and `EnvironmentIsMeant`
  (`LastWins`, `MemoryFits`) - the pods.
* `StoreMatchesLibrary`, `OneVersion`, `GoneForGood`, `PublishedSettles` - the plugin library.
  The first two say exactly when they are not claimed: where a request failed half-way
  or two overlapped.
* `WhatIsShownIsSaved`, `UninstallsOnPurpose` - the server form. The first goes around the
  circle form, request, row, form for every field.
* `PageIsSound` (`TableIsTrue`, `OneAtATime`, `SparesItself`), `KeptRoleStays` - the users' page;
  the latter claims nothing after a deletion was confirmed twice, nor while a change is
  missing from the form.
* `PanelIsSound` (`StoredAsWhatItIs`, `BusyIsTrue`, `ResultsStay`, `LibraryIsShown`),
  `OperationsAreTrue` (`PageIsTrue`, `RestartReplaces`), `PollIsShown`, `CatchesUp`,
  `ScreenIsOfTheLast`, `NeverGoesBack`, `PictureIsWhole` (`EdgesHaveEnds`, `NothingOverlaps`,
  `NothingIsLost`) - the other pages.
* `Carries` (`ShowsWhatIsPrinted`, `ReadyMeansListening`), `SessionsEnd` (`EndIsSeen`,
  `OpensOrSaysSo`, `LeavesNoSession`) - the terminal.
* `ListSettles`, `HearsWhileConnected` - the feed. The list settles on the rows, or for one of
  three reasons the code does not repair.

### Findings

* The proxy's prune step looks its ConfigMap up under the wrong name
  (`reconciler_proxy_stale`).
* The setup's account is created outside the transaction that holds the lock, so a crash
  or failed statement between the two inserts locks everybody out (`bootstrap_crash`).
* The server form does not restore the optional settings that the mapping computed for
  it (operators, whitelist, level seed, MOTD, JVM options, plugins and others) and a save
  sends all of them, so they are deleted; and a save before the list of installed
  plugins arrived uninstalls them (`server_form_rest`).

What the models show beside that, where nothing in the repository says otherwise:

* A server or proxy that is created while a cycle is under way, and whose own request has
  written its resource before the cycle lists the cluster, is taken down by that cycle's prune
  step, because the tables were read before (`operator-resource-sync.ts:76` and `312`); the
  next cycle brings resource and Secret back.
* An expired setup transaction may create a second administrator; the scope of
  `OneAdministratorInTime` excludes it.
* A registry page on which requests overlapped stores a release under the name of
  another project, and shows the popular projects instead of what was found.
* A change of role whose answer was lost, or that another administrator made, is undone by the
  next save of a name.
* The topology's `loading` stays set when the interval overtakes "Retry now"; its bar
  "Auto-retrying..." is untrue when the lists failed, which are loaded once; an application
  disappears from the picture when the node of its first pod is filtered out
  (`use-graph-layout.ts:111`).
* The cluster's page shows an error until the next poll when an older, overlapping poll
  fails although the newest one succeeded.
* Restarting a server that somebody else stopped starts it and leaves its old pod; a
  failure of the "Refresh" button is an unhandled rejection; an action whose answer was
  lost may still take effect.
* A terminal that is left while one of its sockets connects leaves an exec session behind.

### Fairness

`ResourceSync`: weak fairness of each chain's next step (an awaited call is answered
or fails: the Kubernetes and database clients have timeouts, and the event loop runs
every continuation) and of the timer. No fairness for requests, failures or the
operator's status writes: these are bounded. `Reconciler`: weak fairness of event
delivery (informers re-list), of the single worker (client-go's queue hands out every
key, failed ones after a back-off) and of the garbage collector. `Bootstrap`: weak
fairness of each handler's step and of the transaction's timers. `PluginRegistry`: of
each request's next step and of the timer's cycle. `ProxyFeed`: of the events' delivery,
of the handshake and of each refresh on the scheduler. `Terminal`: a connection is made or
fails, messages arrive, and calls of the Kubernetes API are answered; the pod owes
nothing. `TopologyPage`, `ClusterPage`: a call is answered or fails, and the interval
fires. No fairness is assumed of users, of failures, or of the network staying up.

## 5. Proofs

All proofs hold for every value of the constants that meets the named assumptions
next to their declarations.

* `ResourceSync_proofs` - `SyncInvariant`: `SyncInv` is inductive. It strengthens
  `RemovalOlderThanRow` with what the code relies on without saying it: commit numbers
  only grow (`CommitsOK`), a table that was read is complete up to the commit it was
  read at and not used by an older list call (`SnapshotOK`), and a removal in flight
  remembers a commit older than the row, if there is one (`JobOK`). The theorems
  `TypeCorrect`, `RemovalsAreOlder`, `SnapshotsAreComplete` follow.
  `LiveRowsAreKept` is an action property. Its two halves are that a step which takes a
  Secret or a resource of an existing row away is one of a removal of that row
  (`StepKeepsRows`), and that no step puts a row that is out of danger into it (`NoNewDanger`,
  from what a step does to every worker, `JobsFollow`). It needs that
  distinct rows have distinct Secret names, which is proved from the sequences the
  names are, and `NoNameCollision`. `ResourcesHaveTheirKeys` adds `AgesOK`: a synchronization
  carries the key of the row as it is, or is older than the row; the property alone says
  nothing of chains that have not written yet.
  `WhatAgreesStays` is the part of `Converges` that is no matter of time. `Calm` says that
  nothing on its way knows less than the database: what every chain has read is current,
  every list of rows is complete, and nothing removes the resource of a row that exists. It
  holds at first (`CalmAtFirst`), and every step but a commit keeps it, failures and crashes
  too. While it holds a row that agrees with the cluster goes on agreeing, and the last step of a
  synchronization, which deletes the legacy Secret, makes its row agree. The fairness of the
  chains and of the timer, which makes those synchronizations end, is left to TLC.
* `AdminSafety_proofs` - `AdminInvariant`: an uncommitted transaction that takes an
  administrator away has counted, and one of those it counted is still active or the
  database will not let it commit. `ActiveAdminExists` alone is not inductive: a
  state in which the last two administrators are both about to be demoted satisfies it.
  `RequestsActAtOnce` is the refinement of `Directory`: initial states map to initial
  states, and every step to a step or a stutter. It needs besides that a transaction in
  progress which may still commit has a target that is not deleted (`PresentOK`).
* `Reconciler_proofs` - `ReconcilerInvariant`: unless the key is queued the worker's
  copy is the cached one (`Fresh`), a difference between cache and server has an event
  to come (`Informed`), and every step the running reconciliation took still stands or
  has an event to come (`OnCourse`). `NothingIsMissed` needs nothing of the plan but
  `PlanAssumption`, so it holds of the proxy's plan as of the server's, which the runs take.
* `Bootstrap_proofs` - `TypeCorrect`, `SuccessCanLogIn` and `AtMostOneInTime` hold with
  all timers, failures and crashes. The invariant of the last: a transaction in time that
  is past the lock holds it, and while it is about to insert, the only accounts are
  those of expired transactions and nobody was told "already".
  `NobodyWaitsForGood` is the part of `EveryoneIsAnswered` that needs no fairness: from
  `Holding` (who holds a connection or the lock, and who waits for which) follows
  that somebody's handler or timer can always go on, also when those who wait
  for the lock have the whole pool; and `StepsLeft`, at most thirteen for each submission,
  is less after each of their steps.
* `PodEnv_proofs` - `LoopInvariant`: the map is the index of the list, so a name found
  in neither is new. `EnvironmentIsWellFormed` follows for
  lists of any length; `HeapFits` and `RequestFits` are the arithmetic of the memory.
  That the managed variables themselves are in order is proved for every custom resource
  (`ManagedInOrder`), from `NamesAssumption` alone. `TheLastWordStands` adds what the
  list means: it relates every entry to the last user variable of that name among those
  the loop has read, and with the heap it gives `TheListSaysWhatIsMeant`.
* `Cluster_proofs` - of the plugin library: `TypeCorrect` goes with an invariant on the shape of every
  waiting request (`ShapeOK`). `OneVersionKept`: from its first statement on a transaction
  leaves one version behind (`LeavesOne`), because nobody else may be at the same server
  in the cases the property claims. `StoreMatches`: a JAR that a request is working on,
  alone and without a failure, is on its way to agreement (`OnItsWay`), under the hypothesis
  `DistinctJars` of the property. `DeletedIsGone` is an action property of the same types.
  `WhatIsPublishedStays` is what each step contributes to `PublishedSettles`: `WellInformed`
  says that every synchronization under way has read what is installed now; it holds
  at first (`InformedAtFirst`), until something is installed or removed no step ends it, and
  while it holds no write makes a resource wrong and each makes one right.
  Of the cluster's page: `ThePollIsShown`. The property speaks of a page without polls; what
  makes it inductive is that a poll that is alone is the only one and nothing has failed
  since it began (`AloneIsOnly`), and that what it has read is not older than its beginning
  (`PollOK`).
* `Connections_proofs` - the topology's `PageInvariant`: a fetch later than the one on screen has read
  nothing older (`Later`), nothing is newer than the backend (`FetchOK`, `GraphOK`), and a
  `loading` that nobody overtook belongs to a running fetch (`LoadingOK`). `TheLastIsShown`
  is a part of it; `NothingGoesBack` follows at the step in which a fetch ends.
  `NoChangeIsMissed` needs that a plugin whose connection is up is in the set of clients
  (`Kept`); its type needs that every message and task is owed to a change (`Owed`).
  `TheListIsRightAtRest` is the safety half of `ListSettles`: a last refresh that met no other
  works on an empty list and has the rows unless a change is due (`LastRefreshOK`). `NothingIsGarbled` is the refinement of `Channel` in both
  directions: `ShellInvariant` says of every state of the bridge where the outstanding lines
  and inputs are, in order, between the two sockets, and every step then is a step of the
  channel or a stutter. `TheEndIsTold` is the safety half of `SessionsEnd`: `Tidings` says what
  the two ends have been told or are about to be, so that only delivery is left when the
  pod, the user, the network or a refusal ends a session. `ConnectionsTyped` is the type of the three parts.
* `Console_proofs` - the five pages and the pod's variables in the instance `MCConsole`.
  *The form*: `PluginInv` (a plugin the form was told of is picked or was touched by the
  user, in the form, `FormOK`, and in every save, `SaveOK`) gives `UninstalledOnPurpose`, for
  overlapping saves as well, which the run does not have; `TheFormIsSaved` goes around the
  circle form, request, row, form once for each kind of field (`LoadedByKind`,
  `ManagedByKind`, `SentByKind`, `ShownIsSaved`), for every row and every form a page can
  hold (`FormInv`). *The users*: `UsersInv` adds to the property that a reading is as old as its request, that at
  most one request acts, and that what is sent follows from what its dialog had read.
  *The registry*: `RegistryInv` says whose releases, results and library are on their way.
  *A server's operations*: `ManageInv` says that what nothing disturbed is the only request,
  and which pods a restart has still to tell. `TheConsoleIsTyped` is the type of all six.
  *The picture*: `ThePictureIsWhole` holds for lists of any length. `Lists` relates what is
  drawn to the positions in the lists: an application, a group and a column occur exactly
  once each (`KeptIs`, `AppsAreListed`, `GroupsAreListed`, `ColumnsAreListed`). `LeftIs` gives the
  running position its equation and `ColumnsAreApart` adds the widths up between any two
  columns. `WherePlacesAre` then says where every place is, and `NodesAreApart` and
  `NodesAreDrawn` compare them. `LinesHaveEnds` needs no layout.

Assumptions on the constants are only those of a meaningful instance: bounds are natural
numbers (`PagesAssumption`, `FormAssumption`, `PartsAssumption`, `ClusterAssumption`,
`BoundsAssumption`), the names the operator sets are names (`NamesAssumption`), and a
variable of the user's own is not one of the form's fields (`CustomAssumption`). The lists of
servers, proxies and nodes name everything once (`ListsAssumption`): ids and the names of nodes
are keys where they come from.

What the proofs changed in the model. `KeptRoleStays` was claimed of every edit; the step
in which a second request is sent did not go through, and with five requests instead of
four TLC has the counterexample: after a deletion was confirmed twice the first answer
enables the buttons of a dialog whose directory is no longer current. The property now has
the exception, which the code does not repair. The names of the managed variables were an
assumption on the run's resources and are now a lemma.

Induction. The library's induction theorems take an operator, which the installed provers
cannot instantiate. What they can use is that the order of the natural numbers is well
founded (`NatLessThanWellFounded`, `WFMin`), which gives every non-empty set of numbers a least
element (`LeastNumber`) and induction over a set instead of a predicate (`Induction`). With them
the recursive functions of the layout satisfy their equations for every argument. RECURSIVE
operators stay out of reach, and no module with a proof uses one.

Only model-checked: everything about eventually (`Converges`, `EveryoneIsAnswered`,
`PublishedSettles`, `CatchesUp`, `ListSettles`, `SessionsEnd`), its fairness and every use of
ENABLED, which are beyond the prover. Their safety halves are proved, what each step contributes or
what is waiting to be done: `WhatAgreesStays` of `Converges`, `NobodyWaitsForGood` of
`EveryoneIsAnswered`, `WhatIsPublishedStays` of `PublishedSettles`, `TheListIsRightAtRest` of
`ListSettles`, `TheEndIsTold` of `SessionsEnd` and `ThePollIsShown` of `CatchesUp`. Every invariant and every action property of the
passing runs is a theorem.

## 6. Not modelled, and why

The transfers between proxies and the environment config patcher are planned (section
2). API keys, middleware and packaging have no state of their own whose order matters;
of the Kubernetes views the lists, the status and the restart are in `ClusterPage` and
`ManagePage`, the rest only reads. Of the web UI, pages that only show one answer, the
primitives of `components/ui`, navigation and styling are left out. Of the modelled
parts: texts (URLs, labels, names), CPU quantities, probes, volumes and ports are left
out; so are invalid requests, which the schemas refuse before any state changes, and readiness
conditions, which copy what the cluster reports. The list of reverse proxies that the plugin
also fetches, the provider catalogues' searches and the signed download of a JAR only read.
