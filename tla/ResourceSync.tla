---------------------------- MODULE ResourceSync ----------------------------
(***************************************************************************)
(* How the backend keeps the cluster equal to its database: the service   *)
(* operator-resource-sync.ts together with the requests that feed it (the *)
(* CRUD services, their events and the event handlers).                   *)
(*                                                                         *)
(* A row of the tables Server and ReverseProxyServer is the desired state. *)
(* For each row the cluster holds one custom resource (read by the Go     *)
(* operator) and one Secret with the row's API key (read by the pod).      *)
(* Both are written by asynchronous chains of API calls, one `await` per   *)
(* call, which run concurrently: one chain per HTTP request, and one per   *)
(* row for the cycle that a timer starts every 30 seconds.                 *)
(*                                                                         *)
(* Data is abstracted to what the properties tell apart: the content of a  *)
(* row is the number of the commit that wrote it (ver) and its API key the *)
(* number of the commit that created it (key).  An object's                *)
(* resourceVersion is the Boolean "nobody wrote it since I read it".       *)
(***************************************************************************)
EXTENDS Naturals, Sequences, FiniteSets

CONSTANTS
    Words,      \* the words ids and names are made of
    ServerIds,  \* ids of game servers: sequences of the words joined by "-"
    ProxyIds,   \* ids of reverse proxies, same form
    Requests,   \* HTTP requests that may be in progress at the same time
    Nil,        \* no row, no object
    MaxCommits, \* bound: commits to the database
    MaxFaults,  \* bound: failed API calls, failed queries and process crashes
    MaxStatus   \* bound: writes of the operator to the status of a resource

ASSUME BoundsAssumption ==
    /\ MaxCommits \in Nat
    /\ MaxFaults \in Nat
    /\ MaxStatus \in Nat

ASSUME IdsAssumption ==
    /\ "mc" \in Words /\ "rp" \in Words
    /\ ServerIds \subseteq Seq(Words)
    /\ ProxyIds \subseteq Seq(Words)

Rows == ({"server"} \X ServerIds) \cup ({"proxy"} \X ProxyIds)
Kind(r) == r[1]
Id(r) == r[2]
Kinds == {Kind(r) : r \in Rows}

\* Names of Secrets, without the common suffix "-api-key".  LegacyName is the
\* name an earlier release used; the sync of a row deletes it.
SecretName(r) == (IF Kind(r) = "server" THEN <<"mc">> ELSE <<"rp">>) \o Id(r)
LegacyName(r) == Id(r)
SecretNames == {SecretName(r) : r \in Rows} \cup {LegacyName(r) : r \in Rows}

\* No id is another id prefixed with "mc-" or "rp-".  The code does not check
\* it; the properties that need it say so.
NoNameCollision == \A r, s \in Rows : LegacyName(r) # SecretName(s)

\* The asynchronous call chains: a request, the sync of a row in the timer's
\* cycle, the cycle's list call for a kind, and its removal of a stale row.
Workers == ({"request"} \X Requests) \cup ({"cycle"} \X Rows)
           \cup ({"list"} \X Kinds) \cup ({"prune"} \X Rows)

VARIABLES
    db,      \* the rows: Nil, or [ver, key]
    commits, \* number of commits so far
    cr,      \* custom resources by row: Nil, or [ver, deleting]
    secrets, \* Secrets by name: Nil, or the API key
    work,    \* what each worker does next
    cycle,   \* the state of syncAll; pc # "idle" is the flag `syncing`
    snap,    \* by kind: the rows the cycle read and the commit it read them at
    faults,  \* failures so far (bounded)
    status   \* operator status writes so far (bounded)

cluster == <<cr, secrets>>
budget == <<faults, status>>
vars == <<db, commits, cr, secrets, work, cycle, snap, faults, status>>

Syncing == {"readSecret", "replaceSecret", "createSecret", "readResource",
            "replaceResource", "createResource", "deleteLegacy"}
Deleting == {"deleteResource", "deleteSecret"}
\* Steps that wait for the API server or the database, and so can fail.
Calling == Syncing \cup Deleting \cup {"update", "fetch", "list"}

Job(pc, r, v, k) == [pc |-> pc, row |-> r, ver |-> v, key |-> k, fresh |-> TRUE]
Idle == Job("idle", Nil, 0, 0)

Versions == 0..MaxCommits

ASSUME NilAssumption ==
    /\ Nil \notin Rows
    /\ Nil \notin Nat
    /\ Nil \notin [ver : Nat, key : Nat]
    /\ Nil \notin [ver : Nat, deleting : BOOLEAN]

Jobs == [pc : Calling \cup {"idle", "loaded"}, row : Rows \cup {Nil},
         ver : Versions, key : Versions, fresh : BOOLEAN]
NoCycle == [pc |-> "idle", unread |-> {}, failed |-> FALSE, waiting |-> {}]
NoSnapshot == [rows |-> {}, asOf |-> 0]

\* The type of the state.
TypeOK ==
    /\ db \in [Rows -> [ver : Versions, key : Versions] \cup {Nil}]
    /\ commits \in Versions
    /\ cr \in [Rows -> [ver : Versions, deleting : BOOLEAN] \cup {Nil}]
    /\ secrets \in [SecretNames -> Versions \cup {Nil}]
    /\ work \in [Workers -> Jobs]
    /\ cycle \in [pc : {"idle", "read", "sync", "prune"}, unread : SUBSET Kinds,
                  failed : BOOLEAN, waiting : SUBSET Workers]
    /\ snap \in [Kinds -> [rows : SUBSET Rows, asOf : Versions]]
    /\ faults \in 0..MaxFaults
    /\ status \in 0..MaxStatus

\* A deployment just upgraded: some rows exist, their Secrets may still have
\* the name of the earlier release, and nothing was synchronized yet.
Init ==
    /\ db \in [Rows -> {Nil, [ver |-> 0, key |-> 0]}]
    /\ \E old \in SUBSET {r \in Rows : db[r] # Nil} :
           secrets = [n \in SecretNames |->
                         IF \E r \in old : LegacyName(r) = n THEN 0 ELSE Nil]
    /\ cr = [r \in Rows |-> Nil]
    /\ commits = 0
    /\ work = [w \in Workers |-> Idle]
    /\ cycle = NoCycle
    /\ snap = [k \in Kinds |-> NoSnapshot]
    /\ faults = 0
    /\ status = 0

-----------------------------------------------------------------------------
(* The API server.  A write to an object makes the resourceVersion that    *)
(* other workers read before it out of date.                               *)

HoldsResource(u, r) == work[u].pc = "replaceResource" /\ work[u].row = r
HoldsSecret(u, n) == work[u].pc = "replaceSecret" /\ SecretName(work[u].row) = n

\* Worker w goes on to step pc; the reads of the workers in S become stale.
Advance(w, pc, S) ==
    work' = [u \in Workers |->
                IF u = w THEN [work[u] EXCEPT !.pc = pc, !.fresh = TRUE]
                ELSE IF u \in S THEN [work[u] EXCEPT !.fresh = FALSE]
                ELSE work[u]]

WriteResource(w, r, object, pc) ==
    /\ cr' = [cr EXCEPT ![r] = object]
    /\ Advance(w, pc, {u \in Workers : HoldsResource(u, r)})

\* Mutant of Finish: the worker keeps a state of its own once it is done.
Finish_Done(w) ==
    /\ work' = [work EXCEPT ![w].pc = "done"]
    /\ cycle' = [cycle EXCEPT !.waiting = @ \ {w}]

\* Worker w has nothing left to do.
Finish(w) ==
    /\ work' = [work EXCEPT ![w] = Idle]
    /\ cycle' = [cycle EXCEPT !.waiting = @ \ {w}]

\* The promise of w rejects.  Promise.allSettled of the syncs notes it;
\* Promise.all of the prune step rejects at once and the cycle ends, although
\* its other calls are still running.  The event bus swallows a request's.
Reject(w) ==
    /\ work' = [work EXCEPT ![w] = Idle]
    /\ cycle' = IF w \notin cycle.waiting THEN cycle
                ELSE IF cycle.pc = "prune" THEN NoCycle
                ELSE [cycle EXCEPT !.waiting = @ \ {w}, !.failed = TRUE]

-----------------------------------------------------------------------------
(* Requests: the commit, then the event handler's synchronization.         *)

CreateRow(w, r) ==
    /\ work[w].pc = "idle" /\ db[r] = Nil /\ commits < MaxCommits
    /\ commits' = commits + 1
    /\ db' = [db EXCEPT ![r] = [ver |-> commits + 1, key |-> commits + 1]]
    /\ work' = [work EXCEPT ![w] = Job("fetch", r, 0, 0)]
    /\ UNCHANGED <<cluster, cycle, snap, budget>>

\* What follows a statement of an update: the event, or another statement.  An
\* update that replaces a server's environment is up to three statements, each
\* committed by itself; that of a proxy is one.
AfterStatement(r) == IF Kind(r) = "server" THEN {"update", "fetch"} ELSE {"fetch"}

\* One statement of an update, or of setting or deleting an environment variable.
CommitUpdate(w, r) ==
    /\ db[r] # Nil /\ commits < MaxCommits
    /\ commits' = commits + 1
    /\ db' = [db EXCEPT ![r].ver = commits + 1]
    /\ \E next \in AfterStatement(r) :
           work' = [work EXCEPT ![w] = Job(next, r, 0, 0)]
    /\ UNCHANGED <<cluster, cycle, snap, budget>>

UpdateRow(w, r) == work[w].pc = "idle" /\ CommitUpdate(w, r)

ContinueUpdate(w) == work[w].pc = "update" /\ CommitUpdate(w, work[w].row)

\* The row was deleted by another request between two statements: the update
\* fails and publishes nothing.
AbandonUpdate(w) ==
    /\ work[w].pc = "update" /\ db[work[w].row] = Nil
    /\ Reject(w)
    /\ UNCHANGED <<db, commits, cluster, snap, budget>>

\* A deletion job remembers (ver) the commit at which its row was absent.
DeleteRow(w, r) ==
    /\ work[w].pc = "idle" /\ db[r] # Nil /\ commits < MaxCommits
    /\ commits' = commits + 1
    /\ db' = [db EXCEPT ![r] = Nil]
    /\ work' = [work EXCEPT ![w] = Job("deleteResource", r, commits + 1, 0)]
    /\ UNCHANGED <<cluster, cycle, snap, budget>>

\* syncServerById and syncReverseProxyById read the row again.
FetchRow(w) ==
    /\ work[w].pc = "fetch"
    /\ LET r == work[w].row IN
       \/ /\ db[r] = Nil
          /\ Finish(w)
       \/ /\ db[r] # Nil
          /\ work' = [work EXCEPT ![w] = Job("readSecret", r, db[r].ver, db[r].key)]
          /\ UNCHANGED cycle
    /\ UNCHANGED <<db, commits, cluster, snap, budget>>

-----------------------------------------------------------------------------
(* The synchronization of one row: syncServer and syncReverseProxy.        *)

ReadSecret(w) ==
    /\ work[w].pc = "readSecret"
    /\ Advance(w, IF secrets[SecretName(work[w].row)] = Nil
                  THEN "createSecret" ELSE "replaceSecret", {})
    /\ UNCHANGED <<db, commits, cluster, cycle, snap, budget>>

\* The replace carries the resourceVersion that was read: 409 if the Secret was
\* written since.  If it was deleted since, the 404 leads to the create, whose
\* body still carries the resourceVersion, and the API server refuses to create
\* an object that has one; so both end in a rejection.
ReplaceSecret(w) ==
    LET n == SecretName(work[w].row) IN
    /\ work[w].pc = "replaceSecret"
    /\ \/ /\ secrets[n] # Nil /\ work[w].fresh
          /\ secrets' = [secrets EXCEPT ![n] = work[w].key]
          /\ Advance(w, "readResource", {u \in Workers : HoldsSecret(u, n)})
          /\ UNCHANGED cycle
       \/ /\ secrets[n] = Nil \/ ~work[w].fresh
          /\ Reject(w)
          /\ UNCHANGED secrets
    /\ UNCHANGED <<db, commits, cr, snap, budget>>

\* A worker that read an earlier Secret of this name holds a stale version.
CreateSecret(w) ==
    LET n == SecretName(work[w].row) IN
    /\ work[w].pc = "createSecret"
    /\ \/ /\ secrets[n] = Nil
          /\ secrets' = [secrets EXCEPT ![n] = work[w].key]
          /\ Advance(w, "readResource", {u \in Workers : HoldsSecret(u, n)})
          /\ UNCHANGED cycle
       \/ /\ secrets[n] # Nil
          /\ Reject(w)
          /\ UNCHANGED secrets
    /\ UNCHANGED <<db, commits, cr, snap, budget>>

ReadResource(w) ==
    /\ work[w].pc = "readResource"
    /\ Advance(w, IF cr[work[w].row] = Nil
                  THEN "createResource" ELSE "replaceResource", {})
    /\ UNCHANGED <<db, commits, cluster, cycle, snap, budget>>

\* As above.  Replacing an object that is being deleted succeeds and does not
\* save it.
ReplaceResource(w) ==
    LET r == work[w].row IN
    /\ work[w].pc = "replaceResource"
    /\ \/ /\ cr[r] # Nil /\ work[w].fresh
          /\ WriteResource(w, r, [cr[r] EXCEPT !.ver = work[w].ver], "deleteLegacy")
          /\ UNCHANGED cycle
       \/ /\ cr[r] = Nil \/ ~work[w].fresh
          /\ Reject(w)
          /\ UNCHANGED cr
    /\ UNCHANGED <<db, commits, secrets, snap, budget>>

CreateResource(w) ==
    LET r == work[w].row IN
    /\ work[w].pc = "createResource"
    /\ \/ /\ cr[r] = Nil
          /\ WriteResource(w, r, [ver |-> work[w].ver, deleting |-> FALSE], "deleteLegacy")
          /\ UNCHANGED cycle
       \/ /\ cr[r] # Nil
          /\ Reject(w)
          /\ UNCHANGED cr
    /\ UNCHANGED <<db, commits, secrets, snap, budget>>

\* Mutant of DeleteLegacy: it deletes the Secret just written.
DeleteLegacy_NewName(w) ==
    /\ work[w].pc = "deleteLegacy"
    /\ secrets' = [secrets EXCEPT ![SecretName(work[w].row)] = Nil]
    /\ Finish(w)
    /\ UNCHANGED <<db, commits, cr, snap, budget>>

DeleteLegacy(w) ==
    /\ work[w].pc = "deleteLegacy"
    /\ secrets' = [secrets EXCEPT ![LegacyName(work[w].row)] = Nil]
    /\ Finish(w)
    /\ UNCHANGED <<db, commits, cr, snap, budget>>

-----------------------------------------------------------------------------
(* Removal: deleteResource, for a request and for the prune step.          *)

\* Foreground propagation: the object stays until its dependents are gone.
DeleteResource(w) ==
    LET r == work[w].row IN
    /\ work[w].pc = "deleteResource"
    /\ \/ /\ cr[r] # Nil
          /\ WriteResource(w, r, [cr[r] EXCEPT !.deleting = TRUE], "deleteSecret")
       \/ /\ cr[r] = Nil
          /\ Advance(w, "deleteSecret", {})
          /\ UNCHANGED cr
    /\ UNCHANGED <<db, commits, secrets, cycle, snap, budget>>

DeleteSecret(w) ==
    /\ work[w].pc = "deleteSecret"
    /\ secrets' = [secrets EXCEPT ![SecretName(work[w].row)] = Nil]
    /\ Finish(w)
    /\ UNCHANGED <<db, commits, cr, snap, budget>>

-----------------------------------------------------------------------------
(* syncAll: the cycle of the 30-second timer.                              *)

\* Mutant of PresentRows: the query returns only what was written lately.
PresentRows_Recent(k) == {r \in Rows : Kind(r) = k /\ db[r] # Nil /\ db[r].ver > 0}

PresentRows(k) == {r \in Rows : Kind(r) = k /\ db[r] # Nil}

\* The timer fires (or the process starts) and no cycle is in progress.
StartCycle ==
    /\ cycle.pc = "idle"
    /\ cycle' = [NoCycle EXCEPT !.pc = "read", !.unread = Kinds]
    /\ UNCHANGED <<db, commits, cluster, work, snap, budget>>

\* One of the two findMany queries.  (Bound: the list call a failed cycle left
\* behind ends before the next cycle reads that table.)
LoadTable(k) ==
    /\ cycle.pc = "read" /\ k \in cycle.unread
    /\ work[<<"list", k>>].pc = "idle"
    /\ cycle' = [cycle EXCEPT !.unread = @ \ {k}]
    /\ snap' = [snap EXCEPT ![k] = [rows |-> PresentRows(k), asOf |-> commits]]
    /\ work' = [w \in Workers |->
                   IF w[1] = "cycle" /\ w[2] \in PresentRows(k)
                   THEN Job("loaded", w[2], db[w[2]].ver, db[w[2]].key)
                   ELSE work[w]]
    /\ UNCHANGED <<db, commits, cluster, budget>>

Loaded == {w \in Workers : work[w].pc = "loaded"}

\* Mutant of StartSyncs: the resource is written before its Secret.
StartSyncs_ResourceFirst ==
    /\ cycle.pc = "read" /\ cycle.unread = {}
    /\ cycle' = [cycle EXCEPT !.pc = "sync", !.waiting = Loaded]
    /\ work' = [w \in Workers |-> IF w \in Loaded
                                  THEN [work[w] EXCEPT !.pc = "readResource"]
                                  ELSE work[w]]
    /\ UNCHANGED <<db, commits, cluster, snap, budget>>

StartSyncs ==
    /\ cycle.pc = "read" /\ cycle.unread = {}
    /\ cycle' = [cycle EXCEPT !.pc = "sync", !.waiting = Loaded]
    /\ work' = [w \in Workers |-> IF w \in Loaded
                                  THEN [work[w] EXCEPT !.pc = "readSecret"]
                                  ELSE work[w]]
    /\ UNCHANGED <<db, commits, cluster, snap, budget>>

\* Mutant of SkipPrune: the early return does not clear the flag `syncing`.
SkipPrune_FlagKept ==
    /\ cycle.pc = "sync" /\ cycle.waiting = {} /\ cycle.failed
    /\ UNCHANGED vars

\* Every sync settled.  One rejection is enough to skip the prune step.
SkipPrune ==
    /\ cycle.pc = "sync" /\ cycle.waiting = {} /\ cycle.failed
    /\ cycle' = NoCycle
    /\ UNCHANGED <<db, commits, cluster, work, snap, budget>>

StartPrune ==
    /\ cycle.pc = "sync" /\ cycle.waiting = {} /\ ~cycle.failed
    /\ cycle' = [cycle EXCEPT !.pc = "prune", !.waiting = {"list"} \X Kinds]
    /\ work' = [w \in Workers |-> IF w[1] = "list" THEN Job("list", Nil, 0, 0)
                                  ELSE work[w]]
    /\ UNCHANGED <<db, commits, cluster, snap, budget>>

\* Mutant of Stale: no row is looked up.
Stale_All(k) == {r \in Rows : Kind(r) = k /\ cr[r] # Nil}

\* The resources of this kind whose row the cycle did not read.
Stale(k) == {r \in Rows : Kind(r) = k /\ cr[r] # Nil /\ r \notin snap[k].rows}

\* deleteStaleResources: list, then all the removals at once.  They are awaited
\* only if the cycle still awaits this list call.  (Bound: a removal a failed
\* cycle left behind ends before a later cycle removes the same row.)
ListStale(w) ==
    LET k == w[2]
        removals == {"prune"} \X Stale(k)
    IN
    /\ work[w].pc = "list"
    /\ \A u \in removals : work[u].pc = "idle"
    /\ work' = [u \in Workers |->
                   IF u = w THEN Idle
                   ELSE IF u \in removals
                        THEN Job("deleteResource", u[2], snap[k].asOf, 0)
                   ELSE work[u]]
    /\ cycle' = IF w \in cycle.waiting
                THEN [cycle EXCEPT !.waiting = (@ \ {w}) \cup removals]
                ELSE cycle
    /\ snap' = [snap EXCEPT ![k] = NoSnapshot]
    /\ UNCHANGED <<db, commits, cluster, budget>>

EndCycle ==
    /\ cycle.pc = "prune" /\ cycle.waiting = {}
    /\ cycle' = NoCycle
    /\ UNCHANGED <<db, commits, cluster, work, snap, budget>>

-----------------------------------------------------------------------------
(* The environment: failures, the operator and the garbage collector.      *)

\* A call of w, or its query, fails without effect.
FailCall(w) ==
    /\ work[w].pc \in Calling /\ faults < MaxFaults
    /\ faults' = faults + 1
    /\ Reject(w)
    /\ UNCHANGED <<db, commits, cluster, snap, status>>

\* One of the cycle's two queries fails: `finally` clears the flag.
FailRead ==
    /\ cycle.pc = "read" /\ faults < MaxFaults
    /\ faults' = faults + 1
    /\ cycle' = NoCycle
    /\ work' = [w \in Workers |-> IF w \in Loaded THEN Idle ELSE work[w]]
    /\ UNCHANGED <<db, commits, cluster, snap, status>>

\* The backend process dies and is started again: it forgets every call chain
\* and every event, and start() begins a cycle at once (StartCycle).
Crash ==
    /\ faults < MaxFaults
    /\ faults' = faults + 1
    /\ work' = [w \in Workers |-> Idle]
    /\ cycle' = NoCycle
    /\ snap' = [k \in Kinds |-> NoSnapshot]
    /\ UNCHANGED <<db, commits, cluster, status>>

\* The operator patches the status: only the resourceVersion changes.
OperatorWritesStatus(r) ==
    /\ cr[r] # Nil /\ status < MaxStatus
    /\ status' = status + 1
    /\ work' = [u \in Workers |-> IF HoldsResource(u, r)
                                  THEN [work[u] EXCEPT !.fresh = FALSE]
                                  ELSE work[u]]
    /\ UNCHANGED <<db, commits, cluster, cycle, snap, faults>>

\* The dependents of a deleted resource are gone and so is the resource.
CollectGarbage(r) ==
    /\ cr[r] # Nil /\ cr[r].deleting
    /\ cr' = [cr EXCEPT ![r] = Nil]
    /\ UNCHANGED <<db, commits, secrets, work, cycle, snap, budget>>

-----------------------------------------------------------------------------

Step(w) ==
    \/ ContinueUpdate(w) \/ AbandonUpdate(w) \/ FetchRow(w)
    \/ ReadSecret(w) \/ ReplaceSecret(w) \/ CreateSecret(w)
    \/ ReadResource(w) \/ ReplaceResource(w) \/ CreateResource(w)
    \/ DeleteLegacy(w) \/ DeleteResource(w) \/ DeleteSecret(w) \/ ListStale(w)

RequestStarts(w) == \E r \in Rows : CreateRow(w, r) \/ UpdateRow(w, r) \/ DeleteRow(w, r)

CycleStep == StartCycle \/ (\E k \in Kinds : LoadTable(k)) \/ StartSyncs
             \/ SkipPrune \/ StartPrune \/ EndCycle

Environment ==
    \/ \E w \in Workers : FailCall(w)
    \/ FailRead
    \/ Crash
    \/ \E r \in Rows : OperatorWritesStatus(r) \/ CollectGarbage(r)

Next ==
    \/ \E w \in {"request"} \X Requests : RequestStarts(w)
    \/ \E w \in Workers : Step(w)
    \/ CycleStep
    \/ Environment

Spec == Init /\ [][Next]_vars

\* Node runs every continuation that is ready, a call ends, the interval timer
\* keeps firing, and the garbage collector removes what was deleted.  Nobody
\* has to send a request.
Fairness ==
    /\ \A w \in Workers : WF_vars(Step(w))
    /\ WF_vars(CycleStep)
    /\ \A r \in Rows : WF_vars(CollectGarbage(r))

FairSpec == Spec /\ Fairness

-----------------------------------------------------------------------------
(* Properties.                                                             *)

\* A removal in progress of a row that is in the database is older than the row:
\* it comes from a request that deleted an earlier row of the same id, or from a
\* cycle that read the table before the row was created.  The latter does happen:
\* deleteStaleResources takes down a new row whose own request was faster, until
\* the next cycle (Converges).  No row the cycle could read is ever chosen.
RemovalOlderThanRow ==
    \A w \in Workers : work[w].pc \in Deleting =>
        LET row == db[work[w].row] IN row = Nil \/ work[w].ver < row.key

\* Every row the snapshot of kind k lacks is absent, or younger than it.
Covers(k) ==
    \A r \in Rows : Kind(r) = k /\ r \notin snap[k].rows =>
        db[r] = Nil \/ snap[k].asOf < db[r].key

\* The same for what the prune step is about to list: the snapshot it compares
\* the list with, read before all the syncs, lacks no row that is older than it.
SnapshotComplete ==
    \A k \in Kinds : work[<<"list", k>>].pc = "list" => Covers(k)

\* A synchronization of r with the key it has now is past its Secret, or the
\* resource shows what such a synchronization wrote.
PastSecret == {"readResource", "replaceResource", "createResource", "deleteLegacy"}
Published(r) ==
    \/ cr[r] # Nil /\ cr[r].ver >= db[r].key
    \/ \E w \in Workers : /\ work[w].pc \in PastSecret /\ work[w].row = r
                          /\ work[w].key = db[r].key
HasKey(r) == secrets[SecretName(r)] = db[r].key

\* Worker w takes a step of a chain that began before its row was created: the
\* sync or the removal of an earlier row of the id, or a cycle's prune step.
LateStep(w) == /\ work[w].pc \in Syncing \cup Deleting /\ work'[w].pc # work[w].pc
               /\ work[w].ver < db[work[w].row].key

\* The Secret comes first: a row, whenever it was created, is published only with
\* its own API key in its Secret, so that its pod can start and authenticate (the
\* order of the calls in syncServer).  It loses the key only to a late step.
ResourceHasItsKey ==
    [][NoNameCollision =>
        \A r \in Rows : db[r] # Nil /\ db'[r] # Nil /\ Published(r)' /\ ~HasKey(r)' =>
            \/ Published(r) /\ ~HasKey(r)
            \/ \E w \in Workers : work[w].row = r /\ LateStep(w)]_vars

\* The cycle, or a list call that a failed cycle left behind, will compare its
\* snapshot of kind k with the cluster.
WillUse(k) == \/ cycle.pc \in {"read", "sync"} /\ k \notin cycle.unread
              \/ work[<<"list", k>>].pc = "list"

\* A removal of r is in progress, or may follow from a snapshot that lacks it.
Endangered(r) ==
    \/ \E w \in Workers : work[w].pc \in Deleting /\ work[w].row = r
    \/ WillUse(Kind(r)) /\ r \notin snap[Kind(r)].rows

\* A row of the database that is not in danger keeps its Secret and its resource,
\* and stays out of danger, until it is deleted: whatever can take down a row that
\* is in the database was under way when the row was created, the prune step
\* included, and the sync of another row never does.
Live(r) == cr[r] # Nil /\ ~cr[r].deleting
Loses(r) == \/ secrets[SecretName(r)] # Nil /\ secrets'[SecretName(r)] = Nil
            \/ Live(r) /\ ~Live(r)'
LiveRowKept ==
    [][NoNameCollision =>
        \A r \in Rows : db[r] # Nil /\ ~Endangered(r) =>
            ~Loses(r) /\ (db'[r] # Nil => ~Endangered(r)')]_vars

\* The cluster shows exactly the rows of the database, with their content and
\* their key, and no Secret of the earlier release is left for them.
InSync ==
    \A r \in Rows :
        IF db[r] = Nil THEN cr[r] = Nil
        ELSE /\ cr[r] = [ver |-> db[r].ver, deleting |-> FALSE]
             /\ secrets[SecretName(r)] = db[r].key
             /\ secrets[LegacyName(r)] = Nil

\* Once requests and failures stop, the cluster converges to the database and
\* stays there, whatever races, failures and crashes came before: the cycle of
\* the timer repairs them all.
Converges == <>[]InSync

-----------------------------------------------------------------------------
(* The inductive invariant behind RemovalOlderThanRow.                     *)

\* A job that is under way has a row, only list workers list, and a removal
\* remembers a commit that happened and that is older than its row.
JobOK(w) ==
    LET j == work[w] IN
    /\ j.pc \notin {"idle", "list"} => j.row \in Rows
    /\ j.pc = "list" => w[1] = "list"
    /\ w[1] = "list" => j.pc \in {"idle", "list"}
    /\ j.pc \in Deleting => /\ j.ver <= commits
                            /\ db[j.row] = Nil \/ j.ver < db[j.row].key

\* Nothing refers to a commit that did not happen yet.
CommitsOK ==
    /\ \A k \in Kinds : snap[k].asOf <= commits
    /\ \A r \in Rows : db[r] # Nil => db[r].key <= commits

\* A table the cycle has read: no older list call uses its snapshot.
SnapshotOK ==
    \A k \in Kinds : cycle.pc \in {"read", "sync"} /\ k \notin cycle.unread =>
        work[<<"list", k>>].pc = "idle" /\ Covers(k)

\* Once every table is read there is none left to read.
CycleOK == cycle.pc = "sync" => cycle.unread = {}

\* The inductive invariant: it also has to know that the snapshot is kept
\* unchanged between the reads and the prune step, and that new rows get keys
\* larger than every commit number a removal remembers.
SyncInv ==
    /\ TypeOK /\ CommitsOK /\ CycleOK
    /\ \A w \in Workers : JobOK(w)
    /\ SnapshotOK /\ SnapshotComplete
=============================================================================
