--------------------------- MODULE Cluster_proofs ---------------------------
(* Proofs about PluginRegistry, for any servers, artifacts and requests: the *)
(* types with the keys of the tables, what is deleted stays deleted, a       *)
(* server keeps one version of a plugin, no synchronization takes back what  *)
(* another published, and the bucket matches the library;                    *)
(* and about ClusterPage, for any lists and polls: what a poll read is shown. *)
EXTENDS MCCluster, TLAPS

\* What a request holds at each of its steps.
ShapeOK(j) ==
    /\ j.at \in {"idle", "done", "sync", "backfill"} => j.op = "list"
    /\ j.at = "put" => j.op = "upload"
    /\ j.at = "upsert" => j.op \in {"upload", "register", "install"}
    /\ j.at = "object" => j.op = "delete" /\ j.keys \subseteq Upload
    /\ j.at \in {"statement", "commit"} => j.op \in {"install", "deploy", "assign", "delete"}
    /\ j.at = "check" => j.op \in {"install", "deploy", "assign"}
    /\ j.op = "upload" => j.keys \subseteq Upload
    /\ j.op \in {"register", "install"} => j.keys \subseteq Release
    /\ j.at \in {"put", "upsert"} => \E k \in Key : j.keys = {k}
    /\ j.op = "delete" => j.server = {} /\ \E x \in Row : j.rows = {x} /\ j.keys = {x[1]}
    /\ j.at \in {"check", "statement", "commit"} /\ j.op \in {"install", "deploy"} =>
           \A x, y \in j.rows : x = y

OneOf(xs) == \A x, y \in xs : SameProject(x, y) => x = y

\* What a server would have if the transaction committed.
Left(j, s) == {x \in Row : <<s, x>> \in (installed \ j.doomed) \cup (j.server \X j.rows)}

\* A transaction leaves one version of each plugin on its servers.
LeavesOne(r) ==
    InTransaction(req[r]) => \A s \in req[r].server \ mixed : OneOf(Left(req[r], s))

HasRow(c) == \E x \in library : x[1] \in Upload /\ ProjectOf[x[1]] = c
Matches(c) == c \in store <=> HasRow(c)

\* How far a request on a JAR has come.
OnItsWay(j) ==
    \A c \in JarsOf(j) \ marred :
        /\ j.at \in {"put", "object"} => Matches(c)
        /\ j.at = "upsert" => c \in store
        /\ j.at \in {"statement", "commit"} => c \notin store

Versions ==
    /\ \A r \in Request : LeavesOne(r)
    /\ \A q, r \in Request : q # r /\ InTransaction(req[q]) /\ InTransaction(req[r]) =>
           req[q].server \cap req[r].server \subseteq mixed
    /\ OneVersion

Objects ==
    /\ \A r \in Request : OnItsWay(req[r])
    /\ \A q, r \in Request : q # r => JarsOf(req[q]) \cap JarsOf(req[r]) \subseteq marred
    /\ StoreMatchesLibrary

-----------------------------------------------------------------------------
(* Types.                                                                   *)

Ats == Waiting \cup {"idle", "sync", "done"}

\* A job stays a job when a field is replaced.
LEMMA JobFields ==
    ASSUME NEW j \in JobType
    PROVE  /\ \A a \in Ats : [j EXCEPT !.at = a] \in JobType
           /\ \A s \in SUBSET Server : [j EXCEPT !.server = s] \in JobType
           /\ \A s \in SUBSET Server : [j EXCEPT !.stale = s] \in JobType
           /\ \A xs \in SUBSET Row : [j EXCEPT !.rows = xs] \in JobType
           /\ \A ks \in SUBSET Key : [j EXCEPT !.keys = ks] \in JobType
           /\ \A o \in Ops : [j EXCEPT !.op = o] \in JobType
           /\ \A ps \in SUBSET Installation : [j EXCEPT !.doomed = ps] \in JobType
           /\ \A ps \in SUBSET Installation : [j EXCEPT !.seen = ps] \in JobType
  BY DEF JobType, Ats

LEMMA RestJobs ==
    /\ Idle \in JobType /\ Done \in JobType /\ Done.at = "done" /\ Done.op = "list"
    /\ \A ss \in SUBSET Server :
          Publish(ss) \in JobType /\ Publish(ss).at \in {"sync", "done"} /\ Publish(ss).op = "list"
<1>1. Idle \in JobType /\ Idle.op = "list"
  BY DEF Idle, JobType, Waiting, Ops
<1>2. Done \in JobType /\ Done.at = "done" /\ Done.op = "list"
  BY <1>1, JobFields DEF Done, Ats, JobType
<1>3. ASSUME NEW ss \in SUBSET Server
      PROVE  /\ [Idle EXCEPT !.at = "sync", !.stale = ss] \in JobType
             /\ [Idle EXCEPT !.at = "sync", !.stale = ss].at = "sync"
             /\ [Idle EXCEPT !.at = "sync", !.stale = ss].op = "list"
  <2>1. [Idle EXCEPT !.at = "sync"] \in JobType
    BY <1>1, JobFields DEF Ats
  <2> QED
    BY <1>1, <2>1 DEF JobType
<1> QED
  BY <1>1, <1>2, <1>3 DEF Publish

LEMMA Chains ==
    ASSUME NEW j \in JobType
    PROVE  /\ \A a \in Ats, o \in Ops, ks \in SUBSET Key :
                [j EXCEPT !.at = a, !.op = o, !.keys = ks] \in JobType
           /\ \A a \in Ats, o \in Ops, s \in SUBSET Server, ks \in SUBSET Key :
                [j EXCEPT !.at = a, !.op = o, !.server = s, !.keys = ks] \in JobType
           /\ \A a \in Ats, o \in Ops, xs \in SUBSET Row, ks \in SUBSET Key, s \in SUBSET Server :
                [j EXCEPT !.at = a, !.op = o, !.rows = xs, !.keys = ks, !.stale = s] \in JobType
           /\ \A a \in Ats, o \in Ops, xs \in SUBSET Row :
                [j EXCEPT !.at = a, !.op = o, !.rows = xs] \in JobType
           /\ \A a \in Ats, o \in Ops, s \in SUBSET Server, xs \in SUBSET Row :
                [j EXCEPT !.at = a, !.op = o, !.server = s, !.rows = xs] \in JobType
           /\ \A a \in Ats, ps \in SUBSET Installation :
                [j EXCEPT !.at = a, !.doomed = ps] \in JobType
           /\ \A a \in Ats, xs \in SUBSET Row :
                [j EXCEPT !.at = a, !.rows = xs] \in JobType
           /\ \A s \in SUBSET Server, t \in SUBSET Server, ps \in SUBSET Installation :
                [j EXCEPT !.stale = s, !.server = t, !.seen = ps] \in JobType
           /\ \A t \in SUBSET Server, ps \in SUBSET Installation :
                [j EXCEPT !.server = t, !.seen = ps] \in JobType
<1>1. \A a \in Ats, o \in Ops, ks \in SUBSET Key :
        [j EXCEPT !.at = a, !.op = o, !.keys = ks] \in JobType
  BY DEF JobType, Ats
<1>2. \A a \in Ats, o \in Ops, s \in SUBSET Server, ks \in SUBSET Key :
        [j EXCEPT !.at = a, !.op = o, !.server = s, !.keys = ks] \in JobType
  BY DEF JobType, Ats
<1>3. \A a \in Ats, o \in Ops, xs \in SUBSET Row, ks \in SUBSET Key, s \in SUBSET Server :
        [j EXCEPT !.at = a, !.op = o, !.rows = xs, !.keys = ks, !.stale = s] \in JobType
  BY DEF JobType, Ats
<1>4. \A a \in Ats, o \in Ops, xs \in SUBSET Row :
        [j EXCEPT !.at = a, !.op = o, !.rows = xs] \in JobType
  BY DEF JobType, Ats
<1>5. \A a \in Ats, o \in Ops, s \in SUBSET Server, xs \in SUBSET Row :
        [j EXCEPT !.at = a, !.op = o, !.server = s, !.rows = xs] \in JobType
  BY DEF JobType, Ats
<1>6. \A a \in Ats, ps \in SUBSET Installation :
        [j EXCEPT !.at = a, !.doomed = ps] \in JobType
  BY DEF JobType, Ats
<1>7. \A a \in Ats, xs \in SUBSET Row :
        [j EXCEPT !.at = a, !.rows = xs] \in JobType
  BY DEF JobType, Ats
<1>8. \A s \in SUBSET Server, t \in SUBSET Server, ps \in SUBSET Installation :
        [j EXCEPT !.stale = s, !.server = t, !.seen = ps] \in JobType
  BY DEF JobType, Ats
<1>9. \A t \in SUBSET Server, ps \in SUBSET Installation :
        [j EXCEPT !.server = t, !.seen = ps] \in JobType
  BY DEF JobType, Ats
<1> QED
  BY <1>1, <1>2, <1>3, <1>4, <1>5, <1>6, <1>7, <1>8, <1>9

\* Every step of a request gives it a job of the right shape.
LEMMA NextJob ==
    ASSUME TypeOK, \A q \in Request : ShapeOK(req[q]), NEW r \in Request,
           Starts(r) \/ Step(r) \/ Fail(r) \/ LoseSync(r)
    PROVE  \E job \in JobType : ShapeOK(job) /\ req' = [req EXCEPT ![r] = job]
<1> DEFINE Goal == \E job \in JobType : ShapeOK(job) /\ req' = [req EXCEPT ![r] = job]
<1> DEFINE j == req[r]
<1>0. /\ j \in JobType /\ ShapeOK(j) /\ Idle \in JobType /\ Done \in JobType
      /\ library \subseteq Row /\ installed \subseteq Installation
  BY RestJobs DEF TypeOK, Row, Installation
<1>d. ShapeOK(Done) /\ \A ss \in SUBSET Server : ShapeOK(Publish(ss))
  BY RestJobs DEF ShapeOK
<1>1. ASSUME NEW k \in Upload, BeginUpload(r, k) PROVE Goal
  <2> DEFINE job == [Idle EXCEPT !.at = "put", !.op = "upload", !.keys = {k}]
  <2>f. "put" \in Ats /\ "upload" \in Ops /\ {k} \in SUBSET Key
    BY <1>0 DEF Ats, Waiting, Ops, Key
  <2>1. job \in JobType
    BY <2>f, <1>0, Chains
  <2>2. job.at = "put" /\ job.op = "upload" /\ job.keys = {k}
    BY DEF Idle
  <2>3. ShapeOK(job)
    BY <2>2 DEF ShapeOK, Key
  <2> QED
    BY <2>1, <2>3, <1>1 DEF BeginUpload, Begin
<1>2. ASSUME NEW k \in Release, BeginRegister(r, k) PROVE Goal
  <2> DEFINE job == [Idle EXCEPT !.at = "upsert", !.op = "register", !.keys = {k}]
  <2>f. "upsert" \in Ats /\ "register" \in Ops /\ {k} \in SUBSET Key
    BY <1>0 DEF Ats, Waiting, Ops, Key
  <2>1. job \in JobType
    BY <2>f, <1>0, Chains
  <2>2. job.at = "upsert" /\ job.op = "register" /\ job.keys = {k}
    BY DEF Idle
  <2>3. ShapeOK(job)
    BY <2>2 DEF ShapeOK, Key
  <2> QED
    BY <2>1, <2>3, <1>2 DEF BeginRegister, Begin
<1>3. ASSUME NEW s \in Server, NEW k \in Release, BeginInstall(r, s, k) PROVE Goal
  <2> DEFINE job == [Idle EXCEPT !.at = "upsert", !.op = "install", !.server = {s}, !.keys = {k}]
  <2>f. "upsert" \in Ats /\ "install" \in Ops /\ {k} \in SUBSET Key /\ {s} \in SUBSET Server
    BY <1>0 DEF Ats, Waiting, Ops, Key
  <2>1. job \in JobType
    BY <2>f, <1>0, Chains
  <2>2. job.at = "upsert" /\ job.op = "install" /\ job.keys = {k}
    BY DEF Idle
  <2>3. ShapeOK(job)
    BY <2>2 DEF ShapeOK, Key
  <2> QED
    BY <2>1, <2>3, <1>3 DEF BeginInstall, Begin
<1>4. ASSUME NEW s \in Server, NEW x \in library, BeginDeploy(r, s, x) PROVE Goal
  <2> DEFINE job == [Idle EXCEPT !.at = "check", !.op = "deploy", !.server = {s}, !.rows = {x}]
  <2>f. "check" \in Ats /\ "deploy" \in Ops /\ {x} \in SUBSET Row /\ {s} \in SUBSET Server
    BY <1>0 DEF Ats, Waiting, Ops, Key
  <2>1. job \in JobType
    BY <2>f, <1>0, Chains
  <2>2. job.at = "check" /\ job.op = "deploy" /\ job.rows = {x}
    BY DEF Idle
  <2>3. ShapeOK(job)
    BY <2>2 DEF ShapeOK
  <2> QED
    BY <2>1, <2>3, <1>4 DEF BeginDeploy, Begin
<1>5. ASSUME NEW s \in Server, NEW xs \in SUBSET library, BeginAssign(r, s, xs) PROVE Goal
  <2> DEFINE job == [Idle EXCEPT !.at = "check", !.op = "assign", !.server = {s}, !.rows = xs]
  <2>f. "check" \in Ats /\ "assign" \in Ops /\ xs \in SUBSET Row /\ {s} \in SUBSET Server
    BY <1>0 DEF Ats, Waiting, Ops, Key
  <2>1. job \in JobType
    BY <2>f, <1>0, Chains
  <2>2. job.at = "check" /\ job.op = "assign"
    BY DEF Idle
  <2>3. ShapeOK(job)
    BY <2>2 DEF ShapeOK
  <2> QED
    BY <2>1, <2>3, <1>5 DEF BeginAssign, Begin
<1>6. ASSUME NEW x \in library, BeginDelete(r, x) PROVE Goal
  <2> DEFINE a == IF x[1] \in Upload THEN "object" ELSE "statement"
             job == [Idle EXCEPT !.at = a, !.op = "delete", !.rows = {x}, !.keys = {x[1]},
                                 !.stale = {s \in Server : <<s, x>> \in installed}]
  <2>0. x \in Row /\ x[1] \in Key
    BY <1>0 DEF Row
  <2>f. a \in Ats /\ "delete" \in Ops /\ {x} \in SUBSET Row /\ {x[1]} \in SUBSET Key
    BY <2>0 DEF Ats, Waiting, Ops, Key
  <2>1. job \in JobType
    BY <2>f, <1>0, Chains
  <2>2. job.at = a /\ job.op = "delete" /\ job.rows = {x} /\ job.keys = {x[1]} /\ job.server = {}
    BY DEF Idle
  <2>3. ShapeOK(job)
    BY <2>0, <2>2 DEF ShapeOK
  <2> QED
    BY <2>1, <2>3, <1>6 DEF BeginDelete, Begin
<1>7. ASSUME NEW xs \in SUBSET library, BeginList(r, xs) PROVE Goal
  <2> DEFINE job == [Idle EXCEPT !.at = "backfill", !.op = "list", !.rows = xs]
  <2>f. "backfill" \in Ats /\ "list" \in Ops /\ xs \in SUBSET Row
    BY <1>0 DEF Ats, Waiting, Ops, Key
  <2>1. job \in JobType
    BY <2>f, <1>0, Chains
  <2>2. job.at = "backfill" /\ job.op = "list"
    BY DEF Idle
  <2>3. ShapeOK(job)
    BY <2>2 DEF ShapeOK
  <2> QED
    BY <2>1, <2>3, <1>7 DEF BeginList, Begin
<1>8. ASSUME NEW p \in installed, Remove(r, p) PROVE Goal
  <2>1. {p[1]} \in SUBSET Server
    BY <1>0 DEF Installation
  <2> QED
    BY <2>1, <1>d, <1>8, RestJobs DEF Remove
<1>9. CASE Backfill(r)
  <2>1. PICK x \in j.rows :
          req' = [req EXCEPT ![r] = IF j.rows = {x} THEN Done ELSE [j EXCEPT !.rows = j.rows \ {x}]]
    BY <1>9 DEF Backfill
  <2> DEFINE job == [j EXCEPT !.rows = j.rows \ {x}]
  <2>2. job \in JobType
    BY <1>0, JobFields DEF JobType
  <2>3. j.at = "backfill"
    BY <1>9 DEF Backfill
  <2>4. job.at = j.at /\ job.op = j.op /\ job.keys = j.keys /\ job.server = j.server
    BY <1>0 DEF JobType
  <2>5. ShapeOK(job)
    BY <1>0, <2>3, <2>4 DEF ShapeOK
  <2>6. req' = [req EXCEPT ![r] = Done] \/ req' = [req EXCEPT ![r] = job]
    BY <2>1
  <2> QED
    BY <2>2, <2>5, <2>6, <1>0, <1>d
<1>10. CASE PutObject(r)
  <2> DEFINE job == [j EXCEPT !.at = "upsert"]
  <2>1. job \in JobType /\ j.at = "put"
    BY <1>0, <1>10, JobFields DEF Ats, Waiting, PutObject
  <2>2. /\ job.at = "upsert" /\ job.op = j.op /\ job.keys = j.keys /\ job.server = j.server
        /\ job.rows = j.rows
    BY <1>0 DEF JobType
  <2>3. ShapeOK(job)
    BY <1>0, <2>1, <2>2 DEF ShapeOK
  <2> QED
    BY <2>1, <2>3, <1>10 DEF PutObject
<1>11. CASE Upsert(r)
  <2>1. PICK k \in j.keys :
          /\ IF RowOf(k) # {}
             THEN library' = library
             ELSE library' = library \cup {<<k, created + 1>>} /\ created < MaxRows
          /\ req' = [req EXCEPT ![r] =
               IF j.op = "install"
               THEN [j EXCEPT !.at = "check", !.rows = {x \in library' : x[1] = k}]
               ELSE Done]
    BY <1>11 DEF Upsert
  <2> DEFINE xs == {x \in library' : x[1] = k}
             job == [j EXCEPT !.at = "check", !.rows = xs]
  <2>2. k \in Key /\ (created + 1 \in 1 .. MaxRows \/ library' = library)
    BY <2>1, <1>0, RegistryAssumption DEF TypeOK, JobType
  <2>3. library' \subseteq Row
    BY <2>1, <2>2, <1>0 DEF Row, TypeOK, JobType
  <2>4. job \in JobType
    BY <2>3, <1>0, Chains DEF Ats, Waiting
  <2>5. \A x, y \in xs : x = y
    <3>1. CASE RowOf(k) # {}
      BY <3>1, <2>1 DEF TypeOK
    <3>2. CASE RowOf(k) = {}
      BY <3>2, <2>1 DEF RowOf
    <3> QED
      BY <3>1, <3>2
  <2>6. /\ job.at = "check" /\ job.op = j.op /\ job.keys = j.keys /\ job.server = j.server
        /\ job.rows = xs
    BY <1>0 DEF JobType
  <2>7. j.op = "install" => ShapeOK(job)
    BY <1>0, <2>5, <2>6 DEF ShapeOK
  <2> QED
    BY <2>1, <2>4, <2>7, <1>0, <1>d
<1>12. CASE DeleteObject(r)
  <2> DEFINE job == [j EXCEPT !.at = "statement"]
  <2>1. job \in JobType /\ j.at = "object"
    BY <1>0, <1>12, JobFields DEF Ats, Waiting, DeleteObject
  <2>2. /\ job.at = "statement" /\ job.op = j.op /\ job.keys = j.keys /\ job.server = j.server
        /\ job.rows = j.rows
    BY <1>0 DEF JobType
  <2>3. ShapeOK(job)
    BY <1>0, <2>1, <2>2 DEF ShapeOK
  <2> QED
    BY <2>1, <2>3, <1>12 DEF DeleteObject
<1>13. CASE Check(r)
  <2> DEFINE job == [j EXCEPT !.at = "statement"]
  <2>1. job \in JobType /\ j.at = "check"
    BY <1>0, <1>13, JobFields DEF Ats, Waiting, Check
  <2>2. /\ job.at = "statement" /\ job.op = j.op /\ job.keys = j.keys /\ job.server = j.server
        /\ job.rows = j.rows
    BY <1>0 DEF JobType
  <2>3. ShapeOK(job)
    BY <1>0, <2>1, <2>2 DEF ShapeOK
  <2>4. \/ req' = [req EXCEPT ![r] = job]
        \/ req' = [req EXCEPT ![r] = Done]
    BY <1>13 DEF Check
  <2> QED
    BY <2>1, <2>3, <2>4, <1>0, <1>d
<1>14. CASE Statement(r)
  <2> DEFINE job == [j EXCEPT !.at = "commit", !.doomed = Doomed(j)]
  <2>0. Doomed(j) \subseteq Installation /\ j.at = "statement"
    BY <1>0, <1>14 DEF Doomed, Statement
  <2>1. job \in JobType
    BY <1>0, <2>0, Chains DEF Ats, Waiting
  <2>2. /\ job.at = "commit" /\ job.op = j.op /\ job.keys = j.keys /\ job.server = j.server
        /\ job.rows = j.rows
    BY <1>0 DEF JobType
  <2>3. ShapeOK(job)
    BY <1>0, <2>0, <2>2 DEF ShapeOK
  <2>4. req' = [req EXCEPT ![r] = job]
    BY <1>14, <1>0 DEF Statement, TypeOK
  <2> QED
    BY <2>1, <2>3, <2>4
<1>15. CASE Commit(r)
  <2>1. j.stale \in SUBSET Server /\ j.server \in SUBSET Server
    BY <1>0 DEF JobType
  <2> QED
    BY <2>1, <1>d, <1>15, RestJobs DEF Commit
<1>16. CASE RollBack(r)
  BY <1>0, <1>d, <1>16 DEF RollBack
<1>17. CASE Fail(r)
  BY <1>0, <1>d, <1>17 DEF Fail
<1>18. ASSUME j.at = "sync",
              NEW s \in SUBSET Server, NEW t \in SUBSET Server, NEW ps \in SUBSET Installation
       PROVE  /\ [j EXCEPT !.stale = s, !.server = t, !.seen = ps] \in JobType
              /\ ShapeOK([j EXCEPT !.stale = s, !.server = t, !.seen = ps])
  <2>1. [j EXCEPT !.stale = s, !.server = t, !.seen = ps] \in JobType
    BY <1>0, Chains
  <2>2. /\ [j EXCEPT !.stale = s, !.server = t, !.seen = ps].at = "sync"
        /\ [j EXCEPT !.stale = s, !.server = t, !.seen = ps].op = "list"
    BY <1>0, <1>18 DEF JobType, ShapeOK
  <2> QED
    BY <2>1, <2>2 DEF ShapeOK
<1>19. /\ j.stale \subseteq Server /\ j.server \subseteq Server
       /\ j.seen \subseteq Installation
  BY <1>0 DEF JobType
<1>20. CASE SyncRead(r)
  <2>1. PICK s \in j.stale :
          req' = [req EXCEPT ![r] = [j EXCEPT !.stale = j.stale \ {s}, !.server = j.server \cup {s},
                                             !.seen = j.seen \cup {p \in installed : p[1] = s}]]
    BY <1>20 DEF SyncRead
  <2>2. /\ j.stale \ {s} \in SUBSET Server /\ j.server \cup {s} \in SUBSET Server
        /\ j.seen \cup {p \in installed : p[1] = s} \in SUBSET Installation
    BY <2>1, <1>19, <1>0
  <2>3. j.at = "sync"
    BY <1>20 DEF SyncRead
  <2> QED
    BY <2>1, <2>2, <2>3, <1>18
<1>21. ASSUME NEW s \in Server, j.at = "sync" PROVE Synced(j, s) \in JobType /\ ShapeOK(Synced(j, s))
  <2>1. /\ j.stale \ {s} \in SUBSET Server /\ j.server \ {s} \in SUBSET Server
        /\ {p \in j.seen : p[1] # s} \in SUBSET Installation
    BY <1>19
  <2> QED
    BY <2>1, <1>18, <1>21, <1>0, <1>d DEF Synced, Syncing
<1>22. CASE SyncWrite(r) \/ LoseSync(r)
  <2>1. PICK s \in Server : req' = [req EXCEPT ![r] = Synced(j, s)]
    BY <1>22, <1>19 DEF SyncWrite, LoseSync
  <2>2. j.at = "sync"
    BY <1>22 DEF SyncWrite, LoseSync
  <2> QED
    BY <2>1, <2>2, <1>21
<1>23. Starts(r) => Goal
  <2> HIDE DEF Goal
  <2> QED
    BY <1>1, <1>2, <1>3, <1>4, <1>5, <1>6, <1>7, <1>8 DEF Starts
<1>24. Step(r) => Goal
  BY <1>9, <1>10, <1>11, <1>12, <1>13, <1>14, <1>15, <1>16, <1>20, <1>22 DEF Step
<1> QED
  BY <1>17, <1>22, <1>23, <1>24

LEMMA JarsAreJars == \A j : JarsOf(j) \subseteq Jar
  BY DEF JarsOf, Jar

\* Every step keeps the types, the keys and the shapes.
LEMMA TypeStep ==
    ASSUME TypeOK, \A q \in Request : ShapeOK(req[q]), [Next]_vars
    PROVE  TypeOK' /\ \A q \in Request : ShapeOK(req[q])'
<1>0. installed \subseteq Installation
  BY DEF TypeOK, Installation
<1>1. CASE UNCHANGED vars
  BY <1>1 DEF vars, TypeOK, ShapeOK
<1>2. CASE CycleLoad \/ CycleWrite
  <2>1. CASE CycleLoad
    BY <2>1, <1>0 DEF CycleLoad, TypeOK, ghosts
  <2>2. CASE CycleWrite
    <3>1. PICK s \in cycle.todo :
            /\ published' = [published EXCEPT ![s] = {x \in Row : <<s, x>> \in cycle.seen}]
            /\ cycle' = [todo |-> cycle.todo \ {s}, seen |-> {p \in cycle.seen : p[1] # s}]
      BY <2>2 DEF CycleWrite
    <3>2. cycle' \in [todo : SUBSET Server, seen : SUBSET Installation]
      BY <3>1 DEF TypeOK
    <3>3. published' \in [Server -> SUBSET Row]
      BY <3>1 DEF TypeOK
    <3> QED
      BY <3>2, <3>3, <2>2 DEF CycleWrite, TypeOK, ghosts
  <2> QED
    BY <1>2, <2>1, <2>2
<1>3. ASSUME NEW s \in Server, DeleteServer(s) PROVE TypeOK' /\ \A q \in Request : ShapeOK(req[q])'
  BY <1>3 DEF DeleteServer, TypeOK, ghosts
<1>4. ASSUME NEW r \in Request, Starts(r) \/ Step(r) \/ Fail(r) \/ LoseSync(r)
      PROVE  TypeOK' /\ \A q \in Request : ShapeOK(req[q])'
  <2> DEFINE j == req[r]
  <2>1. PICK job \in JobType : ShapeOK(job) /\ req' = [req EXCEPT ![r] = job]
    BY <1>4, NextJob
  <2>2. req' \in [Request -> JobType] /\ \A q \in Request : ShapeOK(req[q])'
    BY <2>1 DEF TypeOK, ShapeOK
  <2>3. j \in JobType /\ ShapeOK(j)
    BY DEF TypeOK
  <2>4. CASE Starts(r)
    <3>1. CASE \E n : Begin(r, n)
      BY <3>1, <2>2, JarsAreJars DEF Begin, TypeOK
    <3>2. CASE \E p \in installed : Remove(r, p)
      BY <3>2, <2>2 DEF Remove, TypeOK, ghosts
    <3> QED
      BY <2>4, <3>1, <3>2 DEF Starts, BeginUpload, BeginRegister, BeginInstall, BeginDeploy,
         BeginAssign, BeginDelete, BeginList
  <2>5. CASE Backfill(r) \/ Check(r) \/ SyncRead(r) \/ LoseSync(r)
    <3>1. /\ UNCHANGED <<library, created, store, servers, installed, published, cycle, marred, mixed>>
          /\ failures' \in {failures, failures + 1}
      <4>1. CASE Backfill(r)
        BY <4>1 DEF Backfill, ghosts
      <4>2. CASE Check(r)
        BY <4>2 DEF Check, ghosts
      <4>3. CASE SyncRead(r)
        BY <4>3 DEF SyncRead, ghosts
      <4>4. CASE LoseSync(r)
        BY <4>4 DEF LoseSync
      <4> QED
        BY <2>5, <4>1, <4>2, <4>3, <4>4
    <3> QED
      BY <3>1, <2>2 DEF TypeOK
  <2>6. CASE PutObject(r) \/ DeleteObject(r)
    <3>1. j.keys \subseteq Upload
      BY <2>6, <2>3 DEF PutObject, DeleteObject, ShapeOK
    <3>2. store' \subseteq Jar
      BY <3>1, <2>6 DEF PutObject, DeleteObject, TypeOK, Jar
    <3> QED
      BY <3>2, <2>6, <2>2 DEF PutObject, DeleteObject, TypeOK, ghosts
  <2>7. CASE Upsert(r)
    <3>1. PICK k \in j.keys :
            \/ RowOf(k) # {} /\ library' = library /\ created' = created
            \/ /\ RowOf(k) = {} /\ created < MaxRows /\ created' = created + 1
               /\ library' = library \cup {<<k, created + 1>>}
      BY <2>7 DEF Upsert
    <3>2. k \in Key /\ (created < MaxRows => created + 1 \in 1 .. MaxRows)
      BY <2>3, RegistryAssumption DEF TypeOK, JobType
    <3>3. library' \subseteq Row /\ library \subseteq library' /\ created' \in Nat
      BY <3>1, <3>2 DEF TypeOK, Row
    <3>4. \A x, y \in library' : x[1] = y[1] => x = y
      BY <3>1 DEF TypeOK, RowOf
    <3> QED
      BY <3>3, <3>4, <2>7, <2>2 DEF Upsert, TypeOK, ghosts
  <2>8. CASE Statement(r)
    <3>1. mixed' \subseteq Server
      BY <2>8, <2>3 DEF Statement, TypeOK, JobType
    <3> QED
      BY <3>1, <2>8, <2>2 DEF Statement, TypeOK
  <2>9. CASE Commit(r)
    <3>1. j.op = "delete" => j.server = {}
      BY <2>9, <2>3 DEF ShapeOK
    <3>2. /\ j.server \subseteq servers /\ j.rows \subseteq library
          /\ j.op = "delete" => \A p \in installed \ j.doomed : p[2] \notin j.rows
          /\ installed' = (installed \ j.doomed) \cup (j.server \X j.rows)
          /\ library' = IF j.op = "delete" THEN library \ j.rows ELSE library
          /\ servers' = servers
      BY <2>9 DEF Commit, Committable
    <3>3. installed' \subseteq servers' \X library'
      <4>1. installed \subseteq servers \X library
        BY DEF TypeOK
      <4>2. CASE j.op = "delete"
        BY <4>1, <4>2, <3>1, <3>2
      <4>3. CASE j.op # "delete"
        BY <4>1, <4>3, <3>2
      <4> QED
        BY <4>2, <4>3
    <3>4. library' \subseteq library
      BY <3>2
    <3> QED
      BY <3>3, <3>4, <2>9, <2>2 DEF Commit, TypeOK, ghosts
  <2>10. CASE RollBack(r) \/ Fail(r)
    BY <2>10, <2>2, JarsAreJars DEF RollBack, Fail, TypeOK
  <2>11. CASE SyncWrite(r)
    <3>1. PICK s \in j.server : published' = [published EXCEPT ![s] = {x \in Row : <<s, x>> \in j.seen}]
      BY <2>11 DEF SyncWrite
    <3>2. published' \in [Server -> SUBSET Row]
      BY <3>1 DEF TypeOK
    <3> QED
      BY <3>2, <2>11, <2>2 DEF SyncWrite, TypeOK, ghosts
  <2> QED
    BY <1>4, <2>4, <2>5, <2>6, <2>7, <2>8, <2>9, <2>10, <2>11 DEF Step
<1> QED
  BY <1>1, <1>2, <1>3, <1>4 DEF Next

LEMMA TypeInit == Init => TypeOK /\ \A q \in Request : ShapeOK(req[q])
<1> SUFFICES ASSUME Init PROVE TypeOK /\ \A q \in Request : ShapeOK(req[q])
  OBVIOUS
<1>1. PICK keys \in SUBSET Key :
        /\ library = {<<k, 1>> : k \in keys}
        /\ store = {ProjectOf[k] : k \in keys \cap Upload}
  BY DEF Init
<1>2. library \subseteq Row /\ store \subseteq Jar /\ \A x, y \in library : x[1] = y[1] => x = y
  BY <1>1, RegistryAssumption DEF Row, Jar
<1>3. published \in [Server -> SUBSET Row] /\ cycle \in [todo : SUBSET Server, seen : SUBSET Installation]
  BY DEF Init, Plugins, NoCycle
<1>4. \A q \in Request : req[q] = Idle
  BY DEF Init
<1>5. ShapeOK(Idle)
  BY DEF ShapeOK, Idle
<1>6. req \in [Request -> JobType]
  BY <1>4, RestJobs DEF Init
<1> QED
  BY <1>2, <1>3, <1>4, <1>5, <1>6 DEF Init, TypeOK

\* The tables keep their keys and the jobs their shapes, whatever the requests.
THEOREM TypeCorrect == Spec => []TypeOK
<1> DEFINE Inv == TypeOK /\ \A q \in Request : ShapeOK(req[q])
<1>1. Inv /\ [Next]_vars => Inv'
  BY TypeStep
<1> QED
  BY <1>1, TypeInit, PTL DEF Spec

\* What is deleted stays deleted: a row that is new has an id never used.
THEOREM DeletedIsGone == Spec => GoneForGood
<1> DEFINE Inv == TypeOK /\ \A q \in Request : ShapeOK(req[q])
           Fresh == library' \ library \subseteq Row \ (Key \X (1 .. created))
<1>1. Inv /\ [Next]_vars => Inv'
  BY TypeStep
<1>2. Inv /\ [Next]_vars => [Fresh]_vars
  <2> SUFFICES ASSUME Inv, Next PROVE Fresh
    BY DEF Inv
  <2>1. ASSUME NEW r \in Request, Upsert(r) PROVE Fresh
    <3>1. PICK k \in req[r].keys :
            \/ library' = library
            \/ created < MaxRows /\ library' = library \cup {<<k, created + 1>>}
      BY <2>1 DEF Upsert
    <3>2. k \in Key /\ created \in Nat /\ MaxRows \in Nat
      BY RegistryAssumption DEF TypeOK, JobType
    <3>3. created < MaxRows => <<k, created + 1>> \in Row \ (Key \X (1 .. created))
      BY <3>2 DEF Row
    <3> QED
      BY <3>1, <3>3
  <2>2. ASSUME NEW r \in Request, Commit(r) PROVE library' \subseteq library
    BY <2>2 DEF Commit
  <2>3. ASSUME NEW r \in Request, Starts(r) PROVE library' = library
    BY <2>3 DEF Starts, BeginUpload, BeginRegister, BeginInstall, BeginDeploy, BeginAssign,
       BeginDelete, BeginList, Begin, Remove
  <2>4. ASSUME NEW r \in Request,
               \/ Backfill(r) \/ PutObject(r) \/ DeleteObject(r) \/ Check(r) \/ Statement(r)
               \/ RollBack(r) \/ SyncRead(r) \/ SyncWrite(r) \/ Fail(r) \/ LoseSync(r)
        PROVE  library' = library
    BY <2>4 DEF Backfill, PutObject, DeleteObject, Check, Statement, RollBack, SyncRead, SyncWrite,
       Fail, LoseSync
  <2>5. ASSUME CycleLoad \/ CycleWrite \/ \E s \in Server : DeleteServer(s) PROVE library' = library
    BY <2>5 DEF CycleLoad, CycleWrite, DeleteServer
  <2> QED
    BY <2>1, <2>2, <2>3, <2>4, <2>5 DEF Next, Step
<1> QED
  BY <1>1, <1>2, TypeInit, PTL DEF Spec, GoneForGood

-----------------------------------------------------------------------------
(* One version of a plugin on a server.                                     *)

\* A step in which request r takes a job and installs only on the servers of
\* its transaction keeps the versions, if the new job and the tables do.
LEMMA VersionsKept ==
    ASSUME TypeOK, Versions, NEW r \in Request, NEW job \in JobType,
           req' = [req EXCEPT ![r] = job],
           mixed \subseteq mixed',
           \A p \in installed' \ installed : InTransaction(req[r]) /\ p[1] \in req[r].server,
           InTransaction(job) => \A s \in job.server \ mixed' : OneOf(Left(job, s)'),
           InTransaction(job) => \A q \in Request \ {r} :
               InTransaction(req[q]) => job.server \cap req[q].server \subseteq mixed',
           OneVersion'
    PROVE  Versions'
<1>0. req'[r] = job /\ \A q \in Request \ {r} : req'[q] = req[q]
  BY DEF TypeOK
<1>1. ASSUME NEW q \in Request, q # r PROVE LeavesOne(q)'
  <2> SUFFICES ASSUME InTransaction(req[q]), NEW s \in req[q].server \ mixed'
               PROVE  OneOf({x \in Row : <<s, x>> \in (installed' \ req[q].doomed)
                                                        \cup (req[q].server \X req[q].rows)})
    BY <1>0, <1>1 DEF LeavesOne, Left, InTransaction
  <2>1. \A x \in Row : <<s, x>> \in installed' => <<s, x>> \in installed
    <3>1. InTransaction(req[r]) => s \notin req[r].server
      BY <1>1 DEF Versions
    <3> QED
      BY <3>1
  <2>2. OneOf(Left(req[q], s))
    BY DEF Versions, LeavesOne
  <2> QED
    BY <2>1, <2>2 DEF OneOf, Left
<1>2. LeavesOne(r)'
  BY <1>0 DEF LeavesOne, InTransaction, Left
<1>3. ASSUME NEW p \in Request, NEW q \in Request, p # q,
             InTransaction(req[p])', InTransaction(req[q])'
      PROVE  req'[p].server \cap req'[q].server \subseteq mixed'
  BY <1>0, <1>3 DEF Versions, InTransaction
<1> QED
  BY <1>1, <1>2, <1>3 DEF Versions

\* A step that installs nothing and starts no transaction keeps the versions.
LEMMA VersionsQuiet ==
    ASSUME TypeOK, Versions, NEW r \in Request, NEW job \in JobType,
           req' = [req EXCEPT ![r] = job], ~InTransaction(job),
           mixed' = mixed, installed' \subseteq installed
    PROVE  Versions'
<1>1. OneVersion'
  BY DEF Versions, OneVersion, Plugins, SameProject
<1> QED
  BY <1>1, VersionsKept

\* Listing and synchronizing lead nowhere else.
LEMMA QuietEnds ==
    ASSUME TypeOK, NEW r \in Request,
           Backfill(r) \/ SyncRead(r) \/ SyncWrite(r) \/ LoseSync(r)
    PROVE  req'[r].at \in {"done", "backfill", "sync"}
<1> DEFINE j == req[r]
<1>1. j \in JobType /\ Done.at = "done"
  BY RestJobs DEF TypeOK
<1>2. CASE Backfill(r)
  <2>1. PICK x \in j.rows :
          req' = [req EXCEPT ![r] = IF j.rows = {x} THEN Done ELSE [j EXCEPT !.rows = j.rows \ {x}]]
    BY <1>2 DEF Backfill
  <2>2. j.at = "backfill" /\ [j EXCEPT !.rows = j.rows \ {x}].at = j.at
    BY <1>2, <1>1 DEF Backfill, JobType
  <2> QED
    BY <2>1, <2>2, <1>1 DEF TypeOK
<1>3. \A s, t, ps : [j EXCEPT !.stale = s, !.server = t, !.seen = ps].at = j.at
  BY <1>1 DEF JobType
<1>4. CASE SyncRead(r)
  <2>1. PICK s \in j.stale :
          req' = [req EXCEPT ![r] = [j EXCEPT !.stale = j.stale \ {s}, !.server = j.server \cup {s},
                                             !.seen = j.seen \cup {p \in installed : p[1] = s}]]
    BY <1>4 DEF SyncRead
  <2>2. j.at = "sync"
    BY <1>4 DEF SyncRead
  <2> QED
    BY <2>1, <2>2, <1>3 DEF TypeOK
<1>5. CASE SyncWrite(r) \/ LoseSync(r)
  <2>1. PICK s : req' = [req EXCEPT ![r] = Synced(j, s)]
    BY <1>5 DEF SyncWrite, LoseSync
  <2>2. j.at = "sync"
    BY <1>5 DEF SyncWrite, LoseSync
  <2>3. Synced(j, s).at \in {"sync", "done"}
    BY <2>2, <1>3, <1>1 DEF Synced, Syncing
  <2> QED
    BY <2>1, <2>3 DEF TypeOK
<1> QED
  BY <1>2, <1>4, <1>5

LEMMA OnlyAStatementBegins ==
    ASSUME TypeOK, \A q \in Request : ShapeOK(req[q]), NEW r \in Request,
           Starts(r) \/ Step(r) \/ Fail(r) \/ LoseSync(r), ~Statement(r)
    PROVE  req'[r].at # "commit"
<1> DEFINE j == req[r]
<1>1. j \in JobType /\ Idle \in JobType /\ Done.at = "done"
  BY RestJobs DEF TypeOK
<1>2. ASSUME NEW n, Begin(r, n) PROVE req'[r] = n
  BY <1>2 DEF Begin, TypeOK
<1>3. \A ss \in SUBSET Server : Publish(ss).at # "commit"
  BY RestJobs
<1>4. CASE Starts(r)
  <2>1. ASSUME NEW k, BeginUpload(r, k) PROVE req'[r].at # "commit"
    BY <2>1, <1>2 DEF BeginUpload, Idle
  <2>2. ASSUME NEW k, BeginRegister(r, k) PROVE req'[r].at # "commit"
    BY <2>2, <1>2 DEF BeginRegister, Idle
  <2>3. ASSUME NEW s, NEW k, BeginInstall(r, s, k) PROVE req'[r].at # "commit"
    BY <2>3, <1>2 DEF BeginInstall, Idle
  <2>4. ASSUME NEW s, NEW x, BeginDeploy(r, s, x) PROVE req'[r].at # "commit"
    BY <2>4, <1>2 DEF BeginDeploy, Idle
  <2>5. ASSUME NEW s, NEW xs, BeginAssign(r, s, xs) PROVE req'[r].at # "commit"
    BY <2>5, <1>2 DEF BeginAssign, Idle
  <2>6. ASSUME NEW x, BeginDelete(r, x) PROVE req'[r].at # "commit"
    BY <2>6, <1>2 DEF BeginDelete, Idle
  <2>7. ASSUME NEW xs, BeginList(r, xs) PROVE req'[r].at # "commit"
    BY <2>7, <1>2 DEF BeginList, Idle
  <2>8. ASSUME NEW p \in installed, Remove(r, p) PROVE req'[r].at # "commit"
    <3>1. {p[1]} \in SUBSET Server
      BY DEF TypeOK
    <3> QED
      BY <3>1, <2>8, <1>3 DEF Remove, TypeOK
  <2> QED
    BY <1>4, <2>1, <2>2, <2>3, <2>4, <2>5, <2>6, <2>7, <2>8 DEF Starts
<1>5. CASE PutObject(r) \/ DeleteObject(r) \/ Check(r)
  <2>1. \A a \in Ats : [j EXCEPT !.at = a].at = a
    BY <1>1 DEF JobType
  <2> QED
    BY <2>1, <1>1, <1>5 DEF PutObject, DeleteObject, Check, TypeOK, Ats, Waiting
<1>6. CASE Upsert(r)
  <2>1. \A xs : [j EXCEPT !.at = "check", !.rows = xs].at = "check"
    BY <1>1 DEF JobType
  <2> QED
    BY <2>1, <1>1, <1>6 DEF Upsert, TypeOK
<1>7. CASE Commit(r)
  <2>1. j.stale \in SUBSET Server /\ j.server \in SUBSET Server
    BY <1>1 DEF JobType
  <2> QED
    BY <2>1, <1>7, <1>3 DEF Commit, TypeOK
<1>8. CASE RollBack(r) \/ Fail(r)
  BY <1>8, <1>1 DEF RollBack, Fail, TypeOK
<1>9. CASE Backfill(r) \/ SyncRead(r) \/ SyncWrite(r) \/ LoseSync(r)
  BY <1>9, QuietEnds
<1> QED
  BY <1>4, <1>5, <1>6, <1>7, <1>8, <1>9 DEF Step

LEMMA VersionsStep ==
    ASSUME TypeOK, \A q \in Request : ShapeOK(req[q]), Versions, [Next]_vars
    PROVE  Versions'
<1>1. CASE UNCHANGED <<req, installed, mixed>>
  BY <1>1 DEF Versions, LeavesOne, Left, InTransaction, OneVersion, Plugins, OneOf
<1>2. CASE CycleLoad \/ CycleWrite
  BY <1>1, <1>2 DEF CycleLoad, CycleWrite, ghosts
<1>3. ASSUME NEW s \in Server, DeleteServer(s) PROVE Versions'
  <2>1. req' = req /\ mixed' = mixed /\ installed' \subseteq installed
    BY <1>3 DEF DeleteServer, ghosts
  <2>2. \A r \in Request : LeavesOne(r)'
    BY <2>1 DEF Versions, LeavesOne, Left, InTransaction, OneOf
  <2>3. OneVersion'
    BY <2>1 DEF Versions, OneVersion, Plugins
  <2> QED
    BY <2>1, <2>2, <2>3 DEF Versions, InTransaction
<1>4. ASSUME NEW r \in Request, Starts(r) \/ Step(r) \/ Fail(r) \/ LoseSync(r) PROVE Versions'
  <2> DEFINE j == req[r]
  <2>0. j \in JobType /\ ShapeOK(j)
    BY DEF TypeOK
  <2>1. PICK job \in JobType : ShapeOK(job) /\ req' = [req EXCEPT ![r] = job]
    BY <1>4, NextJob
  <2>2. req'[r] = job
    BY <2>1 DEF TypeOK
  <2>3. CASE Statement(r)
    <3> DEFINE ps == Doomed(j)
    <3>1. /\ job.at = "commit" /\ job.op = j.op /\ job.server = j.server /\ job.rows = j.rows
          /\ job.doomed = ps /\ j.at = "statement" /\ installed' = installed
          /\ mixed \subseteq mixed'
          /\ {s \in j.server : \E q \in Request : InTransaction(req[q]) /\ s \in req[q].server}
             \subseteq mixed'
          /\ {s \in j.server : \E x, y \in j.rows : x # y /\ SameProject(x, y)} \subseteq mixed'
      <4>1. req'[r] = [j EXCEPT !.at = "commit", !.doomed = ps]
        BY <2>3 DEF Statement, TypeOK
      <4>2. /\ job.at = "commit" /\ job.op = j.op /\ job.server = j.server /\ job.rows = j.rows
            /\ job.doomed = ps
        <5> HIDE DEF ps
        <5> QED
          BY <4>1, <2>0, <2>2 DEF JobType
      <4> QED
        BY <4>2, <2>3 DEF Statement
    <3>2. ASSUME NEW s \in job.server \ mixed', NEW x \in Left(job, s)', NEW y \in Left(job, s)',
                 SameProject(x, y)
          PROVE  x = y
      <4>1. s \in j.server /\ s \in Server \ mixed
        BY <3>1, <2>0 DEF JobType
      <4>2. /\ x \in Row /\ (<<s, x>> \in installed \ ps \/ x \in j.rows)
            /\ y \in Row /\ (<<s, y>> \in installed \ ps \/ y \in j.rows)
        BY <3>1, <3>2 DEF Left
      <4>3. SameProject(y, x)
        BY <3>2 DEF SameProject
      <4>4. CASE x \in j.rows /\ y \in j.rows
        BY <4>1, <4>4, <3>1, <3>2
      <4>5. CASE <<s, x>> \in installed /\ <<s, y>> \in installed
        BY <4>1, <4>2, <4>5, <3>2 DEF Versions, OneVersion, Plugins
      <4>6. ASSUME NEW u \in Row, NEW v \in j.rows, <<s, u>> \in installed \ ps, u \notin j.rows,
                   SameProject(v, u)
            PROVE  FALSE
        <5>1. j.op \in {"install", "deploy", "assign", "delete"} /\ (j.op = "delete" => j.server = {})
          BY <3>1, <2>0 DEF ShapeOK
        <5>2. CASE j.op \in {"install", "deploy"}
          BY <5>2, <4>1, <4>6 DEF Doomed
        <5>3. CASE j.op = "assign"
          BY <5>3, <4>1, <4>6 DEF Doomed
        <5> QED
          BY <5>1, <5>2, <5>3, <4>1
      <4> QED
        BY <4>2, <4>3, <4>4, <4>5, <4>6, <3>2
    <3>3. \A s \in job.server \ mixed' : OneOf(Left(job, s)')
      BY <3>2 DEF OneOf
    <3>4. \A q \in Request \ {r} : InTransaction(req[q]) => job.server \cap req[q].server \subseteq mixed'
      BY <3>1
    <3>5. OneVersion'
      BY <3>1 DEF Versions, OneVersion, Plugins, SameProject
    <3> QED
      BY <2>1, <3>1, <3>3, <3>4, <3>5, VersionsKept
  <2>4. CASE Commit(r)
    <3>1. /\ InTransaction(j) /\ mixed' = mixed
          /\ installed' = (installed \ j.doomed) \cup (j.server \X j.rows)
          /\ job = Publish(IF j.op = "delete" THEN j.stale ELSE j.server)
      BY <2>2, <2>4 DEF Commit, InTransaction, ghosts, TypeOK
    <3>2. ~InTransaction(job)
      BY <3>1, <2>0, RestJobs DEF InTransaction, JobType
    <3>3. OneVersion'
      <4> SUFFICES ASSUME NEW s \in Server \ mixed, NEW x \in Plugins(s)', NEW y \in Plugins(s)',
                          SameProject(x, y)
                   PROVE  x = y
        BY <3>1 DEF OneVersion, SameProject
      <4>1. CASE s \in j.server
        <5>1. OneOf(Left(j, s))
          BY <3>1, <4>1 DEF Versions, LeavesOne
        <5>2. x \in Left(j, s) /\ y \in Left(j, s)
          BY <3>1 DEF Left, Plugins
        <5> QED
          BY <5>1, <5>2 DEF OneOf
      <4>2. CASE s \notin j.server
        <5>1. x \in Plugins(s) /\ y \in Plugins(s)
          BY <3>1, <4>2 DEF Plugins
        <5> QED
          BY <5>1 DEF Versions, OneVersion
      <4> QED
        BY <4>1, <4>2
    <3>4. \A p \in installed' \ installed : InTransaction(j) /\ p[1] \in j.server
      BY <3>1
    <3> QED
      BY <2>1, <3>1, <3>2, <3>3, <3>4, VersionsKept
  <2>5. CASE /\ mixed' = mixed /\ installed' \subseteq installed /\ ~InTransaction(job)
    BY <2>1, <2>5, VersionsQuiet
  <2>6. ASSUME Starts(r) PROVE mixed' = mixed /\ installed' \subseteq installed
    BY <2>6 DEF Starts, BeginUpload, BeginRegister, BeginInstall, BeginDeploy, BeginAssign,
       BeginDelete, BeginList, Begin, Remove, ghosts
  <2>7. ASSUME \/ Backfill(r) \/ PutObject(r) \/ DeleteObject(r) \/ Check(r) \/ Upsert(r)
               \/ RollBack(r) \/ SyncRead(r) \/ SyncWrite(r) \/ Fail(r) \/ LoseSync(r)
        PROVE  mixed' = mixed /\ installed' \subseteq installed
    BY <2>7 DEF Backfill, PutObject, DeleteObject, Check, Upsert, RollBack, SyncRead, SyncWrite,
       Fail, LoseSync, ghosts
  <2>8. ASSUME ~Statement(r) PROVE ~InTransaction(job)
    BY <1>4, <2>2, <2>8, OnlyAStatementBegins DEF InTransaction
  <2> QED
    BY <1>4, <2>3, <2>4, <2>5, <2>6, <2>7, <2>8 DEF Step
<1> QED
  BY <1>1, <1>2, <1>3, <1>4 DEF Next, vars

LEMMA VersionsInit == Init => Versions
<1> SUFFICES ASSUME Init PROVE Versions
  OBVIOUS
<1>1. \A r \in Request : ~InTransaction(req[r])
  BY DEF Init, Idle, InTransaction
<1>2. OneVersion
  BY DEF Init, OneVersion
<1> QED
  BY <1>1, <1>2 DEF Versions, LeavesOne

\* A server keeps one version of every plugin while transactions on it do not
\* overlap: a transaction leaves one version behind from its first statement on.
THEOREM OneVersionKept == Spec => []OneVersion
<1> DEFINE Inv == TypeOK /\ (\A q \in Request : ShapeOK(req[q])) /\ Versions
<1>1. Inv /\ [Next]_vars => Inv'
  BY TypeStep, VersionsStep
<1>2. Inv => OneVersion
  BY DEF Versions
<1> QED
  BY <1>1, <1>2, TypeInit, VersionsInit, PTL DEF Spec

-----------------------------------------------------------------------------
(* What is published.                                                       *)

\* A synchronization under way knows what is installed on the servers it has read.
Knows(j) == j.at = "sync" => j.seen = {p \in installed : p[1] \in j.server}

\* So does every request's, and the timer's.
WellInformed ==
    /\ \A r \in Request : Knows(req[r])
    /\ cycle.seen = {p \in installed : p[1] \in cycle.todo}

\* The resource of a server lists what is installed.
IsListed(s) == published[s] = Plugins(s)

\* With nothing installed or removed meanwhile, what is well informed
\* stays so, no resource that is right becomes wrong, and each write makes one right.
PublishingGrows ==
    [][WellInformed /\ UNCHANGED installed =>
        /\ WellInformed'
        /\ \A s \in Server : IsListed(s) => IsListed(s)'
        /\ CycleWrite => \E s \in cycle.todo : cycle'.todo = cycle.todo \ {s} /\ IsListed(s)'
        /\ \A r \in Request :
             SyncWrite(r) => \E s \in req[r].server : s \notin req'[r].server /\ IsListed(s)']_vars

\* A job begins its synchronizations with nothing read.
LEMMA NothingReadYet ==
    ASSUME TypeOK, NEW r \in Request,
           Starts(r) \/ Step(r) \/ Fail(r), ~SyncRead(r), ~SyncWrite(r)
    PROVE  req'[r].at = "sync" => req'[r].server = {} /\ req'[r].seen = {}
<1> DEFINE j == req[r]
<1>1. j \in JobType /\ Idle \in JobType /\ Done.at = "done"
  BY RestJobs DEF TypeOK
<1>2. ASSUME NEW n, Begin(r, n) PROVE req'[r] = n
  BY <1>2 DEF Begin, TypeOK
<1>3. \A ss : Publish(ss).at = "sync" => Publish(ss).server = {} /\ Publish(ss).seen = {}
  BY <1>1 DEF Publish, Idle
<1>4. CASE Starts(r)
  <2>1. ASSUME NEW k, BeginUpload(r, k) PROVE req'[r].at # "sync"
    BY <2>1, <1>2 DEF BeginUpload, Idle
  <2>2. ASSUME NEW k, BeginRegister(r, k) PROVE req'[r].at # "sync"
    BY <2>2, <1>2 DEF BeginRegister, Idle
  <2>3. ASSUME NEW s, NEW k, BeginInstall(r, s, k) PROVE req'[r].at # "sync"
    BY <2>3, <1>2 DEF BeginInstall, Idle
  <2>4. ASSUME NEW s, NEW x, BeginDeploy(r, s, x) PROVE req'[r].at # "sync"
    BY <2>4, <1>2 DEF BeginDeploy, Idle
  <2>5. ASSUME NEW s, NEW xs, BeginAssign(r, s, xs) PROVE req'[r].at # "sync"
    BY <2>5, <1>2 DEF BeginAssign, Idle
  <2>6. ASSUME NEW x, BeginDelete(r, x) PROVE req'[r].at # "sync"
    BY <2>6, <1>2 DEF BeginDelete, Idle
  <2>7. ASSUME NEW xs, BeginList(r, xs) PROVE req'[r].at # "sync"
    BY <2>7, <1>2 DEF BeginList, Idle
  <2>8. ASSUME NEW p \in installed, Remove(r, p) PROVE req'[r] = Publish({p[1]})
    BY <2>8 DEF Remove, TypeOK
  <2> QED
    BY <1>3, <1>4, <2>1, <2>2, <2>3, <2>4, <2>5, <2>6, <2>7, <2>8 DEF Starts
<1>5. CASE PutObject(r) \/ DeleteObject(r) \/ Check(r)
  <2>1. \A a \in Ats : [j EXCEPT !.at = a].at = a
    BY <1>1 DEF JobType
  <2> QED
    BY <2>1, <1>1, <1>5 DEF PutObject, DeleteObject, Check, TypeOK, Ats, Waiting
<1>6. CASE Upsert(r)
  <2>1. \A xs : [j EXCEPT !.at = "check", !.rows = xs].at = "check"
    BY <1>1 DEF JobType
  <2> QED
    BY <2>1, <1>1, <1>6 DEF Upsert, TypeOK
<1>7. CASE Statement(r)
  <2>1. \A ps : [j EXCEPT !.at = "commit", !.doomed = ps].at = "commit"
    BY <1>1 DEF JobType
  <2> QED
    BY <2>1, <1>7 DEF Statement, TypeOK
<1>8. CASE Commit(r)
  BY <1>3, <1>8 DEF Commit, TypeOK
<1>9. CASE RollBack(r) \/ Fail(r)
  BY <1>9, <1>1 DEF RollBack, Fail, TypeOK
<1>10. CASE Backfill(r)
  <2>1. PICK x \in j.rows :
          req' = [req EXCEPT ![r] = IF j.rows = {x} THEN Done ELSE [j EXCEPT !.rows = j.rows \ {x}]]
    BY <1>10 DEF Backfill
  <2>2. j.at = "backfill" /\ [j EXCEPT !.rows = j.rows \ {x}].at = j.at
    BY <1>1, <1>10 DEF Backfill, JobType
  <2> QED
    BY <2>1, <2>2, <1>1 DEF TypeOK
<1> QED
  BY <1>4, <1>5, <1>6, <1>7, <1>8, <1>9, <1>10 DEF Step

\* What a request that has ended the synchronization of a server still knows.
LEMMA SyncedKnows ==
    ASSUME TypeOK, NEW j \in JobType, j.at = "sync", Knows(j), NEW s
    PROVE  Knows(Synced(j, s)) /\ s \notin Synced(j, s).server
<1> DEFINE n == [j EXCEPT !.stale = j.stale \ {s}, !.server = j.server \ {s},
                          !.seen = {p \in j.seen : p[1] # s}]
<1>1. /\ n.at = "sync" /\ n.server = j.server \ {s}
      /\ n.seen = {p \in j.seen : p[1] # s}
  BY DEF JobType
<1>2. Done.at = "done" /\ Done.server = {}
  BY RestJobs DEF Done, Idle
<1>3. Synced(j, s) \in {n, Done}
  BY DEF Synced, Syncing
<1>4. n.seen = {p \in installed : p[1] \in n.server}
  BY <1>1 DEF Knows
<1> QED
  BY <1>1, <1>2, <1>3, <1>4 DEF Knows

\* A step of a request while nothing is installed or removed.
LEMMA RequestPublishes ==
    ASSUME TypeOK, WellInformed, installed' = installed, NEW r \in Request,
           Starts(r) \/ Step(r) \/ Fail(r) \/ LoseSync(r)
    PROVE  /\ WellInformed'
           /\ \A s \in Server : IsListed(s) => IsListed(s)'
           /\ SyncWrite(r) => \E s \in req[r].server : s \notin req'[r].server /\ IsListed(s)'
<1> DEFINE j == req[r]
<1>1. j \in JobType /\ Knows(j)
  BY DEF TypeOK, WellInformed
<1>2. \A q \in Request \ {r} : req'[q] = req[q]
  BY DEF Starts, BeginUpload, BeginRegister, BeginInstall, BeginDeploy, BeginAssign, BeginDelete,
     BeginList, Begin, Remove, Step, Backfill, PutObject, Upsert, DeleteObject, Check, Statement,
     Commit, RollBack, SyncRead, SyncWrite, Fail, LoseSync, TypeOK
<1>3. cycle' = cycle
  BY DEF Starts, BeginUpload, BeginRegister, BeginInstall, BeginDeploy, BeginAssign, BeginDelete,
     BeginList, Begin, Remove, Step, Backfill, PutObject, Upsert, DeleteObject, Check, Statement,
     Commit, RollBack, SyncRead, SyncWrite, Fail, LoseSync
<1>4. ASSUME Knows(req'[r]) PROVE WellInformed'
  BY <1>2, <1>3, <1>4 DEF WellInformed, Knows
<1>5. CASE SyncWrite(r)
  <2>1. PICK s \in j.server :
          /\ published' = [published EXCEPT ![s] = {x \in Row : <<s, x>> \in j.seen}]
          /\ req' = [req EXCEPT ![r] = Synced(j, s)]
    BY <1>5 DEF SyncWrite
  <2>2. s \in Server /\ j.at = "sync" /\ req'[r] = Synced(j, s)
    BY <1>1, <1>5, <2>1 DEF SyncWrite, JobType, TypeOK
  <2>3. {x \in Row : <<s, x>> \in j.seen} = Plugins(s)
    BY <1>1, <2>2 DEF Knows, Plugins
  <2>4. IsListed(s)' /\ \A t \in Server \ {s} : published'[t] = published[t]
    BY <2>1, <2>2, <2>3 DEF IsListed, Plugins, TypeOK
  <2>5. Knows(req'[r]) /\ s \notin req'[r].server
    BY <1>1, <2>2, SyncedKnows
  <2> QED
    BY <1>4, <2>1, <2>4, <2>5 DEF IsListed, Plugins
<1>6. ASSUME ~SyncWrite(r) PROVE published' = published
  BY <1>6 DEF Starts, BeginUpload, BeginRegister, BeginInstall, BeginDeploy, BeginAssign, BeginDelete,
     BeginList, Begin, Remove, Step, Backfill, PutObject, Upsert, DeleteObject, Check, Statement,
     Commit, RollBack, SyncRead, Fail, LoseSync
<1>7. CASE SyncRead(r)
  <2>1. PICK s \in j.stale :
          req' = [req EXCEPT ![r] = [j EXCEPT !.stale = j.stale \ {s}, !.server = j.server \cup {s},
                                             !.seen = j.seen \cup {p \in installed : p[1] = s}]]
    BY <1>7 DEF SyncRead
  <2>2. /\ j.at = "sync"
        /\ req'[r].server = j.server \cup {s}
        /\ req'[r].seen = j.seen \cup {p \in installed : p[1] = s}
    BY <1>1, <1>7, <2>1 DEF SyncRead, JobType, TypeOK
  <2>3. Knows(req'[r])
    BY <1>1, <2>2 DEF Knows
  <2> QED
    BY <1>4, <1>5, <1>6, <2>3 DEF IsListed, Plugins
<1>8. CASE LoseSync(r)
  <2>1. j.at = "sync" /\ \E s : req'[r] = Synced(j, s)
    BY <1>8 DEF LoseSync, TypeOK
  <2>2. Knows(req'[r])
    BY <1>1, <2>1, SyncedKnows
  <2> QED
    BY <1>4, <1>5, <1>6, <2>2 DEF IsListed, Plugins
<1>9. CASE ~SyncWrite(r) /\ ~SyncRead(r) /\ ~LoseSync(r)
  <2>1. Knows(req'[r])
    BY <1>9, NothingReadYet DEF Knows
  <2> QED
    BY <1>4, <1>6, <1>9, <2>1 DEF IsListed, Plugins
<1> QED
  BY <1>5, <1>7, <1>8, <1>9

\* The steps of the timer, and the deletion of a server without plugins.
LEMMA TimerPublishes ==
    ASSUME TypeOK, WellInformed, installed' = installed,
           CycleLoad \/ CycleWrite \/ \E s \in Server : DeleteServer(s)
    PROVE  /\ WellInformed'
           /\ \A s \in Server : IsListed(s) => IsListed(s)'
           /\ CycleWrite => \E s \in cycle.todo : cycle'.todo = cycle.todo \ {s} /\ IsListed(s)'
<1>1. req' = req
  BY DEF CycleLoad, CycleWrite, DeleteServer
<1>2. CASE CycleLoad
  <2>1. cycle'.seen = installed /\ cycle'.todo = servers /\ published' = published /\ ~CycleWrite
    BY <1>2 DEF CycleLoad, CycleWrite
  <2>2. \A p \in installed : p[1] \in servers
    BY DEF TypeOK
  <2> QED
    BY <1>1, <2>1, <2>2 DEF WellInformed, Knows, IsListed, Plugins
<1>3. CASE CycleWrite
  <2>1. PICK s \in cycle.todo :
          /\ published' = [published EXCEPT ![s] = {x \in Row : <<s, x>> \in cycle.seen}]
          /\ cycle' = [todo |-> cycle.todo \ {s}, seen |-> {p \in cycle.seen : p[1] # s}]
    BY <1>3 DEF CycleWrite
  <2>2. s \in Server /\ {x \in Row : <<s, x>> \in cycle.seen} = Plugins(s)
    BY DEF TypeOK, WellInformed, Plugins
  <2>3. IsListed(s)' /\ \A t \in Server \ {s} : published'[t] = published[t]
    BY <2>1, <2>2 DEF IsListed, Plugins, TypeOK
  <2>4. cycle'.seen = {p \in installed : p[1] \in cycle'.todo}
    BY <2>1 DEF WellInformed
  <2> QED
    BY <1>1, <2>1, <2>3, <2>4 DEF WellInformed, Knows, IsListed, Plugins
<1>4. ASSUME NEW s \in Server, DeleteServer(s)
      PROVE  cycle' = cycle /\ published' = published /\ (CycleWrite => FALSE)
  <2>1. s \in servers /\ servers' = servers \ {s} /\ cycle' = cycle /\ published' = published
    BY <1>4 DEF DeleteServer
  <2> QED
    BY <2>1 DEF CycleWrite
<1> QED
  BY <1>1, <1>2, <1>3, <1>4 DEF WellInformed, Knows, IsListed, Plugins

\* No synchronization knows anything yet when the backend starts.
LEMMA InformedAtFirst == Init => WellInformed
BY DEF Init, WellInformed, Knows, Idle, NoCycle

\* What is published settles, as far as single steps go: once every synchronization
\* under way has read what is installed now, no late, failed or overlapping one makes
\* a resource wrong, and each write of a request or of the timer makes one right
\* (syncServerById and the timer's syncAll as plugin-registry.ts uses them).
THEOREM WhatIsPublishedStays == Spec => PublishingGrows
<1> DEFINE Inv == TypeOK /\ \A q \in Request : ShapeOK(req[q])
           Grows ==
             WellInformed /\ UNCHANGED installed =>
                /\ WellInformed'
                /\ \A s \in Server : IsListed(s) => IsListed(s)'
                /\ CycleWrite => \E s \in cycle.todo : cycle'.todo = cycle.todo \ {s} /\ IsListed(s)'
                /\ \A r \in Request :
                     SyncWrite(r) => \E s \in req[r].server : s \notin req'[r].server /\ IsListed(s)'
<1>1. Inv /\ [Next]_vars => Inv'
  BY TypeStep
<1>2. Inv /\ [Next]_vars => [Grows]_vars
  <2> SUFFICES ASSUME Inv, Next, WellInformed, installed' = installed PROVE Grows
    BY DEF Inv
  <2>1. WellInformed' /\ \A s \in Server : IsListed(s) => IsListed(s)'
    BY RequestPublishes, TimerPublishes DEF Next
  <2>2. CycleWrite => \E s \in cycle.todo : cycle'.todo = cycle.todo \ {s} /\ IsListed(s)'
    BY TimerPublishes
  <2>3. ASSUME NEW r \in Request, SyncWrite(r)
        PROVE  \E s \in req[r].server : s \notin req'[r].server /\ IsListed(s)'
    BY <2>3, RequestPublishes DEF Step
  <2> QED
    BY <2>1, <2>2, <2>3
<1> QED
  BY <1>1, <1>2, TypeInit, PTL DEF Spec, PublishingGrows

-----------------------------------------------------------------------------
(* The bucket and the library.                                              *)

\* A step in which request r takes a job keeps the bucket in line with the
\* library if it touches nothing but the JARs of r, leaves those it lets go of
\* matching, and takes no JAR of another request.
LEMMA ObjectsKept ==
    ASSUME TypeOK, Objects, DistinctJars, NEW r \in Request, NEW job \in JobType,
           req' = [req EXCEPT ![r] = job],
           marred \subseteq marred',
           \A c \in Jar \ JarsOf(req[r]) :
               (c \in store' <=> c \in store) /\ (HasRow(c)' <=> HasRow(c)),
           \A c \in (JarsOf(req[r]) \ JarsOf(job)) \ marred' : Matches(c)',
           \A q \in Request \ {r} : JarsOf(job) \cap JarsOf(req[q]) \subseteq marred',
           OnItsWay(job)'
    PROVE  Objects'
<1>0. req'[r] = job /\ \A q \in Request \ {r} : req'[q] = req[q]
  BY DEF TypeOK
<1>1. ASSUME NEW q \in Request, q # r PROVE OnItsWay(req[q])'
  <2>1. ASSUME NEW c \in JarsOf(req[q]) \ marred'
        PROVE  (c \in store' <=> c \in store) /\ (Matches(c)' <=> Matches(c))
    <3>1. c \in Jar \ JarsOf(req[r])
      BY <1>1, JarsAreJars DEF Objects
    <3> QED
      BY <3>1 DEF Matches
  <2>2. req'[q] = req[q]
    BY <1>0, <1>1
  <2>3. OnItsWay(req[q])
    BY DEF Objects
  <2> QED
    BY <2>1, <2>2, <2>3 DEF OnItsWay
<1>2. OnItsWay(req[r])'
  BY <1>0 DEF OnItsWay
<1>3. \A p, q \in Request : p # q => JarsOf(req'[p]) \cap JarsOf(req'[q]) \subseteq marred'
  BY <1>0 DEF Objects
<1>4. StoreMatchesLibrary'
  <2> SUFFICES ASSUME NEW c \in Jar \ marred', \A q \in Request : c \notin JarsOf(req'[q])
               PROVE  Matches(c)'
    BY DEF StoreMatchesLibrary, Matches, HasRow
  <2>1. CASE c \in JarsOf(req[r])
    BY <2>1, <1>0
  <2>2. CASE c \notin JarsOf(req[r])
    <3>1. \A q \in Request : c \notin JarsOf(req[q])
      BY <2>2, <1>0
    <3>2. Matches(c)
      BY <3>1 DEF Objects, StoreMatchesLibrary, Matches, HasRow
    <3> QED
      BY <2>2, <3>2 DEF Matches
  <2> QED
    BY <2>1, <2>2
<1> QED
  BY <1>1, <1>2, <1>3, <1>4 DEF Objects

\* A job that lets go of no JAR that has not been dealt with, with the bucket
\* and the library as they were.
LEMMA ObjectsQuiet ==
    ASSUME TypeOK, Objects, DistinctJars, NEW r \in Request, NEW job \in JobType,
           req' = [req EXCEPT ![r] = job], UNCHANGED <<library, store>>,
           marred \subseteq marred', JarsOf(job) = {}, JarsOf(req[r]) \subseteq marred'
    PROVE  Objects'
<1>1. \A c : (c \in store' <=> c \in store) /\ (HasRow(c)' <=> HasRow(c))
  BY DEF HasRow
<1>2. OnItsWay(job)'
  BY DEF OnItsWay
<1> QED
  BY <1>1, <1>2, ObjectsKept

\* A request that begins on its JARs finds them as they should be.
LEMMA ObjectsBegin ==
    ASSUME TypeOK, \A q \in Request : ShapeOK(req[q]), Objects, DistinctJars,
           NEW r \in Request, NEW job \in JobType, Begin(r, job),
           job.at \in {"put", "object"} \/ JarsOf(job) = {}
    PROVE  Objects'
<1>1. JarsOf(req[r]) = {}
  BY DEF Begin, ShapeOK, JarsOf
<1>2. \A c : (c \in store' <=> c \in store) /\ (HasRow(c)' <=> HasRow(c))
  BY DEF Begin, HasRow
<1>3. \A q \in Request : JarsOf(job) \cap JarsOf(req[q]) \subseteq marred'
  BY DEF Begin
<1>4. OnItsWay(job)'
  <2>1. ASSUME NEW c \in JarsOf(job) \ marred' PROVE Matches(c)'
    <3>1. c \in Jar \ marred /\ \A q \in Request : c \notin JarsOf(req[q])
      BY <1>3, JarsAreJars DEF Begin
    <3>2. Matches(c)
      BY <3>1 DEF Objects, StoreMatchesLibrary, Matches, HasRow
    <3> QED
      BY <3>2, <1>2 DEF Matches
  <2> QED
    BY <2>1 DEF OnItsWay
<1> QED
  BY <1>1, <1>2, <1>3, <1>4, ObjectsKept DEF Begin

LEMMA ObjectsStep ==
    ASSUME TypeOK, \A q \in Request : ShapeOK(req[q]), Objects, DistinctJars, [Next]_vars
    PROVE  Objects'
<1>1. CASE UNCHANGED <<req, library, store, marred>>
  BY <1>1 DEF Objects, OnItsWay, Matches, HasRow, StoreMatchesLibrary
<1>2. CASE CycleLoad \/ CycleWrite \/ \E s \in Server : DeleteServer(s)
  BY <1>1, <1>2 DEF CycleLoad, CycleWrite, DeleteServer, ghosts
<1>3. ASSUME NEW r \in Request, Starts(r) PROVE Objects'
  <2> DEFINE j == req[r]
  <2>0. j \in JobType /\ ShapeOK(j)
    BY DEF TypeOK
  <2>1. PICK job \in JobType : ShapeOK(job) /\ req' = [req EXCEPT ![r] = job]
    BY <1>3, NextJob
  <2>2. req'[r] = job
    BY <2>1 DEF TypeOK
  <2>3. ASSUME NEW n, Begin(r, n) PROVE n = job
    BY <2>2, <2>3 DEF Begin, TypeOK
  <2>4. ASSUME NEW k \in Upload, BeginUpload(r, k) PROVE Objects'
    <3>1. Begin(r, job) /\ job.at = "put"
      BY <2>4, <2>3 DEF BeginUpload, Idle
    <3> QED
      BY <3>1, ObjectsBegin
  <2>5. ASSUME NEW k \in Release, BeginRegister(r, k) PROVE Objects'
    <3>1. Begin(r, job) /\ job.op = "register"
      BY <2>5, <2>3 DEF BeginRegister, Idle
    <3> QED
      BY <3>1, ObjectsBegin DEF JarsOf
  <2>6. ASSUME NEW s \in Server, NEW k \in Release, BeginInstall(r, s, k) PROVE Objects'
    <3>1. Begin(r, job) /\ job.op = "install"
      BY <2>6, <2>3 DEF BeginInstall, Idle
    <3> QED
      BY <3>1, ObjectsBegin DEF JarsOf
  <2>7. ASSUME NEW s \in Server, NEW x \in library, BeginDeploy(r, s, x) PROVE Objects'
    <3>1. Begin(r, job) /\ job.op = "deploy"
      BY <2>7, <2>3 DEF BeginDeploy, Idle
    <3> QED
      BY <3>1, ObjectsBegin DEF JarsOf
  <2>8. ASSUME NEW s \in Server, NEW xs \in SUBSET library, BeginAssign(r, s, xs) PROVE Objects'
    <3>1. Begin(r, job) /\ job.op = "assign"
      BY <2>8, <2>3 DEF BeginAssign, Idle
    <3> QED
      BY <3>1, ObjectsBegin DEF JarsOf
  <2>9. ASSUME NEW x \in library, BeginDelete(r, x) PROVE Objects'
    <3>1. /\ Begin(r, job) /\ job.keys = {x[1]}
          /\ job.at = IF x[1] \in Upload THEN "object" ELSE "statement"
      BY <2>9, <2>3 DEF BeginDelete, Idle
    <3>2. x[1] \notin Upload => JarsOf(job) = {}
      BY <3>1 DEF JarsOf
    <3> QED
      BY <3>1, <3>2, ObjectsBegin
  <2>10. ASSUME NEW xs \in SUBSET library, BeginList(r, xs) PROVE Objects'
    <3>1. Begin(r, job) /\ job.op = "list"
      BY <2>10, <2>3 DEF BeginList, Idle
    <3> QED
      BY <3>1, ObjectsBegin DEF JarsOf
  <2>11. ASSUME NEW p \in installed, Remove(r, p) PROVE Objects'
    <3>1. /\ {p[1]} \in SUBSET Server /\ job = Publish({p[1]})
          /\ UNCHANGED <<library, store, marred>> /\ j.at = "idle"
      BY <2>11, <2>2 DEF Remove, TypeOK, ghosts
    <3>2. JarsOf(job) = {} /\ JarsOf(j) = {}
      BY <3>1, <2>0, RestJobs DEF JarsOf, ShapeOK
    <3> QED
      BY <2>1, <3>1, <3>2, ObjectsQuiet
  <2> QED
    BY <1>3, <2>4, <2>5, <2>6, <2>7, <2>8, <2>9, <2>10, <2>11 DEF Starts
<1>4. ASSUME NEW r \in Request, Step(r) \/ Fail(r) \/ LoseSync(r) PROVE Objects'
  <2> DEFINE j == req[r]
  <2>0. j \in JobType /\ ShapeOK(j)
    BY DEF TypeOK
  <2>1. PICK job \in JobType : ShapeOK(job) /\ req' = [req EXCEPT ![r] = job]
    BY <1>4, NextJob
  <2>2. req'[r] = job
    BY <2>1 DEF TypeOK
  <2>3. ASSUME NEW a \in Ats, job = [j EXCEPT !.at = a]
        PROVE  job.at = a /\ job.op = j.op /\ job.keys = j.keys
    BY <2>0, <2>3 DEF JobType
  <2>4. ASSUME JarsOf(job) = JarsOf(j)
        PROVE  /\ \A q \in Request \ {r} : JarsOf(job) \cap JarsOf(req[q]) \subseteq marred
               /\ JarsOf(j) \ JarsOf(job) = {}
    BY <2>4 DEF Objects
  <2>5. CASE PutObject(r)
    <3>1. /\ job = [j EXCEPT !.at = "upsert"] /\ j.at = "put" /\ "upsert" \in Ats
          /\ store' = store \cup {ProjectOf[k] : k \in j.keys}
          /\ library' = library /\ marred' = marred
      BY <2>5, <2>2 DEF PutObject, TypeOK, Ats, Waiting, ghosts
    <3>2. job.at = "upsert" /\ job.op = "upload" /\ job.keys = j.keys /\ j.op = "upload" /\ j.keys \subseteq Upload
      BY <3>1, <2>0, <2>3 DEF ShapeOK
    <3>3. JarsOf(j) = {ProjectOf[k] : k \in j.keys} /\ JarsOf(job) = JarsOf(j)
      BY <3>1, <3>2 DEF JarsOf
    <3>4. OnItsWay(job)'
      BY <3>1, <3>2, <3>3 DEF OnItsWay
    <3>5. \A c \in Jar \ JarsOf(j) : (c \in store' <=> c \in store) /\ (HasRow(c)' <=> HasRow(c))
      BY <3>1, <3>3 DEF HasRow
    <3> QED
      BY <2>1, <2>4, <3>1, <3>3, <3>4, <3>5, ObjectsKept
  <2>6. CASE DeleteObject(r)
    <3>1. /\ job = [j EXCEPT !.at = "statement"] /\ j.at = "object" /\ "statement" \in Ats
          /\ store' = store \ {ProjectOf[k] : k \in j.keys}
          /\ library' = library /\ marred' = marred
      BY <2>6, <2>2 DEF DeleteObject, TypeOK, Ats, Waiting, ghosts
    <3>2. job.at = "statement" /\ job.op = "delete" /\ job.keys = j.keys /\ j.op = "delete" /\ j.keys \subseteq Upload
      BY <3>1, <2>0, <2>3 DEF ShapeOK
    <3>3. JarsOf(j) = {ProjectOf[k] : k \in j.keys} /\ JarsOf(job) = JarsOf(j)
      BY <3>1, <3>2 DEF JarsOf
    <3>4. OnItsWay(job)'
      BY <3>1, <3>2, <3>3 DEF OnItsWay
    <3>5. \A c \in Jar \ JarsOf(j) : (c \in store' <=> c \in store) /\ (HasRow(c)' <=> HasRow(c))
      BY <3>1, <3>3 DEF HasRow
    <3> QED
      BY <2>1, <2>4, <3>1, <3>3, <3>4, <3>5, ObjectsKept
  <2>7. CASE Upsert(r)
    <3>1. PICK k \in j.keys :
            /\ \/ RowOf(k) # {} /\ library' = library
               \/ library' = library \cup {<<k, created + 1>>}
            /\ job = IF j.op = "install"
                     THEN [j EXCEPT !.at = "check", !.rows = {x \in library' : x[1] = k}]
                     ELSE Done
      BY <2>7, <2>2 DEF Upsert, TypeOK
    <3>2. /\ j.at = "upsert" /\ j.keys = {k} /\ k \in Key /\ j.op \in {"upload", "register", "install"}
          /\ store' = store /\ marred' = marred
      <4>1. j.at = "upsert" /\ store' = store /\ marred' = marred
        BY <2>7 DEF Upsert, ghosts
      <4> QED
        BY <4>1, <3>1, <2>0 DEF ShapeOK
    <3>3. JarsOf(job) = {}
      <4>1. CASE j.op = "install"
        <5>1. job.op = "install"
          BY <4>1, <3>1, <2>0 DEF JobType
        <5> QED
          BY <5>1 DEF JarsOf
      <4>2. CASE j.op # "install"
        BY <4>2, <3>1, RestJobs DEF JarsOf
      <4> QED
        BY <4>1, <4>2
    <3>4. OnItsWay(job)'
      BY <3>3 DEF OnItsWay
    <3>5. \A c : (k \notin Upload \/ ProjectOf[k] # c) => (HasRow(c)' <=> HasRow(c))
      BY <3>1 DEF HasRow
    <3>6. CASE j.op = "upload"
      <4>1. k \in Upload /\ JarsOf(j) = {ProjectOf[k]}
        BY <3>2, <3>6, <2>0 DEF ShapeOK, JarsOf
      <4>2. \E x \in library' : x[1] = k
        <5>1. CASE RowOf(k) # {} /\ library' = library
          BY <5>1 DEF RowOf
        <5>2. CASE library' = library \cup {<<k, created + 1>>}
          <6>1. <<k, created + 1>> \in library' /\ <<k, created + 1>>[1] = k
            BY <5>2
          <6> QED
            BY <6>1
        <5> QED
          BY <3>1, <5>1, <5>2
      <4>3. \A c \in JarsOf(j) \ marred' : Matches(c)'
        BY <4>1, <4>2, <3>2 DEF Matches, HasRow, Objects, OnItsWay
      <4>4. \A c \in Jar \ JarsOf(j) : (c \in store' <=> c \in store) /\ (HasRow(c)' <=> HasRow(c))
        BY <4>1, <3>2, <3>5
      <4> QED
        BY <2>1, <3>2, <3>3, <3>4, <4>3, <4>4, ObjectsKept
    <3>7. CASE j.op # "upload"
      <4>1. k \notin Upload /\ JarsOf(j) = {}
        BY <3>2, <3>7, <2>0, RegistryAssumption DEF ShapeOK, JarsOf
      <4> QED
        BY <2>1, <3>2, <3>3, <3>4, <3>5, <4>1, ObjectsKept
    <3> QED
      BY <3>6, <3>7
  <2>8. CASE Commit(r)
    <3>1. /\ j.at = "commit" /\ job = Publish(IF j.op = "delete" THEN j.stale ELSE j.server)
          /\ library' = (IF j.op = "delete" THEN library \ j.rows ELSE library)
          /\ j.rows \subseteq library /\ store' = store /\ marred' = marred
      BY <2>8, <2>2 DEF Commit, Committable, TypeOK, ghosts
    <3>2. JarsOf(job) = {} /\ OnItsWay(job)'
      BY <3>1, <2>0, RestJobs DEF JarsOf, OnItsWay, JobType
    <3>3. CASE j.op # "delete"
      <4>1. JarsOf(j) = {}
        BY <3>1, <3>3, <2>0 DEF ShapeOK, JarsOf
      <4> QED
        BY <4>1, <2>1, <3>1, <3>2, <3>3, ObjectsQuiet
    <3>4. CASE j.op = "delete"
      <4>1. PICK x \in Row : j.rows = {x} /\ j.keys = {x[1]}
        BY <3>4, <2>0 DEF ShapeOK
      <4>2. JarsOf(j) = {ProjectOf[k] : k \in {x[1]} \cap Upload}
        BY <3>1, <3>4, <4>1 DEF JarsOf
      <4>3. \A c : c \notin JarsOf(j) => (HasRow(c)' <=> HasRow(c))
        BY <3>1, <3>4, <4>1, <4>2 DEF HasRow
      <4>4. ASSUME NEW c \in JarsOf(j) \ marred' PROVE Matches(c)'
        <5>1. x[1] \in Upload /\ c = ProjectOf[x[1]]
          BY <4>2
        <5>2. c \notin store
          BY <3>1 DEF Objects, OnItsWay
        <5>3. ASSUME NEW y \in library', y[1] \in Upload, ProjectOf[y[1]] = c PROVE FALSE
          <6>1. y \in library /\ x \in library /\ y # x /\ y[1] \in Key
            BY <3>1, <3>4, <4>1 DEF TypeOK, Row
          <6>2. y[1] = x[1]
            BY <5>1, <5>3, <6>1 DEF DistinctJars, Key
          <6> QED
            BY <6>1, <6>2 DEF TypeOK
        <5> QED
          BY <5>2, <5>3, <3>1 DEF Matches, HasRow
      <4> QED
        BY <4>3, <4>4, <2>1, <3>1, <3>2, ObjectsKept
    <3> QED
      BY <3>3, <3>4
  <2>9. CASE Statement(r)
    <3> DEFINE ps == Doomed(j)
    <3>1. /\ job = [j EXCEPT !.at = "commit", !.doomed = ps] /\ j.at = "statement"
          /\ UNCHANGED <<library, store, marred>>
      BY <2>9, <2>2 DEF Statement, TypeOK
    <3>2. job.at = "commit" /\ job.op = j.op /\ job.keys = j.keys
      <4> HIDE DEF ps
      <4> QED
        BY <3>1, <2>0 DEF JobType
    <3>3. JarsOf(job) = JarsOf(j)
      BY <3>1, <3>2 DEF JarsOf
    <3>4. OnItsWay(job)'
      BY <3>1, <3>2, <3>3 DEF OnItsWay, Objects
    <3>5. \A c : (c \in store' <=> c \in store) /\ (HasRow(c)' <=> HasRow(c))
      BY <3>1 DEF HasRow
    <3>6. marred' = marred
      BY <3>1
    <3> QED
      BY <2>1, <2>4, <3>3, <3>4, <3>5, <3>6, ObjectsKept
  <2>10. CASE RollBack(r) \/ Fail(r)
    <3>1. job = Done /\ marred' = marred \cup JarsOf(j) /\ UNCHANGED <<library, store>>
      BY <2>10, <2>2 DEF RollBack, Fail, TypeOK
    <3>2. JarsOf(job) = {}
      BY <3>1, RestJobs DEF JarsOf
    <3> QED
      BY <2>1, <3>1, <3>2, ObjectsQuiet
  <2>11. CASE Check(r)
    <3>1. /\ j.at = "check" /\ UNCHANGED <<library, store, marred>>
          /\ job = [j EXCEPT !.at = "statement"] \/ job = Done
      BY <2>11, <2>2 DEF Check, TypeOK, ghosts
    <3>2. JarsOf(job) = {} /\ JarsOf(j) = {}
      BY <3>1, <2>0, <2>3, RestJobs DEF ShapeOK, JarsOf, Ats, Waiting
    <3> QED
      BY <2>1, <3>1, <3>2, ObjectsQuiet
  <2>12. CASE Backfill(r) \/ SyncRead(r) \/ SyncWrite(r) \/ LoseSync(r)
    <3>1. j.at \in {"backfill", "sync"} /\ UNCHANGED <<library, store, marred>>
      BY <2>12 DEF Backfill, SyncRead, SyncWrite, LoseSync, ghosts
    <3>2. job.at \in {"done", "backfill", "sync"}
      BY <2>12, <2>2, QuietEnds
    <3>3. JarsOf(job) = {} /\ JarsOf(j) = {}
      BY <3>1, <3>2, <2>0, <2>1 DEF ShapeOK, JarsOf
    <3> QED
      BY <2>1, <3>1, <3>3, ObjectsQuiet
  <2> QED
    BY <1>4, <2>5, <2>6, <2>7, <2>8, <2>9, <2>10, <2>11, <2>12 DEF Step
<1> QED
  BY <1>1, <1>2, <1>3, <1>4 DEF Next, vars

LEMMA ObjectsInit == Init /\ DistinctJars => Objects
<1> SUFFICES ASSUME Init, DistinctJars PROVE Objects
  OBVIOUS
<1>1. \A r \in Request : JarsOf(req[r]) = {}
  BY DEF Init, Idle, JarsOf
<1>2. StoreMatchesLibrary
  <2>1. PICK keys \in SUBSET Key :
          /\ library = {<<k, 1>> : k \in keys}
          /\ store = {ProjectOf[k] : k \in keys \cap Upload}
    BY DEF Init
  <2>2. ASSUME NEW c, c \in store PROVE \E x \in library : x[1] \in Upload /\ ProjectOf[x[1]] = c
    <3>1. PICK k \in keys \cap Upload : c = ProjectOf[k]
      BY <2>1, <2>2
    <3>2. <<k, 1>> \in library /\ <<k, 1>>[1] = k
      BY <2>1
    <3> QED
      BY <3>1, <3>2
  <2>3. ASSUME NEW x \in library, x[1] \in Upload PROVE ProjectOf[x[1]] \in store
    <3>1. PICK k \in keys : x = <<k, 1>>
      BY <2>1
    <3> QED
      BY <2>1, <2>3, <3>1
  <2> QED
    BY <2>2, <2>3 DEF StoreMatchesLibrary
<1> QED
  BY <1>1, <1>2 DEF Objects, OnItsWay

\* The bucket and the library agree about every JAR that no request is working
\* on: each request on it finds them agreeing and leaves them so, or it failed
\* or met another one.
THEOREM StoreMatches == Spec => []StoreMatchesLibrary
<1> DEFINE Inv == /\ TypeOK /\ \A q \in Request : ShapeOK(req[q])
                  /\ DistinctJars => Objects
<1>1. Inv /\ [Next]_vars => Inv'
  <2>1. DistinctJars' = DistinctJars
    BY DEF DistinctJars
  <2> QED
    BY <2>1, TypeStep, ObjectsStep
<1>2. Init => Inv
  BY TypeInit, ObjectsInit
<1>3. Inv => StoreMatchesLibrary
  BY DEF Objects, StoreMatchesLibrary
<1> QED
  BY <1>1, <1>2, <1>3, PTL DEF Spec

-----------------------------------------------------------------------------
(* The page of the cluster's resources.                                     *)

PollType == Cluster!Polls
AskedType == Cluster!Asked

\* A poll reads what is at least as recent as its beginning, and what it is
\* still waiting for it has not read.
PollOK(j) ==
    /\ ~j.on => j.left = {}
    /\ j.on => j.began <= version
    /\ \A a \in AskedType : j.read[a] # 0 => a \notin j.left /\ j.began <= j.read[a]

\* A poll that has met no other is the only one, and nothing has failed since
\* it began.
AloneIsOnly ==
    \A p \in Poll : poll[p].on /\ poll[p].alone =>
        ~error /\ \A q \in Poll : poll[q].on => q = p

ClusterInv ==
    /\ Cluster!TypeOK
    /\ \A p \in Poll : PollOK(poll[p])
    /\ AloneIsOnly
    /\ Cluster!PollIsShown

LEMMA PollFields ==
    ASSUME NEW j \in PollType
    PROVE  /\ j.on \in BOOLEAN /\ j.left \subseteq AskedType
           /\ j.read \in [AskedType -> 0 .. MaxVersion] /\ j.began \in 0 .. MaxVersion
           /\ j.alone \in BOOLEAN
  BY DEF PollType, AskedType, Cluster!Polls, Cluster!Readings

LEMMA NoPollFits == Cluster!NoPoll \in PollType /\ PollOK(Cluster!NoPoll) /\ ~Cluster!NoPoll.on
<1>1. 0 \in 0 .. MaxVersion
  BY ClusterAssumption
<1>2. Cluster!NoPoll \in PollType
  BY <1>1 DEF PollType, Cluster!Polls, Cluster!Readings, Cluster!NoPoll
<1> QED
  BY <1>2 DEF PollOK, Cluster!NoPoll, AskedType


\* The record of a poll that begins.
Moment == 1 .. MaxVersion
BegunAlone(i, v) == [i EXCEPT !.on = TRUE, !.left = AskedType, !.began = v, !.alone = TRUE]
BegunBeside(i, v) == [i EXCEPT !.on = TRUE, !.left = AskedType, !.began = v, !.alone = FALSE]

LEMMA PollBegins ==
    ASSUME NEW i, i \in PollType, NEW v, v \in Moment, NEW j,
           j = BegunAlone(i, v) \/ j = BegunBeside(i, v)
    PROVE  /\ j \in PollType /\ j.on /\ j.began = v /\ j.read = i.read
           /\ j = BegunBeside(i, v) => ~j.alone
<1>1. v \in 0 .. MaxVersion
  BY ClusterAssumption DEF Moment
<1>2. ASSUME j = BegunAlone(i, v) PROVE j \in PollType /\ j.on /\ j.began = v /\ j.read = i.read /\ j.alone
  BY <1>1, <1>2 DEF BegunAlone, PollType, Cluster!Polls, AskedType
<1>3. ASSUME j = BegunBeside(i, v) PROVE j \in PollType /\ j.on /\ j.began = v /\ j.read = i.read /\ ~j.alone
  BY <1>1, <1>3 DEF BegunBeside, PollType, Cluster!Polls, AskedType
<1> QED
  BY <1>2, <1>3, Zenon

\* A poll that another one meets is no longer alone.
LEMMA PollIsMet ==
    ASSUME NEW i \in PollType, NEW j, j = [i EXCEPT !.alone = @ /\ ~i.on]
    PROVE  /\ j \in PollType /\ j.on = i.on /\ j.left = i.left /\ j.read = i.read
           /\ j.began = i.began /\ (j.alone => ~j.on)
<1> DEFINE b == i.alone /\ ~i.on
<1>1. b \in BOOLEAN
  OBVIOUS
<1>2. j = [i EXCEPT !.alone = b]
  OBVIOUS
<1> HIDE DEF b
<1>3. j \in PollType /\ j.on = i.on /\ j.left = i.left /\ j.read = i.read /\ j.began = i.began
  BY <1>1, <1>2 DEF PollType, Cluster!Polls
<1>4. j.alone = b
  BY <1>2 DEF PollType, Cluster!Polls
<1> QED
  BY <1>3, <1>4 DEF b

\* An answer, or a failure, takes one call from a poll that waits for it.
Settled(i, a, j) ==
    \/ j = [i EXCEPT !.left = @ \ {a}, !.read[a] = version]
    \/ j = [i EXCEPT !.left = @ \ {a}]

LEMMA PollGets ==
    ASSUME NEW i, i \in PollType, PollOK(i), NEW a, a \in i.left, NEW j, Settled(i, a, j),
           version \in 1 .. MaxVersion
    PROVE  /\ j \in PollType /\ PollOK(j) /\ i.on /\ j.on /\ j.alone = i.alone
<1>1. i.on /\ i.on \in BOOLEAN
  BY PollFields DEF PollOK
<1>2. version \in 0 .. MaxVersion /\ a \in AskedType
  BY PollFields
<1>3. CASE j = [i EXCEPT !.left = @ \ {a}, !.read[a] = version]
  <2>1. j \in PollType /\ j.left = i.left \ {a} /\ j.began = i.began
        /\ j.read = [i.read EXCEPT ![a] = version]
    BY <1>2, <1>3 DEF PollType, Cluster!Polls, Cluster!Readings, AskedType
  <2>2. j.on = i.on /\ j.alone = i.alone
    BY <1>3 DEF PollType, Cluster!Polls
  <2> QED
    BY <2>1, <2>2, <1>1, <1>2, PollFields DEF PollOK
<1>4. CASE j = [i EXCEPT !.left = @ \ {a}]
  <2>1. j \in PollType /\ j.left = i.left \ {a} /\ j.began = i.began /\ j.read = i.read
    BY <1>2, <1>4 DEF PollType, Cluster!Polls
  <2>2. j.on = i.on /\ j.alone = i.alone
    BY <1>4 DEF PollType, Cluster!Polls
  <2> QED
    BY <2>1, <2>2, <1>1, <1>2, PollFields DEF PollOK
<1> QED
  BY <1>3, <1>4 DEF Settled

\* What is shown after a poll has ended is of its readings, or as before.
LEMMA EndShows ==
    ASSUME Cluster!TypeOK, NEW p \in Poll
    PROVE  /\ Cluster!Shows(p) \in Cluster!Readings
           /\ \A a \in AskedType : poll[p].read[a] # 0 => Cluster!Shows(p)[a] = poll[p].read[a]
           /\ Cluster!FailedLists(p) # {} <=> \E a \in AskedType : poll[p].read[a] = 0
<1>1. poll[p].read \in [AskedType -> 0 .. MaxVersion] /\ shown \in [AskedType -> 0 .. MaxVersion]
  BY PollFields DEF Cluster!TypeOK, Cluster!Readings, AskedType, PollType
<1> QED
  BY <1>1 DEF Cluster!Shows, Cluster!FailedLists, Cluster!Readings, AskedType

LEMMA ClusterBegins == PartsInit => ClusterInv
<1> SUFFICES ASSUME PartsInit PROVE ClusterInv
  OBVIOUS
<1>1. /\ version = 1 /\ shown = [a \in AskedType |-> 0] /\ poll = [q \in Poll |-> Cluster!NoPoll]
      /\ lost = 0 /\ last = Cluster!NoPoll /\ error = FALSE /\ hasLoaded = FALSE
      /\ initialLoading = TRUE /\ refreshing = FALSE
  BY DEF PartsInit, Cluster!Init, AskedType
<1>2. mounted \in BOOLEAN /\ linked \in BOOLEAN
  BY DEF PartsInit, Cluster!Init
<1>3. shown \in Cluster!Readings /\ version \in 1 .. MaxVersion /\ lost \in 0 .. MaxFailures
  BY <1>1, ClusterAssumption, RegistryAssumption DEF Cluster!Readings, AskedType
<1>4. poll \in [Poll -> Cluster!Polls] /\ last \in Cluster!Polls
  BY <1>1, NoPollFits DEF PollType
<1>5. Cluster!TypeOK
  BY <1>1, <1>2, <1>3, <1>4 DEF Cluster!TypeOK
<1>6. \A q \in Poll : PollOK(poll[q]) /\ ~poll[q].on
  BY <1>1, NoPollFits
<1>7. Cluster!PollIsShown
  BY <1>1 DEF Cluster!PollIsShown
<1> QED
  BY <1>5, <1>6, <1>7 DEF ClusterInv, AloneIsOnly

\* A step that leaves the screen alone, and one poll that goes on.
LEMMA PollGoesOn ==
    ASSUME ClusterInv, NEW p \in Poll, NEW j, PollOK(j), j \in PollType, j.on, poll[p].on,
           j.alone = poll[p].alone, poll' = [poll EXCEPT ![p] = j],
           UNCHANGED <<mounted, version, linked, shown, initialLoading, refreshing, error, hasLoaded, last>>,
           lost' \in 0 .. MaxFailures
    PROVE  ClusterInv'
<1>1. poll'[p] = j /\ \A q \in Poll \ {p} : poll'[q] = poll[q]
  BY DEF ClusterInv, Cluster!TypeOK
<1>2. Cluster!TypeOK'
  BY DEF ClusterInv, Cluster!TypeOK, PollType, Cluster!Readings, Cluster!Polls, Cluster!Asked
<1>3. \A q \in Poll : PollOK(poll[q])'
  BY <1>1 DEF ClusterInv, PollOK
<1>4. AloneIsOnly'
  BY <1>1 DEF ClusterInv, AloneIsOnly
<1>5. p \in Cluster!UnderWay'
  BY <1>1 DEF Cluster!UnderWay
<1>6. Cluster!PollIsShown'
  BY <1>5 DEF Cluster!PollIsShown
<1> QED
  BY <1>2, <1>3, <1>4, <1>6 DEF ClusterInv

LEMMA TickStep ==
    ASSUME ClusterInv, NEW p \in Poll, Cluster!Tick(p)
    PROVE  ClusterInv'
<1> DEFINE b == Cluster!UnderWay = {}
<1>1. b \in BOOLEAN /\ version \in 1 .. MaxVersion /\ \A q \in Poll : poll[q] \in PollType
  BY DEF ClusterInv, Cluster!TypeOK, PollType
<1>2. /\ b = TRUE => poll'[p] = BegunAlone(Cluster!NoPoll, version)
      /\ b = FALSE => poll'[p] = BegunBeside(Cluster!NoPoll, version)
      /\ \A q \in Poll \ {p} : poll'[q] = [poll[q] EXCEPT !.alone = @ /\ ~poll[q].on]
  BY DEF Cluster!Tick, AskedType, BegunAlone, BegunBeside
<1>3. b <=> \A q \in Poll : ~poll[q].on
  BY DEF Cluster!UnderWay
<1>4. /\ UNCHANGED <<mounted, version, linked, shown, initialLoading, hasLoaded, lost, last>>
      /\ refreshing' = (refreshing \/ hasLoaded) /\ error' = FALSE
      /\ DOMAIN poll' = Poll /\ poll' = [q \in Poll |-> poll'[q]]
  BY DEF Cluster!Tick, Cluster!Begins
<1> HIDE DEF b
<1>5. /\ poll'[p] \in PollType /\ poll'[p].on /\ (poll'[p].alone => b)
      /\ poll'[p].began = version /\ \A a \in AskedType : poll'[p].read[a] = 0
  <2>1. Cluster!NoPoll \in PollType /\ \A a \in AskedType : Cluster!NoPoll.read[a] = 0
    BY NoPollFits DEF Cluster!NoPoll, AskedType
  <2>2. version \in Moment /\ (b = TRUE \/ b = FALSE)
    BY <1>1 DEF Moment
  <2>3. CASE b = TRUE
    <3>1. poll'[p] = BegunAlone(Cluster!NoPoll, version)
      BY <1>2, <2>3 DEF b
    <3> QED
      BY <3>1, <2>1, <2>2, <2>3, PollBegins
  <2>4. CASE b = FALSE
    <3>1. poll'[p] = BegunBeside(Cluster!NoPoll, version)
      BY <1>2, <2>4 DEF b
    <3> QED
      BY <3>1, <2>1, <2>2, PollBegins
  <2> QED
    BY <2>2, <2>3, <2>4
<1>6. ASSUME NEW q \in Poll \ {p}
      PROVE  /\ poll'[q] \in PollType /\ poll'[q].on = poll[q].on /\ poll'[q].left = poll[q].left
             /\ poll'[q].read = poll[q].read /\ poll'[q].began = poll[q].began
             /\ (poll'[q].alone => ~poll'[q].on)
  BY <1>1, <1>2, PollIsMet
<1>7. refreshing' \in BOOLEAN
  BY <1>4
<1>8. Cluster!TypeOK'
  <2>1. poll' \in [Poll -> Cluster!Polls]
    BY <1>4, <1>5, <1>6 DEF PollType
  <2>2. poll' \in [Poll -> Cluster!Polls']
    BY <2>1 DEF Cluster!Polls, Cluster!Readings, Cluster!Asked
  <2> QED
    BY <2>2, <1>4, <1>7 DEF ClusterInv, Cluster!TypeOK, Cluster!Readings, Cluster!Polls, Cluster!Asked
<1>9. \A q \in Poll : PollOK(poll[q])'
  <2>1. PollOK(poll[p])'
    BY <1>4, <1>5, <1>1 DEF PollOK, AskedType, Cluster!Asked
  <2>2. ASSUME NEW q \in Poll \ {p} PROVE PollOK(poll[q])'
    BY <1>4, <1>6 DEF PollOK, ClusterInv, AskedType, Cluster!Asked
  <2> QED
    BY <2>1, <2>2
<1>10. AloneIsOnly'
  <2> SUFFICES ASSUME NEW q \in Poll, poll'[q].on, poll'[q].alone
               PROVE  ~error' /\ \A r \in Poll : poll'[r].on => r = q
    BY DEF AloneIsOnly
  <2>1. q = p
    BY <1>6
  <2>2. b
    BY <2>1, <1>5
  <2> QED
    BY <2>1, <2>2, <1>3, <1>4, <1>6
<1>11. Cluster!PollIsShown'
  BY <1>5 DEF Cluster!PollIsShown, Cluster!UnderWay
<1> QED
  BY <1>8, <1>9, <1>10, <1>11 DEF ClusterInv

LEMMA EndStep ==
    ASSUME ClusterInv, NEW p \in Poll, Cluster!End(p)
    PROVE  ClusterInv'
<1>1. /\ poll[p] \in PollType /\ poll[p].on /\ PollOK(poll[p])
      /\ poll' = [poll EXCEPT ![p] = Cluster!NoPoll] /\ shown' = Cluster!Shows(p)
      /\ error' = (error \/ Cluster!FailedLists(p) # {})
      /\ hasLoaded' = TRUE /\ initialLoading' = FALSE /\ refreshing' = FALSE
      /\ last' = [poll[p] EXCEPT !.on = FALSE]
      /\ UNCHANGED <<mounted, version, linked, lost>>
  BY DEF ClusterInv, Cluster!TypeOK, Cluster!End, PollType
<1>2. poll'[p] = Cluster!NoPoll /\ \A q \in Poll \ {p} : poll'[q] = poll[q]
  BY <1>1 DEF ClusterInv, Cluster!TypeOK
<1>3. /\ last' \in PollType /\ last'.read = poll[p].read /\ last'.began = poll[p].began
  BY <1>1 DEF PollType, Cluster!Polls
<1>4. last'.alone = poll[p].alone
  BY <1>1 DEF PollType, Cluster!Polls
<1>5. /\ shown' \in Cluster!Readings
      /\ \A a \in AskedType : poll[p].read[a] # 0 => shown'[a] = poll[p].read[a]
      /\ (Cluster!FailedLists(p) # {}) <=> \E a \in AskedType : poll[p].read[a] = 0
  BY <1>1, EndShows DEF ClusterInv
<1>6. Cluster!TypeOK'
  <2>1. poll' \in [Poll -> Cluster!Polls]
    BY <1>1, NoPollFits DEF ClusterInv, Cluster!TypeOK, PollType
  <2>2. error' \in BOOLEAN
    BY <1>1
  <2> QED
    BY <2>1, <2>2, <1>1, <1>3, <1>5
       DEF ClusterInv, Cluster!TypeOK, PollType, Cluster!Readings, Cluster!Polls, Cluster!Asked
<1>7. \A q \in Poll : PollOK(poll[q])'
  BY <1>1, <1>2, NoPollFits DEF ClusterInv, PollOK, AskedType, Cluster!Asked
<1>8. AloneIsOnly'
  <2> SUFFICES ASSUME NEW q \in Poll, poll'[q].on, poll'[q].alone
               PROVE  ~error' /\ \A r \in Poll : poll'[r].on => r = q
    BY DEF AloneIsOnly
  <2>1. q # p /\ poll[q].on /\ poll[q].alone
    BY <1>2, NoPollFits
  <2>2. p = q
    BY <2>1, <1>1 DEF ClusterInv, AloneIsOnly
  <2> QED
    BY <2>1, <2>2
<1>9. Cluster!PollIsShown'
  <2> SUFFICES ASSUME poll[p].alone PROVE Cluster!PollIsShown'
    BY <1>4 DEF Cluster!PollIsShown
  <2>1. ~error
    BY <1>1 DEF ClusterInv, AloneIsOnly
  <2>2. error' = (\E a \in AskedType : last'.read[a] = 0)
    BY <2>1, <1>1, <1>3, <1>5
  <2>3. \A a \in AskedType : last'.read[a] > 0 => shown'[a] >= last'.began
    <3> TAKE a \in AskedType
    <3>1. poll[p].read[a] \in Nat /\ poll[p].began \in Nat
      BY <1>1, PollFields
    <3> QED
      BY <3>1, <1>1, <1>3, <1>5 DEF PollOK
  <2> QED
    BY <2>2, <2>3, <1>1 DEF Cluster!PollIsShown, AskedType, Cluster!Asked
<1> QED
  BY <1>6, <1>7, <1>8, <1>9 DEF ClusterInv

LEMMA LeaveStep ==
    ASSUME ClusterInv, Cluster!Leave
    PROVE  ClusterInv'
<1>1. /\ mounted' = FALSE /\ poll' = [q \in Poll |-> Cluster!NoPoll]
      /\ UNCHANGED <<version, linked, shown, initialLoading, refreshing, error, hasLoaded, lost, last>>
  BY DEF Cluster!Leave, Cluster!screen
<1>2. Cluster!TypeOK'
  BY <1>1, NoPollFits DEF ClusterInv, Cluster!TypeOK, PollType, Cluster!Readings, Cluster!Polls, Cluster!Asked
<1>3. \A q \in Poll : PollOK(poll[q])' /\ ~poll'[q].on
  BY <1>1, NoPollFits DEF PollOK, AskedType, Cluster!Asked
<1> QED
  BY <1>1, <1>2, <1>3 DEF ClusterInv, AloneIsOnly, Cluster!PollIsShown

LEMMA ChangeStep ==
    ASSUME ClusterInv, Cluster!Change
    PROVE  ClusterInv'
<1>1. /\ version < MaxVersion /\ version' = version + 1
      /\ UNCHANGED <<mounted, linked, poll, shown, initialLoading, refreshing, error, hasLoaded, lost, last>>
  BY DEF Cluster!Change, Cluster!screen
<1>2. Cluster!TypeOK'
  BY <1>1, ClusterAssumption
     DEF ClusterInv, Cluster!TypeOK, Cluster!Readings, Cluster!Polls, Cluster!Asked
<1>3. \A q \in Poll : PollOK(poll[q])'
  <2> TAKE q \in Poll
  <2>1. poll[q] \in PollType /\ PollOK(poll[q]) /\ version \in Nat
    BY DEF ClusterInv, Cluster!TypeOK, PollType
  <2> QED
    BY <2>1, <1>1, PollFields DEF PollOK, AskedType, Cluster!Asked
<1>4. AloneIsOnly' /\ Cluster!PollIsShown'
  BY <1>1 DEF ClusterInv, AloneIsOnly, Cluster!PollIsShown, Cluster!UnderWay, Cluster!Asked
<1> QED
  BY <1>2, <1>3, <1>4 DEF ClusterInv

LEMMA ClusterStep ==
    ASSUME ClusterInv, [Cluster!Next]_clusterVars
    PROVE  ClusterInv'
<1>1. CASE UNCHANGED clusterVars
  BY <1>1 DEF clusterVars, ClusterInv, Cluster!TypeOK, PollOK, AloneIsOnly, Cluster!PollIsShown,
              Cluster!UnderWay, Cluster!Asked, AskedType, Cluster!Readings, Cluster!Polls
<1>2. ASSUME NEW p \in Poll, Cluster!Settle(p), ~Cluster!End(p) PROVE ClusterInv'
  <2>1. PICK a \in AskedType : Cluster!Answer(p, a) \/ Cluster!Lost(p, a) \/ Cluster!Unlinked(p, a)
    BY <1>2 DEF Cluster!Settle, AskedType
  <2>2. poll[p] \in PollType /\ PollOK(poll[p]) /\ version \in 1 .. MaxVersion
        /\ lost \in 0 .. MaxFailures /\ poll \in [Poll -> PollType]
    BY DEF ClusterInv, Cluster!TypeOK, PollType
  <2>3. PICK j : /\ poll' = [poll EXCEPT ![p] = j]
                 /\ Settled(poll[p], a, j)
    BY <2>1, <2>2 DEF Settled, Cluster!Answer, Cluster!Lost, Cluster!Unlinked
  <2>4. /\ a \in poll[p].left
        /\ UNCHANGED <<mounted, version, linked, shown, initialLoading, refreshing, error, hasLoaded, last>>
        /\ lost' \in 0 .. MaxFailures
    BY <2>1, <2>2, RegistryAssumption DEF Cluster!Answer, Cluster!Lost, Cluster!Unlinked, Cluster!screen
  <2>5. j \in PollType /\ PollOK(j) /\ poll[p].on /\ j.on /\ j.alone = poll[p].alone
    BY ONLY <2>2, <2>3, <2>4, PollGets, Zenon
  <2> QED
    BY <2>3, <2>4, <2>5, PollGoesOn
<1> QED
  BY <1>1, <1>2, TickStep, EndStep, LeaveStep, ChangeStep DEF Cluster!Next

-----------------------------------------------------------------------------
(* Both parts.                                                              *)

PartsInv ==
    /\ TypeOK /\ \A q \in Request : ShapeOK(req[q])
    /\ ClusterInv

LEMMA PartsInvariant == PartsSpec => []PartsInv
<1>1. PartsInit => TypeOK /\ \A q \in Request : ShapeOK(req[q])
  <2> SUFFICES ASSUME PartsInit PROVE TypeOK /\ \A q \in Request : ShapeOK(req[q])
    OBVIOUS
  <2>1. CASE part = "registry"
    BY <2>1, TypeInit DEF PartsInit
  <2>2. CASE part # "registry"
    <3>1. /\ library = {} /\ created = 1 /\ store = {} /\ servers = {} /\ installed = {}
          /\ published = [s \in Server |-> {}] /\ req = [r \in Request |-> Idle]
          /\ cycle = NoCycle /\ failures = 0 /\ marred = {} /\ mixed = {}
      BY <2>2 DEF PartsInit
    <3>2. cycle \in [todo : SUBSET Server, seen : SUBSET Installation]
      BY <3>1 DEF NoCycle
    <3>3. ShapeOK(Idle)
      BY DEF ShapeOK, Idle
    <3>4. req \in [Request -> JobType]
      BY <3>1, RestJobs
    <3> QED
      BY <3>1, <3>2, <3>3, <3>4 DEF TypeOK
  <2> QED
    BY <2>1, <2>2
<1>2. PartsInit => PartsInv
  BY <1>1, ClusterBegins DEF PartsInv
<1>3. PartsInv /\ [PartsNext]_partsVars => PartsInv'
  <2> SUFFICES ASSUME PartsInv, [PartsNext]_partsVars PROVE PartsInv'
    OBVIOUS
  <2>1. [Next]_vars /\ [Cluster!Next]_clusterVars
    BY DEF PartsNext, partsVars
  <2> QED
    BY <2>1, TypeStep, ClusterStep DEF PartsInv
<1> QED
  BY <1>2, <1>3, PTL DEF PartsSpec

\* The state of both parts has its type.
THEOREM PartsTyped == PartsSpec => []PartsTypeOK
<1>1. PartsInv => PartsTypeOK
  BY DEF PartsInv, ClusterInv, PartsTypeOK
<1> QED
  BY <1>1, PartsInvariant, PTL

\* A poll that met no other is what the page shows when it has ended: the lists
\* it read are at least as recent as its beginning, and there is an error exactly
\* if one of them could not be read, whatever the polls before it had left.
THEOREM ThePollIsShown == PartsSpec => []PollIsShown
<1>1. PartsInv => PollIsShown
  BY DEF PartsInv, ClusterInv, PollIsShown
<1> QED
  BY <1>1, PartsInvariant, PTL
=============================================================================
