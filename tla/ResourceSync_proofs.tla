------------------------ MODULE ResourceSync_proofs ------------------------
(* Proofs about ResourceSync, for every set of ids, every number of         *)
(* concurrent requests and every bound.                                     *)
EXTENDS ResourceSync, SequenceTheorems, TLAPS

\* Two sequences that start with one element each determine both parts.
LEMMA PrefixedEqual ==
    ASSUME NEW S, NEW u \in Seq(S), NEW v \in Seq(S), NEW a \in Seq(S), NEW b \in Seq(S),
           Len(u) = 1, Len(v) = 1, u \o a = v \o b
    PROVE  u = v /\ a = b
<1>1. \A i \in 1 .. Len(u) + Len(a) : (u \o a)[i] = IF i <= Len(u) THEN u[i] ELSE a[i - Len(u)]
  BY ConcatProperties, Zenon
<1>2. \A i \in 1 .. Len(v) + Len(b) : (v \o b)[i] = IF i <= Len(v) THEN v[i] ELSE b[i - Len(v)]
  BY ConcatProperties, Zenon
<1>3. Len(a) \in Nat /\ Len(b) \in Nat
  BY LenProperties
<1>4. u[1] = (u \o a)[1]
  BY <1>1, <1>3
<1>5. v[1] = (v \o b)[1]
  BY <1>2, <1>3
<1>6. u = v
  <2>1. \A i \in 1 .. Len(u) : u[i] = v[i]
    BY <1>4, <1>5
  <2> QED
    BY <2>1, SeqEqual, Zenon
<1> QED
  BY <1>6, ConcatSimplifications, Zenon

\* The Secret of a row is the Secret of no other row (the prefixes of the two
\* kinds differ).
LEMMA SecretNameInjective ==
    \A r, s \in Rows : SecretName(r) = SecretName(s) => r = s
<1> SUFFICES ASSUME NEW r \in Rows, NEW s \in Rows, SecretName(r) = SecretName(s)
             PROVE  r = s
  OBVIOUS
<1>1. /\ r = <<r[1], r[2]>> /\ r[1] \in {"server", "proxy"} /\ r[2] \in Seq(Words)
      /\ s = <<s[1], s[2]>> /\ s[1] \in {"server", "proxy"} /\ s[2] \in Seq(Words)
  BY IdsAssumption DEF Rows
<1> DEFINE P == IF r[1] = "server" THEN <<"mc">> ELSE <<"rp">>
           Q == IF s[1] = "server" THEN <<"mc">> ELSE <<"rp">>
<1>2. SecretName(r) = P \o r[2] /\ SecretName(s) = Q \o s[2]
  BY DEF SecretName, Kind, Id
<1>3. /\ P \in Seq(Words) /\ Len(P) = 1
      /\ Q \in Seq(Words) /\ Len(Q) = 1
  <2>1. \A p \in Words : <<p>> \in Seq(Words) /\ Len(<<p>>) = 1
    OBVIOUS
  <2>2. /\ <<"mc">> \in Seq(Words) /\ Len(<<"mc">>) = 1
        /\ <<"rp">> \in Seq(Words) /\ Len(<<"rp">>) = 1
    BY <2>1, IdsAssumption, Zenon
  <2>3. /\ P = <<"mc">> \/ P = <<"rp">>
        /\ Q = <<"mc">> \/ Q = <<"rp">>
    OBVIOUS
  <2> HIDE DEF P, Q
  <2> QED
    BY <2>2, <2>3
<1>4. P[1] = Q[1] => r[1] = s[1]
  BY <1>1
<1> HIDE DEF P, Q
<1>5. P = Q /\ r[2] = s[2]
  <2>1. P \o r[2] = Q \o s[2]
    BY <1>2
  <2>2. r[2] \in Seq(Words) /\ s[2] \in Seq(Words)
    BY <1>1
  <2>3. ASSUME NEW a \in Seq(Words), NEW b \in Seq(Words), P \o a = Q \o b
        PROVE  P = Q /\ a = b
    <3>1. /\ P \in Seq(Words) /\ Q \in Seq(Words)
          /\ Len(P) = 1 /\ Len(Q) = 1
      BY <1>3
    <3> QED
      BY <2>3, <3>1, PrefixedEqual, Zenon
  <2> QED
    BY <2>1, <2>2, <2>3
<1>6. r[1] = s[1]
  BY <1>4, <1>5
<1>7. <<r[1], r[2]>> = <<s[1], s[2]>>
  BY <1>5, <1>6
<1> QED
  BY <1>1, <1>7, Zenon

-----------------------------------------------------------------------------
(* How the building blocks of the actions change the jobs.                 *)

Unchanged == db' = db /\ commits' = commits

\* The jobs after a step: well typed, each one OK, and no new list call.
JobsStep ==
    /\ work' \in [Workers -> Jobs]
    /\ \A w \in Workers : JobOK(w)'
    /\ \A k \in Kinds : work'[<<"list", k>>].pc = "list" => work[<<"list", k>>].pc = "list"
    /\ \A k \in Kinds : work[<<"list", k>>].pc = "idle" => work'[<<"list", k>>].pc = "idle"

\* The cycle after a step that neither starts it nor reads a table.
CycleStays ==
    /\ cycle' \in [pc : {"idle", "read", "sync", "prune"}, unread : SUBSET Kinds,
                   failed : BOOLEAN, waiting : SUBSET Workers]
    /\ cycle'.pc \in {"read", "sync"} => cycle'.pc = cycle.pc /\ cycle'.unread = cycle.unread

\* Advance keeps the row and the commit of every job.
LEMMA AdvanceStep ==
    ASSUME SyncInv, NEW w \in Workers, NEW pc \in Syncing \cup Deleting, NEW S,
           Advance(w, pc, S), Unchanged, work[w].pc \notin {"idle", "list"},
           pc \in Deleting => work[w].pc \in Deleting
    PROVE  JobsStep
<1>1. work \in [Workers -> Jobs] /\ \A u \in Workers : JobOK(u)
  BY DEF SyncInv, TypeOK
<1>2. ASSUME NEW u \in Workers
      PROVE  /\ work'[u] \in Jobs
             /\ work'[u].row = work[u].row /\ work'[u].ver = work[u].ver
             /\ work'[u].pc = IF u = w THEN pc ELSE work[u].pc
  BY <1>1 DEF Advance, Jobs, Calling
<1>3. work' \in [Workers -> Jobs]
  BY <1>2 DEF Advance
<1>4. w[1] # "list"
  BY <1>1 DEF JobOK
<1>5. ASSUME NEW u \in Workers
      PROVE  JobOK(u)'
  BY <1>1, <1>2, <1>4 DEF JobOK, Unchanged, Syncing, Deleting
<1>6. \A k \in Kinds : <<"list", k>> \in Workers /\ <<"list", k>> # w
  BY <1>4 DEF Workers
<1> QED
  BY <1>2, <1>3, <1>5, <1>6 DEF JobsStep

\* A worker that ends becomes idle and every other keeps its job.
LEMMA IdleStep ==
    ASSUME SyncInv, NEW w \in Workers, work' = [work EXCEPT ![w] = Idle], Unchanged
    PROVE  JobsStep
<1>1. work \in [Workers -> Jobs] /\ \A u \in Workers : JobOK(u)
  BY DEF SyncInv, TypeOK
<1>2. Idle \in Jobs /\ Idle.pc = "idle"
  BY BoundsAssumption DEF Idle, Job, Jobs, Versions
<1>3. work' \in [Workers -> Jobs]
  BY <1>1, <1>2
<1>4. \A u \in Workers : JobOK(u)'
  BY <1>1, <1>2 DEF JobOK, Unchanged, Deleting
<1>5. \A k \in Kinds : <<"list", k>> \in Workers
  BY DEF Workers
<1> QED
  BY <1>1, <1>2, <1>3, <1>4, <1>5 DEF JobsStep

\* A worker that has nothing left to do ends, and its cycle no longer waits for it.
LEMMA FinishStep ==
    ASSUME SyncInv, NEW w \in Workers, Finish(w), Unchanged
    PROVE  JobsStep /\ CycleStays
<1>1. JobsStep
  BY IdleStep DEF Finish
<1>2. CycleStays
  BY DEF SyncInv, TypeOK, Finish, CycleStays
<1> QED
  BY <1>1, <1>2

\* A worker whose call failed ends, and its cycle notes the failure or ends too.
LEMMA RejectStep ==
    ASSUME SyncInv, NEW w \in Workers, Reject(w), Unchanged
    PROVE  JobsStep /\ CycleStays
<1>1. JobsStep
  BY IdleStep DEF Reject
<1>2. CycleStays
  BY DEF SyncInv, TypeOK, Reject, NoCycle, CycleStays
<1> QED
  BY <1>1, <1>2

\* A step that commits nothing and reads no table preserves the invariant if it
\* preserves the types of the cluster and handles jobs and cycle as above.
LEMMA QuietStep ==
    ASSUME SyncInv, Unchanged, UNCHANGED snap, JobsStep, CycleStays,
           cr' \in [Rows -> [ver : Versions, deleting : BOOLEAN] \cup {Nil}],
           secrets' \in [SecretNames -> Versions \cup {Nil}],
           faults' \in 0..MaxFaults, status' \in 0..MaxStatus
    PROVE  SyncInv'
<1>1. TypeOK'
  BY DEF SyncInv, TypeOK, JobsStep, CycleStays, Unchanged
<1>2. CommitsOK' /\ CycleOK'
  BY DEF SyncInv, CommitsOK, CycleOK, CycleStays, Unchanged
<1>3. \A k \in Kinds : Covers(k)' <=> Covers(k)
  BY DEF Covers, Unchanged
<1>4. SnapshotOK'
  BY <1>3 DEF SyncInv, SnapshotOK, CycleStays, JobsStep
<1>5. SnapshotComplete'
  BY <1>3 DEF SyncInv, SnapshotComplete, JobsStep
<1> QED
  BY <1>1, <1>2, <1>4, <1>5 DEF SyncInv, JobsStep

-----------------------------------------------------------------------------
(* The inductive invariant.                                                *)

\* The invariant holds after an upgrade, when no call chain runs.
LEMMA SyncInit == Init => SyncInv
<1> SUFFICES ASSUME Init PROVE SyncInv
  OBVIOUS
<1>1. 0 \in Versions /\ Idle \in Jobs /\ Idle.pc = "idle"
  BY BoundsAssumption DEF Idle, Job, Jobs, Versions
<1>2. TypeOK
  <2>1. db \in [Rows -> [ver : Versions, key : Versions] \cup {Nil}]
    BY <1>1 DEF Init
  <2>2. secrets \in [SecretNames -> Versions \cup {Nil}]
    BY <1>1 DEF Init
  <2>3. /\ cr \in [Rows -> [ver : Versions, deleting : BOOLEAN] \cup {Nil}]
        /\ work \in [Workers -> Jobs]
        /\ snap \in [Kinds -> [rows : SUBSET Rows, asOf : Versions]]
    BY <1>1 DEF Init, NoSnapshot
  <2>4. /\ cycle \in [pc : {"idle", "read", "sync", "prune"}, unread : SUBSET Kinds,
                       failed : BOOLEAN, waiting : SUBSET Workers]
        /\ commits \in Versions /\ faults \in 0..MaxFaults /\ status \in 0..MaxStatus
    BY <1>1, BoundsAssumption DEF Init, NoCycle
  <2> QED
    BY <2>1, <2>2, <2>3, <2>4 DEF TypeOK
<1>3. CommitsOK /\ CycleOK /\ SnapshotOK
  BY DEF Init, CommitsOK, CycleOK, SnapshotOK, NoSnapshot, NoCycle
<1>4. (\A w \in Workers : JobOK(w)) /\ SnapshotComplete
  <2>1. \A w \in Workers : work[w].pc = "idle"
    BY <1>1 DEF Init
  <2>2. \A k \in Kinds : <<"list", k>> \in Workers
    BY DEF Workers
  <2> QED
    BY <2>1, <2>2 DEF JobOK, SnapshotComplete, Deleting
<1> QED
  BY <1>2, <1>3, <1>4 DEF SyncInv

\* The calls of a synchronization and of a removal, once they are sent.
LEMMA StepInv ==
    ASSUME SyncInv, NEW w \in Workers, Step(w), ~ListStale(w), ~ContinueUpdate(w), ~FetchRow(w)
    PROVE  SyncInv'
<1> USE DEF Unchanged, cluster, budget
<1>1. /\ work[w] \in Jobs /\ JobOK(w) /\ TypeOK
  BY DEF SyncInv, TypeOK
<1>2. CycleStays \/ cycle' # cycle
  BY <1>1 DEF TypeOK, CycleStays
\* One call of a synchronization leads to the next.
<1>a. ASSUME NEW pc \in Syncing, NEW S, Advance(w, pc, S), UNCHANGED cycle, Unchanged,
             work[w].pc \in Syncing
      PROVE  JobsStep /\ CycleStays
  <2>1. work[w].pc \notin {"idle", "list"} /\ pc \notin Deleting
    BY <1>a DEF Syncing, Deleting
  <2>2. JobsStep
    BY <1>a, <2>1, AdvanceStep
  <2> QED
    BY <1>2, <1>a, <2>2
<1>b. {"readSecret", "replaceSecret", "createSecret", "readResource",
       "replaceResource", "createResource", "deleteLegacy"} \subseteq Syncing
  BY DEF Syncing
<1>3. CASE AbandonUpdate(w)
  BY <1>1, <1>3, RejectStep, QuietStep DEF AbandonUpdate, TypeOK
<1>4. CASE ReadSecret(w)
  <2>1. PICK pc \in {"createSecret", "replaceSecret"} : Advance(w, pc, {})
    BY <1>4 DEF ReadSecret
  <2>2. JobsStep /\ CycleStays
    BY <1>a, <1>b, <1>4, <2>1 DEF ReadSecret
  <2> QED
    BY <1>1, <1>4, <2>2, QuietStep DEF ReadSecret, TypeOK
<1>5. CASE ReplaceSecret(w)
  <2> DEFINE n == SecretName(work[w].row)
  <2>1. JobsStep /\ CycleStays
    <3>1. CASE Reject(w)
      BY <1>5, <3>1, RejectStep DEF ReplaceSecret
    <3>2. CASE ~Reject(w)
      <4>1. /\ Advance(w, "readResource", {u \in Workers : HoldsSecret(u, SecretName(work[w].row))})
            /\ UNCHANGED cycle
        BY <1>5, <3>2 DEF ReplaceSecret
      <4> QED
        BY <1>a, <1>b, <1>5, <4>1 DEF ReplaceSecret
    <3> QED
      BY <3>1, <3>2
  <2>2. secrets' \in [SecretNames -> Versions \cup {Nil}]
    BY <1>1, <1>5 DEF ReplaceSecret, TypeOK, Jobs
  <2> QED
    BY <1>1, <1>5, <2>1, <2>2, QuietStep DEF ReplaceSecret, TypeOK
<1>6. CASE CreateSecret(w)
  <2>1. JobsStep /\ CycleStays
    <3>1. CASE Reject(w)
      BY <1>6, <3>1, RejectStep DEF CreateSecret
    <3>2. CASE ~Reject(w)
      <4>1. /\ Advance(w, "readResource", {u \in Workers : HoldsSecret(u, SecretName(work[w].row))})
            /\ UNCHANGED cycle
        BY <1>6, <3>2 DEF CreateSecret
      <4> QED
        BY <1>a, <1>b, <1>6, <4>1 DEF CreateSecret
    <3> QED
      BY <3>1, <3>2
  <2>2. secrets' \in [SecretNames -> Versions \cup {Nil}]
    BY <1>1, <1>6 DEF CreateSecret, TypeOK, Jobs
  <2> QED
    BY <1>1, <1>6, <2>1, <2>2, QuietStep DEF CreateSecret, TypeOK
<1>7. CASE ReadResource(w)
  <2>1. PICK pc \in {"createResource", "replaceResource"} : Advance(w, pc, {})
    BY <1>7 DEF ReadResource
  <2>2. JobsStep /\ CycleStays
    BY <1>a, <1>b, <1>7, <2>1 DEF ReadResource
  <2> QED
    BY <1>1, <1>7, <2>2, QuietStep DEF ReadResource, TypeOK
<1>8. CASE ReplaceResource(w)
  <2>1. JobsStep /\ CycleStays
    <3>1. CASE Reject(w)
      BY <1>8, <3>1, RejectStep DEF ReplaceResource
    <3>2. CASE ~Reject(w)
      <4>1. /\ Advance(w, "deleteLegacy", {u \in Workers : HoldsResource(u, work[w].row)})
            /\ UNCHANGED cycle
        BY <1>8, <3>2 DEF ReplaceResource, WriteResource
      <4> QED
        BY <1>a, <1>b, <1>8, <4>1 DEF ReplaceResource
    <3> QED
      BY <3>1, <3>2
  <2>2. cr' \in [Rows -> [ver : Versions, deleting : BOOLEAN] \cup {Nil}]
    <3>1. work[w].row \in Rows /\ work[w].ver \in Versions
      BY <1>1, <1>8 DEF ReplaceResource, JobOK, Jobs
    <3>2. cr[work[w].row] # Nil =>
            [cr[work[w].row] EXCEPT !.ver = work[w].ver] \in [ver : Versions, deleting : BOOLEAN]
      BY <1>1, <3>1 DEF TypeOK
    <3> QED
      BY <1>1, <1>8, <3>1, <3>2 DEF ReplaceResource, WriteResource, TypeOK
  <2> QED
    BY <1>1, <1>8, <2>1, <2>2, QuietStep DEF ReplaceResource, TypeOK
<1>9. CASE CreateResource(w)
  <2>1. JobsStep /\ CycleStays
    <3>1. CASE Reject(w)
      BY <1>9, <3>1, RejectStep DEF CreateResource
    <3>2. CASE ~Reject(w)
      <4>1. /\ Advance(w, "deleteLegacy", {u \in Workers : HoldsResource(u, work[w].row)})
            /\ UNCHANGED cycle
        BY <1>9, <3>2 DEF CreateResource, WriteResource
      <4> QED
        BY <1>a, <1>b, <1>9, <4>1 DEF CreateResource
    <3> QED
      BY <3>1, <3>2
  <2>2. cr' \in [Rows -> [ver : Versions, deleting : BOOLEAN] \cup {Nil}]
    <3>1. [ver |-> work[w].ver, deleting |-> FALSE] \in [ver : Versions, deleting : BOOLEAN]
      BY <1>1 DEF Jobs
    <3> QED
      BY <1>1, <1>9, <3>1 DEF CreateResource, WriteResource, TypeOK
  <2> QED
    BY <1>1, <1>9, <2>1, <2>2, QuietStep DEF CreateResource, TypeOK
<1>10. CASE DeleteLegacy(w)
  <2>1. JobsStep /\ CycleStays
    BY <1>10, FinishStep DEF DeleteLegacy
  <2>2. secrets' \in [SecretNames -> Versions \cup {Nil}]
    BY <1>1, <1>10 DEF DeleteLegacy, TypeOK
  <2> QED
    BY <1>1, <1>10, <2>1, <2>2, QuietStep DEF DeleteLegacy, TypeOK
<1>11. CASE DeleteResource(w)
  <2>1. JobsStep
    BY <1>11, AdvanceStep DEF DeleteResource, WriteResource, Deleting
  <2>2. cr' \in [Rows -> [ver : Versions, deleting : BOOLEAN] \cup {Nil}]
    <3>1. work[w].row \in Rows
      BY <1>1, <1>11 DEF DeleteResource, JobOK
    <3>2. cr[work[w].row] # Nil =>
            [cr[work[w].row] EXCEPT !.deleting = TRUE] \in [ver : Versions, deleting : BOOLEAN]
      <4>1. cr[work[w].row] \in [ver : Versions, deleting : BOOLEAN] \cup {Nil}
        BY <1>1, <3>1 DEF TypeOK
      <4> QED
        BY ONLY <4>1
    <3> QED
      BY <1>1, <1>11, <3>1, <3>2 DEF DeleteResource, WriteResource, TypeOK
  <2> QED
    BY <1>1, <1>2, <1>11, <2>1, <2>2, QuietStep DEF DeleteResource, TypeOK
<1>12. CASE DeleteSecret(w)
  <2>1. JobsStep /\ CycleStays
    BY <1>12, FinishStep DEF DeleteSecret
  <2>2. secrets' \in [SecretNames -> Versions \cup {Nil}]
    BY <1>1, <1>12 DEF DeleteSecret, TypeOK
  <2> QED
    BY <1>1, <1>12, <2>1, <2>2, QuietStep DEF DeleteSecret, TypeOK
<1> QED
  BY <1>3, <1>4, <1>5, <1>6, <1>7, <1>8, <1>9, <1>10, <1>11, <1>12 DEF Step

\* A step that gives worker w a new job that is not a list call.
LEMMA NewJobStep ==
    ASSUME SyncInv, NEW w \in Workers, w[1] # "list", NEW j \in Jobs,
           work' = [work EXCEPT ![w] = j], j.row \in Rows, j.pc # "list", j.pc \notin Deleting,
           Unchanged
    PROVE  JobsStep
<1>1. work \in [Workers -> Jobs] /\ \A u \in Workers : JobOK(u)
  BY DEF SyncInv, TypeOK
<1>2. \A u \in Workers : work'[u] = IF u = w THEN j ELSE work[u]
  BY <1>1
<1>3. work' \in [Workers -> Jobs]
  BY <1>1
<1>4. \A u \in Workers : JobOK(u)'
  BY <1>1, <1>2 DEF JobOK, Unchanged
<1>5. \A k \in Kinds : <<"list", k>> \in Workers /\ <<"list", k>> # w
  BY DEF Workers
<1> QED
  BY <1>1, <1>2, <1>3, <1>4, <1>5 DEF JobsStep

\* syncServerById reads one row and starts its synchronization.
LEMMA FetchInv ==
    ASSUME SyncInv, NEW w \in Workers, FetchRow(w)
    PROVE  SyncInv'
<1> USE DEF Unchanged, cluster, budget
<1>1. work[w] \in Jobs /\ JobOK(w) /\ TypeOK
  BY DEF SyncInv, TypeOK
<1>2. JobsStep /\ CycleStays
  <2>1. CASE Finish(w)
    BY <2>1, FinishStep DEF FetchRow
  <2>2. CASE ~Finish(w)
    <3> DEFINE r == work[w].row
               j == Job("readSecret", r, db[r].ver, db[r].key)
    <3>1. r \in Rows /\ w[1] # "list"
      BY <1>1 DEF FetchRow, JobOK
    <3>2. db[r] # Nil /\ work' = [work EXCEPT ![w] = j] /\ UNCHANGED cycle
      BY <2>2 DEF FetchRow
    <3>3. j \in Jobs
      BY <1>1, <3>1, <3>2 DEF Job, Jobs, TypeOK, Calling, Syncing
    <3>4. j.row \in Rows /\ j.pc # "list" /\ j.pc \notin Deleting
      BY <3>1 DEF Job, Deleting
    <3> HIDE DEF j
    <3>5. JobsStep
      BY <3>1, <3>2, <3>3, <3>4, NewJobStep DEF FetchRow
    <3> QED
      BY <1>1, <3>2, <3>5 DEF CycleStays, TypeOK
  <2> QED
    BY <2>1, <2>2
<1> QED
  BY <1>1, <1>2, QuietStep DEF FetchRow, TypeOK

\* A commit: new versions and keys are larger than all that anyone remembers,
\* and a row that existed keeps its key.
LEMMA CommitInv ==
    ASSUME SyncInv, NEW w \in Workers, NEW r \in Rows, w[1] # "list", NEW row, NEW j \in Jobs,
           commits < MaxCommits, commits' = commits + 1,
           db' = [db EXCEPT ![r] = row],
           row \in [ver : Versions, key : Versions] \cup {Nil},
           row # Nil => row.key = (IF db[r] = Nil THEN commits + 1 ELSE db[r].key),
           work' = [work EXCEPT ![w] = j], j.row = r, j.pc # "list",
           j.pc \in Deleting => row = Nil /\ j.ver = commits + 1,
           UNCHANGED <<cr, secrets, cycle, snap, faults, status>>
    PROVE  SyncInv'
<1>1. TypeOK /\ CommitsOK /\ \A u \in Workers : JobOK(u)
  BY DEF SyncInv
<1>2. commits \in Nat /\ commits' \in Versions /\ commits' > commits
  BY <1>1, BoundsAssumption DEF TypeOK, Versions
<1>3. \A u \in Workers : work'[u] = IF u = w THEN j ELSE work[u]
  BY <1>1 DEF TypeOK
<1>4. \A s \in Rows : db'[s] = IF s = r THEN row ELSE db[s]
  BY <1>1 DEF TypeOK
<1>5. TypeOK'
  <2>1. work' \in [Workers -> Jobs]
    BY <1>1 DEF TypeOK
  <2>2. db' \in [Rows -> [ver : Versions, key : Versions] \cup {Nil}]
    BY <1>1 DEF TypeOK
  <2> QED
    BY <1>1, <1>2, <2>1, <2>2 DEF TypeOK
<1>6. \A s \in Rows : db[s] # Nil => db[s].key \in Nat /\ db[s].key <= commits
  BY <1>1, BoundsAssumption DEF CommitsOK, TypeOK, Versions
\* An absence known at commit n stays known: the row is still absent, or is the
\* same, or was created now.
<1>7. ASSUME NEW s \in Rows, NEW n \in Nat, n <= commits, db[s] = Nil \/ n < db[s].key
      PROVE  db'[s] = Nil \/ n < db'[s].key
  BY <1>2, <1>4, <1>6, <1>7
<1>8. CommitsOK'
  <2>1. \A k \in Kinds : snap'[k].asOf <= commits'
    BY <1>1, <1>2 DEF CommitsOK, TypeOK, Versions
  <2>2. ASSUME NEW s \in Rows, db'[s] # Nil PROVE db'[s].key <= commits'
    BY <1>2, <1>4, <1>6, <2>2
  <2> QED
    BY <2>1, <2>2 DEF CommitsOK
<1>9. ASSUME NEW u \in Workers
      PROVE  JobOK(u)'
  <2>1. CASE u = w
    <3>1. work'[u] = j
      BY <1>3, <2>1
    <3>2. j.pc \in Deleting => j.ver <= commits' /\ db'[r] = Nil
      BY <1>2, <1>4
    <3> QED
      BY <2>1, <3>1, <3>2 DEF JobOK
  <2>2. CASE u # w
    <3>1. work'[u] = work[u] /\ JobOK(u) /\ work[u] \in Jobs
      BY <1>1, <1>3, <2>2 DEF TypeOK
    <3>2. ASSUME work[u].pc \in Deleting
          PROVE  /\ work[u].ver <= commits'
                 /\ db'[work[u].row] = Nil \/ work[u].ver < db'[work[u].row].key
      <4>1. work[u].row \in Rows /\ work[u].ver \in Nat /\ work[u].ver <= commits
        BY <3>1, <3>2 DEF JobOK, Jobs, Versions, Deleting
      <4> QED
        BY <1>2, <1>7, <3>1, <3>2, <4>1 DEF JobOK
    <3> QED
      BY <3>1, <3>2 DEF JobOK
  <2> QED
    BY <2>1, <2>2
<1>10. \A k \in Kinds : Covers(k) => Covers(k)'
  <2>1. \A k \in Kinds : snap[k].asOf \in Nat /\ snap[k].asOf <= commits
    BY <1>1 DEF CommitsOK, TypeOK, Versions
  <2> QED
    BY <1>7, <2>1 DEF Covers
<1>11. \A k \in Kinds : work'[<<"list", k>>] = work[<<"list", k>>]
  <2>1. \A k \in Kinds : <<"list", k>> \in Workers /\ <<"list", k>> # w
    BY DEF Workers
  <2> QED
    BY <1>3, <2>1
<1>12. SnapshotOK' /\ SnapshotComplete' /\ CycleOK'
  BY <1>10, <1>11 DEF SyncInv, SnapshotOK, SnapshotComplete, CycleOK
<1> QED
  BY <1>5, <1>8, <1>9, <1>12 DEF SyncInv

\* The requests: creation, the statements of an update, and deletion.
LEMMA RequestInv ==
    ASSUME SyncInv, NEW w \in Workers, w[1] # "list", NEW r \in Rows,
           CreateRow(w, r) \/ CommitUpdate(w, r) \/ DeleteRow(w, r)
    PROVE  SyncInv'
<1> USE DEF cluster, budget
<1>1. /\ TypeOK /\ commits < MaxCommits /\ commits + 1 \in Versions /\ 0 \in Versions
  BY BoundsAssumption
     DEF SyncInv, TypeOK, Versions, CreateRow, CommitUpdate, DeleteRow
<1>2. CASE CreateRow(w, r)
  <2> DEFINE row == [ver |-> commits + 1, key |-> commits + 1]
             j == Job("fetch", r, 0, 0)
  <2>1. row \in [ver : Versions, key : Versions] /\ row.key = commits + 1
    BY <1>1
  <2>2. j \in Jobs /\ j.row = r /\ j.pc # "list" /\ j.pc \notin Deleting
    BY <1>1 DEF Job, Jobs, Calling, Deleting
  <2>3. /\ db[r] = Nil /\ commits' = commits + 1
        /\ db' = [db EXCEPT ![r] = row] /\ work' = [work EXCEPT ![w] = j]
        /\ UNCHANGED <<cr, secrets, cycle, snap, faults, status>>
    BY <1>2 DEF CreateRow
  <2> HIDE DEF row, j
  <2> QED
    BY <1>1, <2>1, <2>2, <2>3, CommitInv
<1>3. CASE CommitUpdate(w, r)
  <2>1. PICK next \in {"update", "fetch"} : work' = [work EXCEPT ![w] = Job(next, r, 0, 0)]
    BY <1>3 DEF CommitUpdate, AfterStatement
  <2> DEFINE row == [db[r] EXCEPT !.ver = commits + 1]
             j == Job(next, r, 0, 0)
  <2>2. /\ db[r] # Nil
        /\ row \in [ver : Versions, key : Versions] /\ row.key = db[r].key
    BY <1>1, <1>3 DEF TypeOK, CommitUpdate
  <2>3. j \in Jobs /\ j.row = r /\ j.pc # "list" /\ j.pc \notin Deleting
    BY <1>1 DEF Job, Jobs, Calling, Deleting
  <2>4. /\ commits' = commits + 1
        /\ db' = [db EXCEPT ![r] = row] /\ work' = [work EXCEPT ![w] = j]
        /\ UNCHANGED <<cr, secrets, cycle, snap, faults, status>>
    BY <1>3, <2>1 DEF CommitUpdate
  <2> HIDE DEF row, j
  <2> QED
    BY <1>1, <2>2, <2>3, <2>4, CommitInv
<1>4. CASE DeleteRow(w, r)
  <2> DEFINE j == Job("deleteResource", r, commits + 1, 0)
  <2>1. j \in Jobs /\ j.row = r /\ j.pc # "list" /\ j.ver = commits + 1
    BY <1>1 DEF Job, Jobs, Calling, Deleting
  <2>2. /\ commits' = commits + 1
        /\ db' = [db EXCEPT ![r] = Nil] /\ work' = [work EXCEPT ![w] = j]
        /\ UNCHANGED <<cr, secrets, cycle, snap, faults, status>>
    BY <1>4 DEF DeleteRow
  <2> HIDE DEF j
  <2> QED
    BY <1>1, <2>1, <2>2, CommitInv
<1> QED
  BY <1>2, <1>3, <1>4

\* deleteStaleResources gives each removal the commit of the snapshot, which
\* covers every row it removes.
LEMMA ListInv ==
    ASSUME SyncInv, NEW w \in Workers, ListStale(w)
    PROVE  SyncInv'
<1> USE DEF cluster, budget
<1> DEFINE k == w[2]
           removals == {"prune"} \X Stale(k)
<1>1. TypeOK /\ CommitsOK /\ JobOK(w) /\ \A u \in Workers : JobOK(u)
  BY DEF SyncInv
<1>2. w[1] = "list" /\ k \in Kinds /\ w = <<"list", k>>
  BY <1>1 DEF ListStale, JobOK, Workers
<1>3. Covers(k) /\ snap[k].asOf \in Versions /\ snap[k].asOf <= commits
  BY <1>1, <1>2 DEF SyncInv, SnapshotComplete, ListStale, TypeOK, CommitsOK
<1>4. removals \subseteq Workers /\ w \notin removals
  BY <1>2 DEF Workers, Stale
<1>5. \A u \in Workers :
         work'[u] = IF u = w THEN Idle
                    ELSE IF u \in removals THEN Job("deleteResource", u[2], snap[k].asOf, 0)
                    ELSE work[u]
  BY DEF ListStale
<1>6. 0 \in Versions /\ Idle \in Jobs /\ Idle.pc = "idle"
  BY BoundsAssumption DEF Idle, Job, Jobs, Versions
<1>7. ASSUME NEW u \in removals
      PROVE  LET j == Job("deleteResource", u[2], snap[k].asOf, 0) IN
             /\ j \in Jobs /\ u[1] # "list" /\ j.pc = "deleteResource"
             /\ j.row = u[2] /\ u[2] \in Rows /\ j.ver = snap[k].asOf
             /\ db[u[2]] = Nil \/ snap[k].asOf < db[u[2]].key
  <2>1. u[1] = "prune" /\ u[2] \in Rows /\ u[2] \in Stale(k)
    BY DEF Stale
  <2> QED
    BY <1>3, <1>6, <2>1 DEF Job, Jobs, Calling, Deleting, Stale, Covers
<1>8. work' \in [Workers -> Jobs]
  <2>1. \A u \in Workers : work'[u] \in Jobs
    BY <1>1, <1>5, <1>6, <1>7 DEF TypeOK
  <2> QED
    BY <2>1 DEF ListStale
<1>9. \A u \in Workers : JobOK(u)'
  BY <1>1, <1>3, <1>5, <1>6, <1>7 DEF JobOK, ListStale, Deleting
<1>10. snap' = [snap EXCEPT ![k] = NoSnapshot]
  BY DEF ListStale
<1>11. /\ cycle' \in [pc : {"idle", "read", "sync", "prune"}, unread : SUBSET Kinds,
                     failed : BOOLEAN, waiting : SUBSET Workers]
       /\ cycle'.pc = cycle.pc /\ cycle'.unread = cycle.unread
  BY <1>1, <1>4 DEF ListStale, TypeOK
<1>12. TypeOK'
  <2>1. snap' \in [Kinds -> [rows : SUBSET Rows, asOf : Versions]]
    BY <1>1, <1>6, <1>10 DEF TypeOK, NoSnapshot
  <2> QED
    BY <1>1, <1>8, <1>11, <2>1 DEF TypeOK, ListStale
<1>13. CommitsOK' /\ CycleOK'
  BY <1>1, <1>2, <1>10, <1>11 DEF SyncInv, CommitsOK, CycleOK, ListStale, TypeOK, NoSnapshot, Versions
<1>14. \A i \in Kinds : /\ i # k => (Covers(i)' <=> Covers(i))
                        /\ <<"list", i>> \in Workers /\ <<"list", i>> \notin removals
                        /\ <<"list", i>> = w <=> i = k
  BY <1>1, <1>2, <1>10 DEF Covers, ListStale, TypeOK, Workers
<1>15. SnapshotComplete' /\ SnapshotOK'
  <2>1. work[<<"list", k>>].pc = "list"
    BY <1>2 DEF ListStale
  <2>2. \A i \in Kinds : work'[<<"list", i>>] = IF i = k THEN Idle ELSE work[<<"list", i>>]
    BY <1>5, <1>14
  <2> QED
    BY <1>6, <1>11, <1>14, <2>1, <2>2 DEF SyncInv, SnapshotComplete, SnapshotOK
<1> QED
  BY <1>9, <1>12, <1>13, <1>15 DEF SyncInv

\* The steps of syncAll that start calls.
LEMMA CycleInv ==
    ASSUME SyncInv, CycleStep
    PROVE  SyncInv'
<1> USE DEF cluster, budget
<1>1. TypeOK /\ CommitsOK /\ CycleOK /\ \A u \in Workers : JobOK(u)
  BY DEF SyncInv
<1>2. CASE StartCycle
  <2>1. TypeOK' /\ CommitsOK' /\ CycleOK'
    BY <1>1, <1>2 DEF StartCycle, NoCycle, TypeOK, CommitsOK, CycleOK
  <2>2. \A u \in Workers : JobOK(u)'
    BY <1>1, <1>2 DEF StartCycle, JobOK
  <2>3. SnapshotOK' /\ SnapshotComplete'
    BY <1>2 DEF StartCycle, NoCycle, SyncInv, SnapshotOK, SnapshotComplete, Covers
  <2> QED
    BY <2>1, <2>2, <2>3 DEF SyncInv
<1>3. ASSUME NEW k \in Kinds, LoadTable(k)
      PROVE  SyncInv'
  <2> DEFINE taken == {w \in Workers : w[1] = "cycle" /\ w[2] \in PresentRows(k)}
  <2>1. \A u \in Workers :
           work'[u] = IF u \in taken THEN Job("loaded", u[2], db[u[2]].ver, db[u[2]].key)
                      ELSE work[u]
    BY <1>3 DEF LoadTable
  <2>2. ASSUME NEW u \in taken
        PROVE  /\ work'[u] \in Jobs /\ work'[u].pc = "loaded" /\ work'[u].row \in Rows
    <3>1. u \in Workers /\ u[2] \in Rows /\ db[u[2]] # Nil
      BY DEF PresentRows
    <3>2. db[u[2]].ver \in Versions /\ db[u[2]].key \in Versions
      BY <1>1, <3>1 DEF TypeOK
    <3>3. work'[u] = Job("loaded", u[2], db[u[2]].ver, db[u[2]].key)
      BY <2>1, <3>1
    <3> QED
      BY <3>1, <3>2, <3>3 DEF Job, Jobs
  <2>3. \A u \in taken : JobOK(u)'
    BY <2>2 DEF JobOK, Deleting
  <2>4. \A u \in Workers : JobOK(u)'
    BY <1>1, <1>3, <2>1, <2>3 DEF JobOK, LoadTable
  <2>5. work' \in [Workers -> Jobs]
    <3>1. \A u \in Workers : work'[u] \in Jobs
      BY <1>1, <2>1, <2>2 DEF TypeOK
    <3> QED
      BY <1>3, <3>1 DEF LoadTable
  <2>6. /\ snap' = [snap EXCEPT ![k] = [rows |-> PresentRows(k), asOf |-> commits]]
        /\ PresentRows(k) \in SUBSET Rows /\ commits \in Versions
    BY <1>1, <1>3 DEF LoadTable, TypeOK, PresentRows
  <2>7. TypeOK'
    <3>1. snap' \in [Kinds -> [rows : SUBSET Rows, asOf : Versions]]
      BY <1>1, <2>6 DEF TypeOK
    <3> QED
      BY <1>1, <1>3, <2>5, <3>1 DEF TypeOK, LoadTable
  <2>8. CommitsOK' /\ CycleOK'
    <3>1. \A i \in Kinds : snap'[i].asOf <= commits
      BY <1>1, <1>3, <2>6, BoundsAssumption DEF CommitsOK, TypeOK, Versions
    <3> QED
      BY <1>1, <1>3, <3>1 DEF CommitsOK, CycleOK, LoadTable
  <2>9. /\ Covers(k)'
        /\ \A i \in Kinds : i # k => (Covers(i)' <=> Covers(i))
    BY <1>1, <1>3, <2>6 DEF Covers, PresentRows, LoadTable, TypeOK
  <2>10. \A i \in Kinds : work'[<<"list", i>>] = work[<<"list", i>>]
    BY <2>1 DEF Workers
  <2>11. SnapshotOK' /\ SnapshotComplete'
    BY <1>1, <1>3, <2>9, <2>10 DEF SyncInv, SnapshotOK, SnapshotComplete, LoadTable, TypeOK
  <2> QED
    BY <2>4, <2>7, <2>8, <2>11 DEF SyncInv
<1>4. CASE StartSyncs
  <2>1. \A u \in Workers :
           work'[u] = IF u \in Loaded THEN [work[u] EXCEPT !.pc = "readSecret"] ELSE work[u]
    BY <1>4 DEF StartSyncs
  <2>2. ASSUME NEW u \in Loaded
        PROVE  /\ work'[u] \in Jobs /\ work'[u].pc = "readSecret" /\ work'[u].row \in Rows
               /\ u[1] # "list"
    <3>1. u \in Workers /\ work[u] \in Jobs /\ work[u].pc = "loaded" /\ JobOK(u)
      BY <1>1 DEF Loaded, TypeOK
    <3>2. work'[u] = [work[u] EXCEPT !.pc = "readSecret"]
      BY <2>1, <3>1
    <3>3. work[u].row \in Rows /\ u[1] # "list"
      BY <3>1 DEF JobOK
    <3> QED
      BY <3>1, <3>2, <3>3 DEF Jobs, Calling, Syncing
  <2>3. \A u \in Loaded : JobOK(u)'
    BY <2>2 DEF JobOK, Deleting
  <2>4. \A u \in Workers : JobOK(u)'
    BY <1>1, <1>4, <2>1, <2>3 DEF JobOK, StartSyncs
  <2>5. work' \in [Workers -> Jobs]
    <3>1. \A u \in Workers : work'[u] \in Jobs
      BY <1>1, <2>1, <2>2 DEF TypeOK
    <3> QED
      BY <1>4, <3>1 DEF StartSyncs
  <2>6. TypeOK' /\ CommitsOK' /\ CycleOK'
    BY <1>1, <1>4, <2>5 DEF TypeOK, CommitsOK, CycleOK, StartSyncs, Loaded
  <2>7. \A i \in Kinds : work'[<<"list", i>>] = work[<<"list", i>>]
    BY <2>1, <2>2 DEF Workers
  <2>8. SnapshotOK' /\ SnapshotComplete'
    BY <1>1, <1>4, <2>7 DEF SyncInv, SnapshotOK, SnapshotComplete, Covers, StartSyncs, TypeOK
  <2> QED
    BY <2>4, <2>6, <2>8 DEF SyncInv
<1>5. CASE SkipPrune \/ EndCycle
  <2>1. TypeOK' /\ CommitsOK' /\ CycleOK'
    <3>1. cycle' = NoCycle /\ UNCHANGED <<db, commits, cr, secrets, work, snap, faults, status>>
      BY <1>5 DEF SkipPrune, EndCycle
    <3> QED
      BY <1>1, <3>1 DEF NoCycle, TypeOK, CommitsOK, CycleOK
  <2>2. \A u \in Workers : JobOK(u)'
    BY <1>1, <1>5 DEF SkipPrune, EndCycle, JobOK
  <2>3. SnapshotOK' /\ SnapshotComplete'
    BY <1>5 DEF SkipPrune, EndCycle, NoCycle, SyncInv, SnapshotOK, SnapshotComplete, Covers
  <2> QED
    BY <2>1, <2>2, <2>3 DEF SyncInv
<1>6. CASE StartPrune
  <2> DEFINE j == Job("list", Nil, 0, 0)
  <2>1. \A u \in Workers : work'[u] = IF u[1] = "list" THEN j ELSE work[u]
    BY <1>6 DEF StartPrune
  <2>2. j \in Jobs /\ j.pc = "list"
    BY BoundsAssumption DEF Job, Jobs, Calling, Versions
  <2>3. \A u \in Workers : JobOK(u)'
    BY <1>1, <1>6, <2>1, <2>2 DEF JobOK, StartPrune, Deleting
  <2>4. work' \in [Workers -> Jobs]
    BY <1>1, <1>6, <2>1, <2>2 DEF TypeOK, StartPrune
  <2>5. {"list"} \X Kinds \subseteq Workers
    BY DEF Workers
  <2>6. TypeOK' /\ CommitsOK' /\ CycleOK'
    BY <1>1, <1>6, <2>4, <2>5 DEF TypeOK, CommitsOK, CycleOK, StartPrune
  <2>7. \A i \in Kinds : Covers(i)'
    BY <1>1, <1>6 DEF SyncInv, SnapshotOK, CycleOK, Covers, StartPrune
  <2>8. SnapshotOK' /\ SnapshotComplete'
    BY <1>1, <1>6, <2>7 DEF SnapshotOK, SnapshotComplete, StartPrune, TypeOK
  <2> QED
    BY <2>3, <2>6, <2>8 DEF SyncInv
<1> QED
  BY <1>2, <1>3, <1>4, <1>5, <1>6 DEF CycleStep

\* Failures, a crash, the operator and the garbage collector.
LEMMA EnvironmentInv ==
    ASSUME SyncInv, Environment
    PROVE  SyncInv'
<1> USE DEF Unchanged, cluster, budget
<1>1. TypeOK /\ CommitsOK /\ \A u \in Workers : JobOK(u)
  BY DEF SyncInv
<1>2. Idle \in Jobs /\ Idle.pc = "idle" /\ 0 \in Versions
  BY BoundsAssumption DEF Idle, Job, Jobs, Versions
<1>3. \A k \in Kinds : <<"list", k>> \in Workers
  BY DEF Workers
<1>4. ASSUME NEW w \in Workers, FailCall(w)
      PROVE  SyncInv'
  <2>1. faults' \in 0..MaxFaults
    BY <1>1, <1>4, BoundsAssumption DEF FailCall, TypeOK
  <2> QED
    BY <1>1, <1>4, <2>1, RejectStep, QuietStep DEF FailCall, TypeOK
<1>5. CASE FailRead
  <2>1. faults' \in 0..MaxFaults
    BY <1>1, <1>5, BoundsAssumption DEF FailRead, TypeOK
  <2>2. \A u \in Workers : work'[u] = IF u \in Loaded THEN Idle ELSE work[u]
    BY <1>5 DEF FailRead
  <2>3. work' \in [Workers -> Jobs]
    BY <1>1, <1>2, <1>5 DEF FailRead, TypeOK
  <2>4. \A u \in Workers : JobOK(u)'
    BY <1>1, <1>2, <1>5, <2>2 DEF JobOK, Deleting, FailRead
  <2>5. JobsStep
    BY <1>1, <1>2, <1>3, <2>2, <2>3, <2>4 DEF JobsStep
  <2>6. CycleStays
    BY <1>5 DEF FailRead, NoCycle, CycleStays
  <2> QED
    BY <1>1, <1>5, <2>1, <2>5, <2>6, QuietStep DEF FailRead, TypeOK
<1>6. CASE Crash
  <2>1. faults' \in 0..MaxFaults
    BY <1>1, <1>6, BoundsAssumption DEF Crash, TypeOK
  <2>2. work' \in [Workers -> Jobs] /\ \A u \in Workers : work'[u].pc = "idle"
    BY <1>2, <1>6 DEF Crash
  <2>3. \A u \in Workers : JobOK(u)'
    BY <2>2 DEF JobOK, Deleting
  <2>4. TypeOK'
    BY <1>1, <1>2, <1>6, <2>1, <2>2 DEF TypeOK, Crash, NoSnapshot, NoCycle
  <2>5. CommitsOK' /\ CycleOK'
    BY <1>1, <1>6, BoundsAssumption DEF CommitsOK, CycleOK, Crash, NoSnapshot, NoCycle, TypeOK, Versions
  <2>6. SnapshotOK' /\ SnapshotComplete'
    BY <1>3, <1>6, <2>2 DEF SnapshotOK, SnapshotComplete, Crash, NoCycle
  <2> QED
    BY <2>3, <2>4, <2>5, <2>6 DEF SyncInv
<1>7. ASSUME NEW r \in Rows, OperatorWritesStatus(r)
      PROVE  SyncInv'
  <2>1. status' \in 0..MaxStatus
    BY <1>1, <1>7, BoundsAssumption DEF OperatorWritesStatus, TypeOK
  <2>2. ASSUME NEW u \in Workers
        PROVE  /\ work'[u] \in Jobs
               /\ work'[u].row = work[u].row /\ work'[u].ver = work[u].ver
               /\ work'[u].pc = work[u].pc
    BY <1>1, <1>7 DEF OperatorWritesStatus, TypeOK, Jobs
  <2>3. work' \in [Workers -> Jobs]
    BY <1>7, <2>2 DEF OperatorWritesStatus
  <2>4. \A u \in Workers : JobOK(u)'
    BY <1>1, <1>7, <2>2 DEF JobOK, OperatorWritesStatus
  <2>5. JobsStep
    BY <1>3, <2>2, <2>3, <2>4 DEF JobsStep
  <2>6. CycleStays
    BY <1>1, <1>7 DEF OperatorWritesStatus, CycleStays, TypeOK
  <2> QED
    BY <1>1, <1>7, <2>1, <2>5, <2>6, QuietStep DEF OperatorWritesStatus, TypeOK
<1>8. ASSUME NEW r \in Rows, CollectGarbage(r)
      PROVE  SyncInv'
  <2>1. JobsStep
    <3>1. \A u \in Workers : JobOK(u)'
      BY <1>1, <1>8 DEF JobOK, CollectGarbage
    <3> QED
      BY <1>1, <1>8, <3>1 DEF JobsStep, CollectGarbage, TypeOK
  <2>2. CycleStays
    BY <1>1, <1>8 DEF CollectGarbage, CycleStays, TypeOK
  <2> QED
    BY <1>1, <1>8, <2>1, <2>2, QuietStep DEF CollectGarbage, TypeOK
<1> QED
  BY <1>4, <1>5, <1>6, <1>7, <1>8 DEF Environment

\* Every step of the specification preserves the invariant.
LEMMA NextInv == SyncInv /\ [Next]_vars => SyncInv'
<1> SUFFICES ASSUME SyncInv, [Next]_vars PROVE SyncInv'
  OBVIOUS
<1>1. ASSUME NEW w \in {"request"} \X Requests, RequestStarts(w)
      PROVE  SyncInv'
  <2>1. w \in Workers /\ w[1] # "list"
    BY DEF Workers
  <2>2. PICK r \in Rows : CreateRow(w, r) \/ UpdateRow(w, r) \/ DeleteRow(w, r)
    BY <1>1 DEF RequestStarts
  <2> QED
    BY <2>1, <2>2, RequestInv DEF UpdateRow
<1>2. ASSUME NEW w \in Workers, Step(w)
      PROVE  SyncInv'
  <2>1. CASE ContinueUpdate(w)
    <3>1. JobOK(w)
      BY DEF SyncInv
    <3>2. work[w].row \in Rows /\ w[1] # "list" /\ CommitUpdate(w, work[w].row)
      BY <2>1, <3>1 DEF ContinueUpdate, JobOK
    <3> QED
      BY <3>2, RequestInv
  <2>2. CASE FetchRow(w) \/ ListStale(w)
    BY <2>2, FetchInv, ListInv
  <2> QED
    BY <1>2, <2>1, <2>2, StepInv
<1>3. CASE UNCHANGED vars
  BY <1>3 DEF vars, SyncInv, TypeOK, CommitsOK, CycleOK, JobOK, SnapshotOK,
              SnapshotComplete, Covers
<1> QED
  BY <1>1, <1>2, <1>3, CycleInv, EnvironmentInv DEF Next

\* The inductive invariant holds in every reachable state.
THEOREM SyncInvariant == Spec => []SyncInv
<1> QED
  BY SyncInit, NextInv, PTL DEF Spec

\* The state is well typed.
THEOREM TypeCorrect == Spec => []TypeOK
<1>1. SyncInv => TypeOK
  BY DEF SyncInv
<1> QED
  BY <1>1, SyncInvariant, PTL

\* Every removal in progress is older than the row it is about, if that row is in
\* the database at all: deleteStaleResources and the delete handlers choose no
\* row that the cycle, or the deletion, could have read.
THEOREM RemovalsAreOlder == Spec => []RemovalOlderThanRow
<1>1. SyncInv => RemovalOlderThanRow
  BY DEF SyncInv, JobOK, RemovalOlderThanRow
<1> QED
  BY <1>1, SyncInvariant, PTL

\* The list of expected names is complete when the prune step uses it.
THEOREM SnapshotsAreComplete == Spec => []SnapshotComplete
<1>1. SyncInv => SnapshotComplete
  BY DEF SyncInv
<1> QED
  BY <1>1, SyncInvariant, PTL

-----------------------------------------------------------------------------
(* What a step does to the call chains.                                    *)

\* The steps of a synchronization.
Writing == Syncing \cup {"loaded"}

\* Worker u goes on with what it did, and is past the Secret only if it was, or
\* has just written it.
GoesOn(u) ==
    /\ work'[u].row = work[u].row /\ work'[u].ver = work[u].ver /\ work'[u].key = work[u].key
    /\ work'[u].pc \in Deleting => work[u].pc \in Deleting
    /\ work'[u].pc \in Writing => work[u].pc \in Writing
    /\ work'[u].pc \in PastSecret =>
           work[u].pc \in PastSecret \/ secrets'[SecretName(work[u].row)] = work[u].key

\* Worker u has read a row that is in the database.
ReadsRow(u) ==
    LET r == work'[u].row IN
    /\ work'[u].pc \in {"loaded", "readSecret"} /\ r \in Rows /\ db[r] # Nil
    /\ work'[u].ver = db[r].ver /\ work'[u].key = db[r].key

\* Worker u begins to remove a row that was deleted now, or one that the snapshot
\* which is being compared with the cluster lacks.
BeginsRemoval(u) ==
    LET r == work'[u].row IN
    /\ work'[u].pc = "deleteResource"
    /\ \/ db'[r] = Nil
       \/ r \in Rows /\ WillUse(Kind(r)) /\ r \notin snap[Kind(r)].rows

Follows(u) == \/ work'[u].pc \notin Deleting \cup Writing
              \/ GoesOn(u) \/ ReadsRow(u) \/ BeginsRemoval(u)

\* A worker that a step leaves alone goes on.
LEMMA SameFollows ==
    ASSUME NEW u \in Workers, work'[u] = work[u]
    PROVE  GoesOn(u)
  BY DEF GoesOn

\* A worker that ends neither writes nor removes.
LEMMA IdleFollows ==
    ASSUME NEW u \in Workers, work'[u] = Idle
    PROVE  Follows(u)
  BY DEF Follows, Idle, Job, Deleting, Writing, Syncing

\* When one worker moves within its chain, every worker goes on.
LEMMA AdvanceFollows ==
    ASSUME TypeOK, NEW w \in Workers, NEW pc, NEW S, Advance(w, pc, S),
           pc \in Deleting => work[w].pc \in Deleting,
           pc \in Writing => work[w].pc \in Writing,
           pc \in PastSecret =>
               work[w].pc \in PastSecret \/ secrets'[SecretName(work[w].row)] = work[w].key
    PROVE  \A u \in Workers : GoesOn(u)
<1>1. ASSUME NEW u \in Workers
      PROVE  /\ work'[u].row = work[u].row /\ work'[u].ver = work[u].ver
             /\ work'[u].key = work[u].key
             /\ work'[u].pc = IF u = w THEN pc ELSE work[u].pc
  BY DEF Advance, Jobs, TypeOK
<1> QED
  BY <1>1 DEF GoesOn

\* A request's commit starts a fetch, or a removal of the row just deleted.
LEMMA RequestFollows ==
    ASSUME TypeOK, NEW w \in Workers, NEW r \in Rows,
           CreateRow(w, r) \/ CommitUpdate(w, r) \/ DeleteRow(w, r)
    PROVE  \A u \in Workers : Follows(u)
<1> SUFFICES ASSUME NEW u \in Workers PROVE Follows(u)
  OBVIOUS
<1>1. PICK pc \in {"update", "fetch", "deleteResource"} :
        \E v : work' = [work EXCEPT ![w] = Job(pc, r, v, 0)]
  BY DEF CreateRow, CommitUpdate, DeleteRow, AfterStatement
<1>2. PICK v : work' = [work EXCEPT ![w] = Job(pc, r, v, 0)]
  BY <1>1
<1>3. CASE u # w
  BY <1>2, <1>3, SameFollows DEF TypeOK, Follows
<1>4. CASE u = w
  <2>1. work'[u].pc = pc /\ work'[u].row = r
    BY <1>2, <1>4 DEF TypeOK, Job
  <2>2. CASE DeleteRow(w, r)
    <3>1. db'[r] = Nil /\ work'[u].pc = "deleteResource"
      BY <2>2, <1>4 DEF DeleteRow, TypeOK, Job
    <3> QED
      BY <2>1, <3>1 DEF Follows, BeginsRemoval
  <2>3. CASE CreateRow(w, r) \/ CommitUpdate(w, r)
    <3>1. work'[u].pc \in {"update", "fetch"}
      BY <2>3, <1>4 DEF CreateRow, CommitUpdate, AfterStatement, TypeOK, Job
    <3> QED
      BY <3>1 DEF Follows, Deleting, Writing, Syncing
  <2> QED
    BY <2>2, <2>3
<1> QED
  BY <1>3, <1>4

\* The steps of the chains: every worker goes on, begins with a row or ends.
LEMMA StepFollows ==
    ASSUME SyncInv, NEW w \in Workers, Step(w)
    PROVE  \A u \in Workers : Follows(u)
<1> USE DEF cluster, budget
<1> DEFINE r == work[w].row
<1>1. TypeOK /\ JobOK(w) /\ work[w] \in Jobs
  BY DEF SyncInv, TypeOK
<1>2. ASSUME work' = [work EXCEPT ![w] = Idle] PROVE \A u \in Workers : Follows(u)
  <2>1. \A u \in Workers : work'[u] = IF u = w THEN Idle ELSE work[u]
    BY <1>1, <1>2 DEF TypeOK
  <2> QED
    BY <2>1, IdleFollows, SameFollows DEF Follows
<1>3. CASE Reject(w) \/ Finish(w)
  BY <1>2, <1>3 DEF Reject, Finish
<1>4. CASE ReadSecret(w)
  <2>1. PICK pc \in {"createSecret", "replaceSecret"} : Advance(w, pc, {})
    BY <1>4 DEF ReadSecret
  <2>2. work[w].pc \in Writing
    BY <1>4 DEF ReadSecret, Writing, Syncing
  <2> QED
    BY <1>1, <2>1, <2>2, AdvanceFollows DEF PastSecret, Deleting, Follows
<1>5. CASE (ReplaceSecret(w) \/ CreateSecret(w)) /\ ~Reject(w)
  <2>1. PICK S : Advance(w, "readResource", S)
    BY <1>5 DEF ReplaceSecret, CreateSecret
  <2>2. work[w].pc \in Writing
    BY <1>5 DEF ReplaceSecret, CreateSecret, Writing, Syncing
  <2>3. secrets'[SecretName(r)] = work[w].key
    <3>1. r \in Rows
      BY <1>1, <1>5 DEF ReplaceSecret, CreateSecret, JobOK
    <3> QED
      BY <1>1, <1>5, <3>1 DEF ReplaceSecret, CreateSecret, TypeOK, SecretNames
  <2> QED
    BY <1>1, <2>1, <2>2, <2>3, AdvanceFollows DEF Deleting, Follows
<1>6. CASE ReadResource(w)
  <2>1. PICK pc \in {"createResource", "replaceResource"} : Advance(w, pc, {})
    BY <1>6 DEF ReadResource
  <2>2. work[w].pc \in Writing /\ work[w].pc \in PastSecret
    BY <1>6 DEF ReadResource, Writing, Syncing, PastSecret
  <2> QED
    BY <1>1, <2>1, <2>2, AdvanceFollows DEF Deleting, Follows
<1>7. CASE (ReplaceResource(w) \/ CreateResource(w)) /\ ~Reject(w)
  <2>1. PICK S : Advance(w, "deleteLegacy", S)
    BY <1>7 DEF ReplaceResource, CreateResource, WriteResource
  <2>2. work[w].pc \in Writing /\ work[w].pc \in PastSecret
    BY <1>7 DEF ReplaceResource, CreateResource, Writing, Syncing, PastSecret
  <2> QED
    BY <1>1, <2>1, <2>2, AdvanceFollows DEF Deleting, Follows
<1>8. CASE DeleteResource(w)
  <2>1. PICK S : Advance(w, "deleteSecret", S)
    BY <1>8 DEF DeleteResource, WriteResource
  <2>2. work[w].pc \in Deleting
    BY <1>8 DEF DeleteResource, Deleting
  <2> QED
    BY <1>1, <2>1, <2>2, AdvanceFollows DEF Writing, Syncing, PastSecret, Follows
<1>9. CASE ContinueUpdate(w)
  <2>1. CommitUpdate(w, r) /\ r \in Rows
    BY <1>1, <1>9 DEF ContinueUpdate, JobOK
  <2> QED
    BY <1>1, <2>1, RequestFollows
<1>10. CASE FetchRow(w) /\ ~Finish(w)
  <2>1. /\ r \in Rows /\ db[r] # Nil
        /\ work' = [work EXCEPT ![w] = Job("readSecret", r, db[r].ver, db[r].key)]
    BY <1>1, <1>10 DEF FetchRow, JobOK
  <2>2. ReadsRow(w)
    BY <1>1, <2>1 DEF ReadsRow, TypeOK, Job
  <2>3. \A u \in Workers : u # w => work'[u] = work[u]
    BY <1>1, <2>1 DEF TypeOK
  <2> QED
    BY <2>2, <2>3, SameFollows DEF Follows
<1>11. CASE ListStale(w)
  <2> DEFINE k == w[2]
             removals == {"prune"} \X Stale(k)
  <2>1. \A u \in Workers :
           work'[u] = IF u = w THEN Idle
                      ELSE IF u \in removals THEN Job("deleteResource", u[2], snap[k].asOf, 0)
                      ELSE work[u]
    BY <1>11 DEF ListStale
  <2>2. w = <<"list", k>> /\ work[w].pc = "list"
    BY <1>1, <1>11 DEF ListStale, JobOK, Workers
  <2>3. ASSUME NEW u \in Workers, u \in removals, u # w PROVE BeginsRemoval(u)
    <3>1. u[2] \in Rows /\ Kind(u[2]) = k /\ u[2] \notin snap[k].rows
      BY <2>3 DEF Stale
    <3>2. work'[u].pc = "deleteResource" /\ work'[u].row = u[2]
      <4>1. work'[u] = Job("deleteResource", u[2], snap[k].asOf, 0)
        BY <2>1, <2>3, Zenon
      <4> QED
        BY <4>1 DEF Job
    <3>3. WillUse(k)
      BY <2>2 DEF WillUse
    <3> QED
      BY <3>1, <3>2, <3>3 DEF BeginsRemoval
  <2> QED
    BY <2>1, <2>3, IdleFollows, SameFollows DEF Follows
<1> QED
  BY <1>3, <1>4, <1>5, <1>6, <1>7, <1>8, <1>9, <1>10, <1>11
     DEF Step, AbandonUpdate, ReplaceSecret, CreateSecret, ReplaceResource, CreateResource,
         DeleteLegacy, DeleteSecret, FetchRow

\* Every step of the system.
LEMMA JobsFollow ==
    ASSUME SyncInv, Next
    PROVE  \A u \in Workers : Follows(u)
<1> SUFFICES ASSUME NEW u \in Workers PROVE Follows(u)
  OBVIOUS
<1> USE DEF cluster, budget
<1>1. TypeOK /\ work \in [Workers -> Jobs] /\ work[u] \in Jobs
  BY DEF SyncInv, TypeOK
<1>2. ASSUME NEW w \in {"request"} \X Requests, RequestStarts(w) PROVE Follows(u)
  <2>1. w \in Workers
    BY DEF Workers
  <2> QED
    BY <1>1, <1>2, <2>1, RequestFollows DEF RequestStarts, UpdateRow
<1>3. CASE CycleStep
  <2>1. CASE StartCycle \/ SkipPrune \/ EndCycle
    BY <2>1, SameFollows DEF StartCycle, SkipPrune, EndCycle, Follows
  <2>2. ASSUME NEW k \in Kinds, LoadTable(k) PROVE Follows(u)
    <3>1. CASE u[1] = "cycle" /\ u[2] \in PresentRows(k)
      <4>1. /\ work'[u] = Job("loaded", u[2], db[u[2]].ver, db[u[2]].key)
            /\ u[2] \in Rows /\ db[u[2]] # Nil
        BY <2>2, <3>1 DEF LoadTable, PresentRows
      <4> QED
        BY <4>1 DEF Follows, ReadsRow, Job
    <3>2. CASE ~(u[1] = "cycle" /\ u[2] \in PresentRows(k))
      BY <2>2, <3>2, SameFollows DEF LoadTable, Follows
    <3> QED
      BY <3>1, <3>2
  <2>3. CASE StartSyncs
    <3>1. CASE u \in Loaded
      <4>1. work'[u] = [work[u] EXCEPT !.pc = "readSecret"] /\ work[u].pc = "loaded"
        BY <2>3, <3>1 DEF StartSyncs, Loaded
      <4>2. GoesOn(u)
        BY <1>1, <4>1 DEF GoesOn, Jobs, Deleting, Writing, PastSecret
      <4> QED
        BY <4>2 DEF Follows
    <3>2. CASE u \notin Loaded
      BY <2>3, <3>2, SameFollows DEF StartSyncs, Follows
    <3> QED
      BY <3>1, <3>2
  <2>4. CASE StartPrune
    <3>1. work'[u] = work[u] \/ work'[u] = Job("list", Nil, 0, 0)
      BY <2>4 DEF StartPrune
    <3> QED
      BY <3>1, SameFollows DEF Follows, Job, Deleting, Writing, Syncing
  <2> QED
    BY <1>3, <2>1, <2>2, <2>3, <2>4 DEF CycleStep
<1>4. CASE Environment
  <2>1. CASE \/ \E w \in Workers : FailCall(w)
             \/ FailRead \/ Crash
             \/ \E r \in Rows : CollectGarbage(r)
    <3>1. work'[u] = work[u] \/ work'[u] = Idle
      BY <1>1, <2>1 DEF FailCall, Reject, FailRead, Crash, CollectGarbage
    <3> QED
      BY <3>1, SameFollows, IdleFollows DEF Follows
  <2>2. ASSUME NEW r \in Rows, OperatorWritesStatus(r) PROVE Follows(u)
    <3>1. work'[u] = work[u] \/ work'[u] = [work[u] EXCEPT !.fresh = FALSE]
      BY <2>2 DEF OperatorWritesStatus
    <3>2. GoesOn(u)
      BY <1>1, <3>1 DEF GoesOn, Jobs
    <3> QED
      BY <3>2 DEF Follows
  <2> QED
    BY <1>4, <2>1, <2>2 DEF Environment
<1> QED
  BY <1>2, <1>3, <1>4, StepFollows DEF Next

-----------------------------------------------------------------------------
(* The action property LiveRowKept.                                        *)

\* A live resource that is written by a synchronization stays live.
LEMMA WriteKeepsLive ==
    ASSUME TypeOK, NEW r \in Rows, NEW s \in Rows, NEW object \in [ver : Versions, deleting : BOOLEAN],
           ~object.deleting \/ cr[s].deleting, cr' = [cr EXCEPT ![s] = object], Live(r)
    PROVE  Live(r)' \/ (r = s /\ cr[s].deleting)
<1>1. object # Nil
  <2>1. object \in [ver : Nat, deleting : BOOLEAN]
    BY BoundsAssumption DEF Versions
  <2> QED
    BY <2>1, NilAssumption
<1> QED
  BY <1>1 DEF TypeOK, Live

\* What a step of the backend takes from a row in the database, it takes on
\* behalf of a removal of that row that is older than the row.
LEMMA StepKeepsRows ==
    ASSUME SyncInv, Next, NoNameCollision, NEW r \in Rows, db[r] # Nil, Loses(r)
    PROVE  \E w \in Workers : /\ work[w].pc \in Deleting /\ work[w].row = r
                             /\ work[w].ver < db[r].key /\ work'[w] # work[w]
<1> USE DEF cluster, budget
<1>1. TypeOK /\ \A u \in Workers : JobOK(u) /\ work[u] \in Jobs
  BY DEF SyncInv, TypeOK
\* Only the five steps below change the cluster.
<1>2. ASSUME UNCHANGED <<cr, secrets>>
      PROVE  FALSE
  BY <1>2 DEF Loses, Live
<1>3. ASSUME NEW w \in Workers, Step(w)
      PROVE  /\ work[w].pc \in Deleting /\ work[w].row = r /\ work'[w] # work[w]
  <2>1. CASE ReplaceSecret(w) \/ CreateSecret(w)
    <3>1. work[w].key # Nil
      BY <1>1, BoundsAssumption, NilAssumption DEF Jobs, Versions
    <3>2. \/ secrets' = secrets
          \/ secrets' = [secrets EXCEPT ![SecretName(work[w].row)] = work[w].key]
      BY <2>1 DEF ReplaceSecret, CreateSecret
    <3>3. SecretName(r) \in SecretNames
      BY DEF SecretNames
    <3>4. secrets[SecretName(r)] # Nil /\ secrets'[SecretName(r)] = Nil
      <4>1. cr' = cr
        BY <2>1 DEF ReplaceSecret, CreateSecret
      <4> QED
        BY <4>1 DEF Loses, Live
    <3>5. CASE SecretName(work[w].row) = SecretName(r)
      BY <1>1, <3>1, <3>2, <3>3, <3>4, <3>5 DEF TypeOK
    <3>6. CASE SecretName(work[w].row) # SecretName(r)
      BY <1>1, <3>2, <3>3, <3>4, <3>6 DEF TypeOK
    <3> QED
      BY <3>5, <3>6
  <2>2. CASE ReplaceResource(w) \/ CreateResource(w)
    <3> DEFINE s == work[w].row
    <3>1. s \in Rows /\ work[w].ver \in Versions
      BY <1>1, <2>2 DEF ReplaceResource, CreateResource, JobOK, Jobs
    <3>2. UNCHANGED secrets
      BY <2>2 DEF ReplaceResource, CreateResource
    <3>3. ~UNCHANGED cr /\ Live(r) /\ ~Live(r)'
      BY <1>2, <3>2 DEF Loses, Live
    <3>4. CASE ReplaceResource(w)
      <4> DEFINE object == [cr[s] EXCEPT !.ver = work[w].ver]
      <4>1. cr[s] # Nil /\ cr' = [cr EXCEPT ![s] = object]
        BY <3>3, <3>4 DEF ReplaceResource, WriteResource
      <4>2. object \in [ver : Versions, deleting : BOOLEAN] /\ object.deleting = cr[s].deleting
        BY <1>1, <3>1, <4>1 DEF TypeOK
      <4> HIDE DEF object
      <4>3. ~object.deleting \/ cr[s].deleting
        BY <4>2
      <4>4. r = s /\ cr[s].deleting
        BY <1>1, <3>1, <3>3, <4>1, <4>2, <4>3, WriteKeepsLive
      <4> QED
        BY <3>3, <4>4 DEF Live
    <3>5. CASE CreateResource(w)
      <4> DEFINE object == [ver |-> work[w].ver, deleting |-> FALSE]
      <4>1. cr[s] = Nil /\ cr' = [cr EXCEPT ![s] = object]
        BY <3>3, <3>5 DEF CreateResource, WriteResource
      <4>2. object \in [ver : Versions, deleting : BOOLEAN] /\ ~object.deleting
        BY <3>1
      <4> HIDE DEF object
      <4>3. r = s /\ cr[s].deleting
        BY <1>1, <3>1, <3>3, <4>1, <4>2, WriteKeepsLive
      <4> QED
        BY <3>3, <4>1, <4>3 DEF Live
    <3> QED
      BY <2>2, <3>4, <3>5
  <2>3. CASE DeleteLegacy(w)
    <3>1. work[w].row \in Rows
      BY <1>1, <2>3 DEF DeleteLegacy, JobOK
    <3>2. SecretName(r) # LegacyName(work[w].row)
      BY <3>1 DEF NoNameCollision
    <3> QED
      BY <1>1, <2>3, <3>2 DEF DeleteLegacy, Loses, Live, TypeOK, SecretNames
  <2>4. CASE DeleteResource(w)
    <3>1. work[w].row \in Rows /\ work[w].pc = "deleteResource"
      BY <1>1, <2>4 DEF DeleteResource, JobOK
    <3>2. work'[w].pc = "deleteSecret"
      BY <1>1, <2>4 DEF DeleteResource, WriteResource, Advance, TypeOK, Jobs
    <3>3. r = work[w].row
      BY <1>1, <2>4, <3>1 DEF DeleteResource, WriteResource, Loses, Live, TypeOK
    <3> QED
      BY <3>1, <3>2, <3>3 DEF Deleting
  <2>5. CASE DeleteSecret(w)
    <3>1. work[w].row \in Rows /\ work[w].pc = "deleteSecret"
      BY <1>1, <2>5 DEF DeleteSecret, JobOK
    <3>2. work'[w].pc = "idle"
      BY <1>1, <2>5 DEF DeleteSecret, Finish, Idle, Job, TypeOK
    <3>3. SecretName(r) = SecretName(work[w].row)
      BY <1>1, <2>5, <3>1 DEF DeleteSecret, Loses, Live, TypeOK, SecretNames
    <3>4. r = work[w].row
      BY <3>1, <3>3, SecretNameInjective
    <3> QED
      BY <3>1, <3>2, <3>4 DEF Deleting
  <2>6. CASE \/ ContinueUpdate(w) \/ AbandonUpdate(w) \/ FetchRow(w)
             \/ ReadSecret(w) \/ ReadResource(w) \/ ListStale(w)
    <3>1. UNCHANGED <<cr, secrets>>
      BY <2>6 DEF ContinueUpdate, CommitUpdate, AbandonUpdate, FetchRow, ReadSecret,
                  ReadResource, ListStale
    <3> QED
      BY <1>2, <3>1
  <2> QED
    BY <1>3, <2>1, <2>2, <2>3, <2>4, <2>5, <2>6 DEF Step
<1>4. ASSUME NEW w \in Workers, work[w].pc \in Deleting, work[w].row = r
      PROVE  work[w].ver < db[r].key
  BY <1>1, <1>4 DEF JobOK
<1>5. ASSUME NEW w \in {"request"} \X Requests, RequestStarts(w)
      PROVE  FALSE
  BY <1>2, <1>5 DEF RequestStarts, CreateRow, UpdateRow, CommitUpdate, DeleteRow
<1>6. CASE CycleStep
  <2>1. UNCHANGED <<cr, secrets>>
    BY <1>6 DEF CycleStep, StartCycle, LoadTable, StartSyncs, SkipPrune, StartPrune, EndCycle
  <2> QED
    BY <1>2, <2>1
<1>7. CASE Environment
  <2>1. CASE \E s \in Rows : CollectGarbage(s)
    BY <1>1, <2>1 DEF CollectGarbage, Loses, Live, TypeOK
  <2>2. CASE ~\E s \in Rows : CollectGarbage(s)
    <3>1. UNCHANGED <<cr, secrets>>
      BY <1>7, <2>2 DEF Environment, FailCall, FailRead, Crash, OperatorWritesStatus
    <3> QED
      BY <1>2, <3>1
  <2> QED
    BY <2>1, <2>2
<1> QED
  BY <1>3, <1>4, <1>5, <1>6, <1>7 DEF Next

\* Only reading the tables gives a cycle a snapshot to use, and it reads every row.
LEMMA SnapshotsLackNoMore ==
    ASSUME SyncInv, Next, NEW r \in Rows, db[r] # Nil,
           WillUse(Kind(r))', r \notin snap'[Kind(r)].rows
    PROVE  WillUse(Kind(r)) /\ r \notin snap[Kind(r)].rows
<1> USE DEF cluster, budget
<1> DEFINE k == Kind(r)
           l == <<"list", k>>
<1>1. TypeOK /\ CycleOK /\ (\A u \in Workers : JobOK(u) /\ work[u] \in Jobs) /\ SnapshotOK
  BY DEF SyncInv, TypeOK
<1>2. k \in Kinds /\ l \in Workers /\ l[1] = "list"
  BY DEF Kinds, Workers
\* A step that leaves the snapshot alone, lists nothing and starts no cycle.
<1>3. ASSUME snap' = snap, CycleStays, work'[l].pc = "list" => work[l].pc = "list"
      PROVE  WillUse(k) /\ r \notin snap[k].rows
  BY <1>3 DEF CycleStays, WillUse
<1>4. CycleStays \/ cycle' # cycle
  BY <1>1 DEF TypeOK, CycleStays
<1>5. ASSUME NEW w \in Workers, Reject(w) \/ Finish(w), snap' = snap
      PROVE  WillUse(k) /\ r \notin snap[k].rows
  <2>1. CycleStays
    <3>1. CASE Reject(w)
      BY <1>1, <3>1 DEF TypeOK, Reject, NoCycle, CycleStays
    <3>2. CASE Finish(w)
      BY <1>1, <3>2 DEF TypeOK, Finish, CycleStays
    <3> QED
      BY <1>5, <3>1, <3>2
  <2>2. work'[l].pc = "list" => work[l].pc = "list"
    BY <1>1, <1>2, <1>5 DEF TypeOK, Reject, Finish, Idle, Job
  <2> QED
    BY <1>3, <1>5, <2>1, <2>2
<1>6. ASSUME NEW w \in Workers, NEW pc \in Calling \ {"list"}, NEW S, Advance(w, pc, S),
             UNCHANGED <<cycle, snap>>
      PROVE  WillUse(k) /\ r \notin snap[k].rows
  <2>1. work'[l].pc = IF l = w THEN pc ELSE work[l].pc
    BY <1>1, <1>2, <1>6 DEF Advance, Jobs
  <2> QED
    BY <1>3, <1>4, <1>6, <2>1
<1>7. ASSUME NEW w \in Workers, NEW s \in Rows, CreateRow(w, s) \/ CommitUpdate(w, s) \/ DeleteRow(w, s)
      PROVE  WillUse(k) /\ r \notin snap[k].rows
  <2>1. PICK pc \in {"update", "fetch", "deleteResource"} :
          \E v : work' = [work EXCEPT ![w] = Job(pc, s, v, 0)]
    BY <1>7 DEF CreateRow, CommitUpdate, DeleteRow, AfterStatement
  <2>2. work'[l].pc = "list" => work[l].pc = "list"
    BY <1>1, <1>2, <2>1 DEF TypeOK, Job
  <2>3. UNCHANGED <<cycle, snap>>
    BY <1>7 DEF CreateRow, CommitUpdate, DeleteRow
  <2> QED
    BY <1>3, <1>4, <2>2, <2>3
<1>8. ASSUME NEW w \in Workers, Step(w)
      PROVE  WillUse(k) /\ r \notin snap[k].rows
  <2>1. CASE \/ ReplaceSecret(w) \/ CreateSecret(w) \/ ReplaceResource(w) \/ CreateResource(w)
             \/ ReadSecret(w) \/ ReadResource(w) \/ DeleteResource(w)
    <3>1. CASE Reject(w)
      BY <1>5, <2>1, <3>1
         DEF ReplaceSecret, CreateSecret, ReplaceResource, CreateResource, ReadSecret,
             ReadResource, DeleteResource
    <3>2. CASE ~Reject(w)
      <4>1. UNCHANGED <<cycle, snap>>
        BY <2>1, <3>2
           DEF ReplaceSecret, CreateSecret, ReplaceResource, CreateResource, ReadSecret,
               ReadResource, DeleteResource
      <4>2. \E pc \in Calling \ {"list"} : \E S : Advance(w, pc, S)
        BY <2>1, <3>2
           DEF ReplaceSecret, CreateSecret, ReplaceResource, CreateResource, ReadSecret,
               ReadResource, DeleteResource, WriteResource, Calling, Syncing, Deleting
      <4> QED
        BY <1>6, <4>1, <4>2
    <3> QED
      BY <3>1, <3>2
  <2>2. CASE AbandonUpdate(w) \/ DeleteLegacy(w) \/ DeleteSecret(w)
    BY <1>5, <2>2 DEF AbandonUpdate, DeleteLegacy, DeleteSecret
  <2>3. CASE ContinueUpdate(w)
    BY <1>1, <1>7, <2>3 DEF ContinueUpdate, JobOK
  <2>4. CASE FetchRow(w)
    <3>1. CASE Finish(w)
      BY <1>5, <2>4, <3>1 DEF FetchRow
    <3>2. CASE ~Finish(w)
      <4>1. /\ work' = [work EXCEPT ![w] = Job("readSecret", work[w].row, db[work[w].row].ver,
                                               db[work[w].row].key)]
            /\ UNCHANGED <<cycle, snap>>
        BY <2>4, <3>2 DEF FetchRow
      <4>2. work'[l].pc = "list" => work[l].pc = "list"
        BY <1>1, <1>2, <4>1 DEF TypeOK, Job
      <4> QED
        BY <1>3, <1>4, <4>1, <4>2
    <3> QED
      BY <3>1, <3>2
  <2>5. CASE ListStale(w)
    <3>1. w = <<"list", w[2]>> /\ work[w].pc = "list" /\ w[2] \in Kinds
      BY <1>1, <2>5 DEF ListStale, JobOK, Workers
    <3>2. cycle'.pc = cycle.pc /\ cycle'.unread = cycle.unread
      BY <1>1, <2>5 DEF ListStale, TypeOK
    <3>3. CASE w[2] = k
      <4>1. work'[l].pc = "idle"
        BY <1>2, <2>5, <3>1, <3>3 DEF ListStale, Idle, Job
      <4> QED
        BY <1>1, <1>2, <3>1, <3>2, <3>3, <4>1 DEF WillUse, SnapshotOK
    <3>4. CASE w[2] # k
      <4>1. l # w /\ l \notin {"prune"} \X Stale(w[2])
        BY <3>1, <3>4
      <4>2. work'[l] = work[l] /\ snap'[k] = snap[k]
        BY <1>1, <1>2, <2>5, <3>1, <3>4, <4>1 DEF ListStale, TypeOK
      <4> QED
        BY <3>2, <4>2 DEF WillUse
    <3> QED
      BY <3>3, <3>4
  <2> QED
    BY <1>8, <2>1, <2>2, <2>3, <2>4, <2>5 DEF Step
<1>9. ASSUME NEW w \in {"request"} \X Requests, RequestStarts(w)
      PROVE  WillUse(k) /\ r \notin snap[k].rows
  <2>1. w \in Workers
    BY DEF Workers
  <2> QED
    BY <1>7, <1>9, <2>1 DEF RequestStarts, UpdateRow
<1>10. CASE CycleStep
  <2>1. CASE StartCycle \/ SkipPrune \/ EndCycle
    <3>1. UNCHANGED <<work, snap>>
      BY <2>1 DEF StartCycle, SkipPrune, EndCycle
    <3>2. cycle'.pc \in {"read", "sync"} => cycle'.unread = Kinds
      <4>1. CASE StartCycle
        BY <4>1 DEF StartCycle, NoCycle
      <4>2. CASE SkipPrune \/ EndCycle
        BY <4>2 DEF SkipPrune, EndCycle, NoCycle
      <4> QED
        BY <2>1, <4>1, <4>2
    <3> QED
      BY <1>2, <3>1, <3>2 DEF WillUse
  <2>2. ASSUME NEW i \in Kinds, LoadTable(i) PROVE WillUse(k) /\ r \notin snap[k].rows
    <3>1. snap' = [snap EXCEPT ![i] = [rows |-> PresentRows(i), asOf |-> commits]]
      BY <2>2 DEF LoadTable
    <3>2. i # k
      BY <1>1, <1>2, <3>1 DEF TypeOK, PresentRows
    <3>3. snap'[k] = snap[k]
      BY <1>1, <1>2, <3>1, <3>2 DEF TypeOK
    <3>4. work'[l] = work[l]
      BY <1>2, <2>2 DEF LoadTable
    <3>5. cycle'.pc = cycle.pc /\ cycle'.unread = cycle.unread \ {i}
      BY <1>1, <2>2 DEF LoadTable, TypeOK
    <3> QED
      BY <3>2, <3>3, <3>4, <3>5 DEF WillUse
  <2>3. CASE StartSyncs
    <3>1. work'[l].pc = "list" => work[l].pc = "list"
      BY <1>1, <1>2, <2>3 DEF StartSyncs, Loaded, Jobs
    <3>2. snap' = snap /\ cycle.pc = "read" /\ cycle.unread = {}
      BY <2>3 DEF StartSyncs
    <3> QED
      BY <3>1, <3>2 DEF WillUse
  <2>4. CASE StartPrune
    BY <1>1, <2>4 DEF StartPrune, CycleOK, WillUse
  <2> QED
    BY <1>10, <2>1, <2>2, <2>3, <2>4 DEF CycleStep
<1>11. CASE Environment
  <2>1. ASSUME NEW w \in Workers, FailCall(w) PROVE WillUse(k) /\ r \notin snap[k].rows
    BY <1>5, <2>1 DEF FailCall
  <2>2. CASE FailRead
    BY <1>2, <2>2 DEF FailRead, NoCycle, WillUse, Idle, Job
  <2>3. CASE Crash
    BY <1>2, <2>3 DEF Crash, NoCycle, WillUse, Idle, Job
  <2>4. ASSUME NEW s \in Rows, OperatorWritesStatus(s) \/ CollectGarbage(s)
        PROVE  WillUse(k) /\ r \notin snap[k].rows
    <3>1. work'[l].pc = work[l].pc
      BY <1>1, <1>2, <2>4 DEF OperatorWritesStatus, CollectGarbage, Jobs
    <3> QED
      BY <1>3, <1>4, <2>4, <3>1 DEF OperatorWritesStatus, CollectGarbage
  <2> QED
    BY <1>11, <2>1, <2>2, <2>3, <2>4 DEF Environment
<1> QED
  BY <1>8, <1>9, <1>10, <1>11 DEF Next

\* No step puts a row in danger that was in the database and out of danger.
LEMMA NoNewDanger ==
    ASSUME SyncInv, Next, NEW r \in Rows, db[r] # Nil, db'[r] # Nil, Endangered(r)'
    PROVE  Endangered(r)
<1>1. ASSUME NEW w \in Workers, work'[w].pc \in Deleting, work'[w].row = r
      PROVE  Endangered(r)
  <2>1. Follows(w) /\ work'[w].pc \notin {"loaded", "readSecret"}
    BY <1>1, JobsFollow DEF Deleting
  <2>2. CASE GoesOn(w)
    BY <1>1, <2>2 DEF GoesOn, Endangered
  <2>3. CASE BeginsRemoval(w)
    BY <1>1, <2>3 DEF BeginsRemoval, Endangered
  <2> QED
    BY <1>1, <2>1, <2>2, <2>3 DEF Follows, ReadsRow
<1>2. ASSUME WillUse(Kind(r))', r \notin snap'[Kind(r)].rows
      PROVE  Endangered(r)
  BY <1>2, SnapshotsLackNoMore DEF Endangered
<1> QED
  BY <1>1, <1>2 DEF Endangered

\* A row of the database that is out of danger keeps its Secret and its resource
\* and stays out of danger until it is deleted, provided no id is another id with
\* a prefix: only what was under way when a row was created can take it down.
THEOREM LiveRowsAreKept == Spec => LiveRowKept
<1>1. SyncInv /\ [Next]_vars =>
        [NoNameCollision =>
            \A r \in Rows : db[r] # Nil /\ ~Endangered(r) =>
                ~Loses(r) /\ (db'[r] # Nil => ~Endangered(r)')]_vars
  BY StepKeepsRows, NoNewDanger DEF Endangered
<1> QED
  BY <1>1, SyncInvariant, PTL DEF Spec, LiveRowKept

-----------------------------------------------------------------------------
(* The action property ResourceHasItsKey.                                  *)

\* Commit numbers tell the life of a row that a chain or an object belongs to: a
\* synchronization carries the key of the row as it is, or is older than the row.
AgesOK ==
    /\ \A r \in Rows : db[r] # Nil => db[r].key <= db[r].ver /\ db[r].ver <= commits
    /\ \A r \in Rows : cr[r] # Nil => cr[r].ver <= commits
    /\ \A w \in Workers : work[w].pc \in Writing =>
           LET row == db[work[w].row] IN
           /\ work[w].ver <= commits
           /\ row # Nil => work[w].key = row.key \/ work[w].ver < row.key

\* A step leaves the rows alone, or commits: a row that existed keeps its key.
RowsStep ==
    \/ db' = db /\ commits' = commits
    \/ /\ commits' = commits + 1
       /\ \A r \in Rows : \/ db'[r] = db[r] \/ db'[r] = Nil
                          \/ /\ db'[r].ver = commits'
                             /\ db'[r].key = IF db[r] = Nil THEN commits' ELSE db[r].key

\* What a resource shows is what it showed, or what a synchronization carried.
ShowsCarried ==
    \A r \in Rows : cr'[r] # Nil =>
        \/ cr[r] # Nil /\ cr'[r].ver = cr[r].ver
        \/ \E w \in Workers : /\ work[w].pc \in PastSecret \cap Writing /\ work[w].row = r
                              /\ cr'[r].ver = work[w].ver

\* A Secret changes only when a synchronization of its row writes it, or when a
\* removal of its row deletes it.
SecretsStep ==
    \A r \in Rows : secrets'[SecretName(r)] # secrets[SecretName(r)] =>
        \E w \in Workers :
            /\ work[w].row = r /\ work'[w].pc # work[w].pc
            /\ \/ work[w].pc \in Syncing /\ secrets'[SecretName(r)] = work[w].key
               \/ work[w].pc \in Deleting

\* What a step does to the rows.
LEMMA AllRowsStep ==
    ASSUME SyncInv, Next
    PROVE  RowsStep
<1> USE DEF cluster, budget
<1>1. TypeOK /\ \A w \in Workers : JobOK(w)
  BY DEF SyncInv
<1>2. ASSUME NEW w \in Workers, NEW r \in Rows,
             CreateRow(w, r) \/ CommitUpdate(w, r) \/ DeleteRow(w, r)
      PROVE  RowsStep
  <2>1. CASE CreateRow(w, r)
    BY <1>1, <2>1 DEF CreateRow, RowsStep, TypeOK
  <2>2. CASE CommitUpdate(w, r)
    BY <1>1, <2>2 DEF CommitUpdate, RowsStep, TypeOK
  <2>3. CASE DeleteRow(w, r)
    BY <1>1, <2>3 DEF DeleteRow, RowsStep, TypeOK
  <2> QED
    BY <1>2, <2>1, <2>2, <2>3
<1>3. ASSUME NEW w \in {"request"} \X Requests, RequestStarts(w) PROVE RowsStep
  <2>1. w \in Workers
    BY DEF Workers
  <2> QED
    BY <1>2, <1>3, <2>1 DEF RequestStarts, UpdateRow
<1>4. ASSUME NEW w \in Workers, Step(w) PROVE RowsStep
  <2>1. CASE ContinueUpdate(w)
    BY <1>1, <1>2, <2>1 DEF ContinueUpdate, JobOK
  <2>2. CASE ~ContinueUpdate(w)
    BY <1>4, <2>2 DEF Step, RowsStep, AbandonUpdate, FetchRow, ReadSecret, ReplaceSecret,
       CreateSecret, ReadResource, ReplaceResource, CreateResource, DeleteLegacy,
       DeleteResource, DeleteSecret, ListStale
  <2> QED
    BY <2>1, <2>2
<1>5. CASE CycleStep \/ Environment
  BY <1>5 DEF CycleStep, StartCycle, LoadTable, StartSyncs, SkipPrune, StartPrune, EndCycle,
     Environment, FailCall, FailRead, Crash, OperatorWritesStatus, CollectGarbage, RowsStep
<1> QED
  BY <1>3, <1>4, <1>5 DEF Next

\* The cluster changes in six of the steps of a chain and by the garbage collector.
LEMMA AllClusterStep ==
    ASSUME SyncInv, Next, NoNameCollision
    PROVE  ShowsCarried /\ SecretsStep
<1> USE DEF cluster, budget
<1>1. TypeOK /\ \A w \in Workers : JobOK(w) /\ work[w] \in Jobs
  BY DEF SyncInv, TypeOK
<1>2. \A r \in Rows : SecretName(r) \in SecretNames
  BY DEF SecretNames
<1>3. ASSUME UNCHANGED cr PROVE ShowsCarried
  BY <1>3 DEF ShowsCarried
<1>4. ASSUME UNCHANGED secrets PROVE SecretsStep
  BY <1>4 DEF SecretsStep
<1>5. ASSUME NEW w \in Workers, Step(w) PROVE ShowsCarried /\ SecretsStep
  <2> DEFINE s == work[w].row
  <2>1. CASE (ReplaceSecret(w) \/ CreateSecret(w)) /\ ~UNCHANGED secrets
    <3>1. /\ s \in Rows /\ work[w].pc \in Syncing /\ UNCHANGED cr
          /\ secrets' = [secrets EXCEPT ![SecretName(s)] = work[w].key]
          /\ work[w].pc # "readResource"
      BY <1>1, <2>1 DEF ReplaceSecret, CreateSecret, JobOK, Syncing
    <3>2. PICK S : Advance(w, "readResource", S)
      BY <2>1 DEF ReplaceSecret, CreateSecret
    <3>3. work'[w].pc = "readResource"
      BY <1>1, <3>2 DEF Advance, Jobs
    <3>4. \A r \in Rows : r # s => SecretName(r) # SecretName(s)
      BY <3>1, SecretNameInjective
    <3>5. SecretsStep
      BY <1>1, <1>2, <3>1, <3>3, <3>4 DEF SecretsStep, TypeOK
    <3> QED
      BY <1>3, <3>1, <3>5
  <2>2. CASE DeleteSecret(w)
    <3>1. /\ s \in Rows /\ work[w].pc = "deleteSecret" /\ UNCHANGED cr
          /\ secrets' = [secrets EXCEPT ![SecretName(s)] = Nil]
      BY <1>1, <2>2 DEF DeleteSecret, JobOK
    <3>2. work'[w].pc = "idle"
      BY <1>1, <2>2 DEF DeleteSecret, Finish, Idle, Job, TypeOK
    <3>3. \A r \in Rows : r # s => SecretName(r) # SecretName(s)
      BY <3>1, SecretNameInjective
    <3>4. SecretsStep
      BY <1>1, <1>2, <3>1, <3>2, <3>3 DEF SecretsStep, TypeOK, Deleting
    <3> QED
      BY <1>3, <3>1, <3>4
  <2>3. CASE DeleteLegacy(w)
    <3>1. s \in Rows /\ UNCHANGED cr /\ secrets' = [secrets EXCEPT ![LegacyName(s)] = Nil]
      BY <1>1, <2>3 DEF DeleteLegacy, JobOK
    <3>2. \A r \in Rows : secrets'[SecretName(r)] = secrets[SecretName(r)]
      BY <1>1, <1>2, <3>1 DEF NoNameCollision, TypeOK
    <3> QED
      BY <1>3, <3>1, <3>2 DEF SecretsStep
  <2>4. CASE (ReplaceResource(w) \/ CreateResource(w)) /\ ~UNCHANGED cr
    <3>1. s \in Rows /\ work[w].pc \in PastSecret \cap Writing /\ UNCHANGED secrets
      BY <1>1, <2>4 DEF ReplaceResource, CreateResource, JobOK, Syncing, Writing, PastSecret
    <3>2. \A r \in Rows : r # s => cr'[r] = cr[r]
      BY <1>1, <2>4 DEF ReplaceResource, CreateResource, WriteResource, TypeOK
    <3>3. cr'[s].ver = work[w].ver
      <4>1. CASE ReplaceResource(w)
        <5>1. cr' = [cr EXCEPT ![s] = [cr[s] EXCEPT !.ver = work[w].ver]] /\ cr[s] # Nil
          BY <2>4, <4>1 DEF ReplaceResource, WriteResource
        <5>2. cr[s] \in [ver : Versions, deleting : BOOLEAN]
          BY <1>1, <3>1, <5>1 DEF TypeOK
        <5> QED
          BY <1>1, <3>1, <5>1, <5>2 DEF TypeOK
      <4>2. CASE CreateResource(w)
        <5>1. cr' = [cr EXCEPT ![s] = [ver |-> work[w].ver, deleting |-> FALSE]]
          BY <2>4, <4>2 DEF CreateResource, WriteResource
        <5> QED
          BY <1>1, <3>1, <5>1 DEF TypeOK
      <4> QED
        BY <2>4, <4>1, <4>2
    <3>4. ShowsCarried
      BY <3>1, <3>2, <3>3 DEF ShowsCarried
    <3> QED
      BY <1>4, <3>1, <3>4
  <2>5. CASE DeleteResource(w) /\ ~UNCHANGED cr
    <3>1. s \in Rows /\ UNCHANGED secrets
      BY <1>1, <2>5 DEF DeleteResource, JobOK
    <3>2. cr[s] # Nil /\ cr' = [cr EXCEPT ![s] = [cr[s] EXCEPT !.deleting = TRUE]]
      BY <2>5 DEF DeleteResource, WriteResource
    <3>3. cr[s] \in [ver : Versions, deleting : BOOLEAN]
      BY <1>1, <3>1, <3>2 DEF TypeOK
    <3>4. \A r \in Rows : cr'[r] = IF r = s THEN [cr[s] EXCEPT !.deleting = TRUE] ELSE cr[r]
      BY <1>1, <3>2 DEF TypeOK
    <3>5. [cr[s] EXCEPT !.deleting = TRUE].ver = cr[s].ver
      BY <3>3
    <3>6. ShowsCarried
      BY <3>2, <3>4, <3>5 DEF ShowsCarried
    <3> QED
      BY <1>4, <3>1, <3>6
  <2>6. CASE UNCHANGED <<cr, secrets>>
    BY <1>3, <1>4, <2>6
  <2> QED
    BY <1>5, <2>1, <2>2, <2>3, <2>4, <2>5, <2>6
       DEF Step, ContinueUpdate, CommitUpdate, AbandonUpdate, FetchRow, ReadSecret, ReplaceSecret,
           CreateSecret, ReadResource, ReplaceResource, CreateResource, DeleteResource, ListStale
<1>6. CASE \/ \E w \in {"request"} \X Requests : RequestStarts(w)
           \/ CycleStep \/ (Environment /\ ~\E r \in Rows : CollectGarbage(r))
  <2>1. UNCHANGED <<cr, secrets>>
    BY <1>6 DEF RequestStarts, CreateRow, UpdateRow, CommitUpdate, DeleteRow,
       CycleStep, StartCycle, LoadTable, StartSyncs, SkipPrune, StartPrune, EndCycle,
       Environment, FailCall, FailRead, Crash, OperatorWritesStatus
  <2> QED
    BY <1>3, <1>4, <2>1
<1>7. CASE \E r \in Rows : CollectGarbage(r)
  <2>1. \A r \in Rows : cr'[r] # Nil => cr'[r] = cr[r]
    BY <1>1, <1>7 DEF CollectGarbage, TypeOK
  <2> QED
    BY <1>4, <1>7, <2>1 DEF CollectGarbage, ShowsCarried
<1> QED
  BY <1>5, <1>6, <1>7 DEF Next

\* The ages at the start.
LEMMA AgesInit == Init => AgesOK
  BY DEF Init, AgesOK, Idle, Job, Writing, Syncing

\* The ages are kept, when no two rows share a Secret.
LEMMA AgesNext == SyncInv /\ (NoNameCollision => AgesOK) /\ [Next]_vars => (NoNameCollision => AgesOK)'
<1> SUFFICES ASSUME SyncInv, AgesOK, NoNameCollision, [Next]_vars PROVE AgesOK'
  BY DEF NoNameCollision
<1>1. CASE UNCHANGED vars
  BY <1>1 DEF vars, AgesOK
<1>2. CASE Next
  <2>1. RowsStep /\ ShowsCarried /\ (\A u \in Workers : Follows(u)) /\ TypeOK
    BY <1>2, AllRowsStep, AllClusterStep, JobsFollow DEF SyncInv
  <2>2. commits \in Nat /\ (commits' = commits \/ commits' = commits + 1)
    BY <2>1, BoundsAssumption DEF RowsStep, TypeOK, Versions
  <2>3. /\ \A r \in Rows : db[r] # Nil => db[r].key \in Nat /\ db[r].ver \in Nat
        /\ \A r \in Rows : cr[r] # Nil => cr[r].ver \in Nat
        /\ \A w \in Workers : work[w].key \in Nat /\ work[w].ver \in Nat
    <3>1. Versions \subseteq Nat
      BY BoundsAssumption DEF Versions
    <3> QED
      BY <2>1, <3>1 DEF TypeOK, Jobs
  <2>4. ASSUME NEW r \in Rows, db'[r] # Nil
        PROVE  db'[r].key <= db'[r].ver /\ db'[r].ver <= commits'
    BY <2>1, <2>2, <2>3, <2>4 DEF AgesOK, RowsStep
  <2>5. ASSUME NEW r \in Rows, cr'[r] # Nil
        PROVE  cr'[r].ver <= commits'
    BY <2>1, <2>2, <2>3, <2>5 DEF AgesOK, ShowsCarried
  <2>6. ASSUME NEW w \in Workers, work'[w].pc \in Writing
        PROVE  LET row == db'[work'[w].row] IN
               /\ work'[w].ver <= commits'
               /\ row # Nil => work'[w].key = row.key \/ work'[w].ver < row.key
    <3> DEFINE r == work'[w].row
    <3>1. work'[w].pc \notin Deleting
      BY <2>6 DEF Writing, Syncing, Deleting
    <3>2. CASE GoesOn(w)
      <4>1. /\ work[w].pc \in Writing /\ r = work[w].row
            /\ work'[w].ver = work[w].ver /\ work'[w].key = work[w].key
        BY <2>6, <3>2 DEF GoesOn
      <4>2. r \in Rows
        BY <4>1 DEF SyncInv, JobOK, Writing, Syncing
      <4>3. /\ work[w].ver <= commits
            /\ db[r] # Nil => work[w].key = db[r].key \/ work[w].ver < db[r].key
        BY <4>1 DEF AgesOK
      <4> HIDE DEF r
      <4> QED
        BY <2>1, <2>2, <2>3, <4>1, <4>2, <4>3 DEF RowsStep, r
    <3>3. CASE ReadsRow(w)
      <4>1. /\ r \in Rows /\ db[r] # Nil
            /\ work'[w].ver = db[r].ver /\ work'[w].key = db[r].key
        BY <3>3 DEF ReadsRow
      <4>2. db'[r] = Nil \/ db'[r] = db[r] \/ db'[r].key = db[r].key
        BY <2>1, <4>1 DEF RowsStep
      <4> QED
        BY <2>2, <2>3, <4>1, <4>2 DEF AgesOK
    <3> QED
      BY <2>1, <2>6, <3>1, <3>2, <3>3 DEF Follows, BeginsRemoval, Deleting
  <2> QED
    BY <2>4, <2>5, <2>6 DEF AgesOK
<1> QED
  BY <1>1, <1>2

\* The Secret comes first, for any ids without a name collision and any number of
\* requests, failures and crashes: a row is published only with its key in its
\* Secret, and only a chain that began before the row was created takes it away.
THEOREM ResourcesHaveTheirKeys == Spec => ResourceHasItsKey
<1> DEFINE Inv == SyncInv /\ (NoNameCollision => AgesOK)
<1>1. Init => Inv
  BY SyncInit, AgesInit
<1>2. Inv /\ [Next]_vars => Inv'
  BY NextInv, AgesNext
<1>3. ASSUME Inv, NoNameCollision, Next, NEW r \in Rows, db[r] # Nil, db'[r] # Nil,
             Published(r)', ~HasKey(r)', ~(Published(r) /\ ~HasKey(r))
      PROVE  \E w \in Workers : work[w].row = r /\ LateStep(w)
  <2>1. /\ RowsStep /\ ShowsCarried /\ SecretsStep
        /\ AgesOK /\ TypeOK /\ \A u \in Workers : Follows(u) /\ JobOK(u)
    BY <1>3, AllRowsStep, AllClusterStep, JobsFollow DEF SyncInv
  <2>2. db'[r].key = db[r].key
    BY <1>3, <2>1 DEF RowsStep
  <2>3. /\ db[r].key \in Nat
        /\ \A w \in Workers : work[w].ver \in Nat /\ work[w].key \in Nat
    <3>1. Versions \subseteq Nat
      BY BoundsAssumption DEF Versions
    <3> QED
      BY <1>3, <2>1, <3>1 DEF TypeOK, Jobs
  <2>4. Published(r)
    <3>1. CASE cr'[r] # Nil /\ cr'[r].ver >= db'[r].key
      <4>1. CASE cr[r] # Nil /\ cr'[r].ver = cr[r].ver
        BY <2>2, <3>1, <4>1 DEF Published
      <4>2. CASE ~(cr[r] # Nil /\ cr'[r].ver = cr[r].ver)
        <5>1. PICK w \in Workers : /\ work[w].pc \in PastSecret \cap Writing /\ work[w].row = r
                                   /\ cr'[r].ver = work[w].ver
          BY <2>1, <3>1, <4>2 DEF ShowsCarried
        <5>2. work[w].key = db[r].key
          BY <1>3, <2>1, <2>2, <2>3, <3>1, <5>1 DEF AgesOK
        <5> QED
          BY <5>1, <5>2 DEF Published
      <4> QED
        BY <4>1, <4>2
    <3>2. ASSUME NEW w \in Workers, work'[w].pc \in PastSecret, work'[w].row = r,
                 work'[w].key = db'[r].key
          PROVE  Published(r)
      <4>1. work'[w].pc \in Writing /\ work'[w].pc \notin Deleting \cup {"loaded", "readSecret"}
        BY <3>2 DEF PastSecret, Writing, Syncing, Deleting
      <4>2. GoesOn(w)
        BY <2>1, <4>1 DEF Follows, ReadsRow, BeginsRemoval, Deleting
      <4>3. work[w].pc \in PastSecret
        BY <1>3, <2>2, <3>2, <4>2 DEF GoesOn, HasKey
      <4> QED
        BY <2>2, <3>2, <4>2, <4>3 DEF GoesOn, Published
    <3> QED
      BY <1>3, <3>1, <3>2 DEF Published
  <2>5. HasKey(r) /\ secrets'[SecretName(r)] # secrets[SecretName(r)]
    BY <1>3, <2>2, <2>4 DEF HasKey
  <2>6. PICK w \in Workers :
            /\ work[w].row = r /\ work'[w].pc # work[w].pc
            /\ \/ work[w].pc \in Syncing /\ secrets'[SecretName(r)] = work[w].key
               \/ work[w].pc \in Deleting
    BY <2>1, <2>5 DEF SecretsStep
  <2>7. work[w].ver < db[r].key
    <3>1. CASE work[w].pc \in Deleting
      BY <1>3, <2>1, <2>6, <3>1 DEF JobOK
    <3>2. CASE work[w].pc \in Syncing /\ secrets'[SecretName(r)] = work[w].key
      BY <1>3, <2>1, <2>2, <2>6, <3>2 DEF AgesOK, HasKey, Writing
    <3> QED
      BY <2>6, <3>1, <3>2
  <2> QED
    BY <2>6, <2>7 DEF LateStep
<1>4. Inv /\ [Next]_vars =>
        [NoNameCollision =>
            \A r \in Rows : db[r] # Nil /\ db'[r] # Nil /\ Published(r)' /\ ~HasKey(r)' =>
                \/ Published(r) /\ ~HasKey(r)
                \/ \E w \in Workers : work[w].row = r /\ LateStep(w)]_vars
  BY <1>3
<1> QED
  BY <1>1, <1>2, <1>4, PTL DEF Spec, ResourceHasItsKey

-----------------------------------------------------------------------------
(* What convergence rests on: once the chains that began before the last     *)
(* commit are over, no step takes the cluster away from the database, and    *)
(* every synchronization that ends has brought its row there.                *)

HasSecret(r) == secrets[SecretName(r)] = db[r].key
HasResource(r) == cr[r] = [ver |-> db[r].ver, deleting |-> FALSE]

\* What InSync says of one row.
Agrees(r) ==
    IF db[r] = Nil THEN cr[r] = Nil
    ELSE HasResource(r) /\ HasSecret(r) /\ secrets[LegacyName(r)] = Nil

\* A job that acts on what the database says now, and what it has done still stands.
Current(w) ==
    LET r == work[w].row IN
    /\ work[w].pc \in Deleting => db[r] = Nil
    /\ work[w].pc \in Writing =>
           db[r] # Nil /\ work[w].ver = db[r].ver /\ work[w].key = db[r].key
    /\ work[w].pc \in PastSecret => HasSecret(r)
    /\ work[w].pc = "deleteLegacy" => HasResource(r)

Complete(k) == PresentRows(k) \subseteq snap[k].rows

\* No chain is left that knows less than the database, and no row's resource is going.
Calm ==
    /\ \A w \in Workers : Current(w)
    /\ \A k \in Kinds : WillUse(k) => Complete(k)
    /\ \A r \in Rows : db[r] # Nil /\ cr[r] # Nil => ~cr[r].deleting

\* The rows that agree still do.
Keeps == Calm' /\ \A r \in Rows : Agrees(r) => Agrees(r)'

\* What a calm step does to the cluster.
ClusterKeeps ==
    \A r \in Rows :
        /\ db[r] = Nil /\ cr[r] = Nil => cr'[r] = Nil
        /\ db[r] # Nil =>
              /\ HasSecret(r) => HasSecret(r)'
              /\ HasResource(r) => HasResource(r)'
              /\ secrets[LegacyName(r)] = Nil => secrets'[LegacyName(r)] = Nil
              /\ cr'[r] # Nil => ~cr'[r].deleting

JobStays(u) == /\ work'[u].pc = work[u].pc /\ work'[u].row = work[u].row
               /\ work'[u].ver = work[u].ver /\ work'[u].key = work[u].key

\* What keeps the calm: the cluster stays, and nobody is out of date.
LEMMA CalmKept ==
    ASSUME Calm, UNCHANGED db, ClusterKeeps, \A u \in Workers : Current(u)',
           \A k \in Kinds : WillUse(k)' => Complete(k)'
    PROVE  Keeps
<1>1. Calm'
  BY DEF Calm, ClusterKeeps
<1>2. \A r \in Rows : Agrees(r) => Agrees(r)'
  BY DEF Agrees, ClusterKeeps
<1> QED
  BY <1>1, <1>2 DEF Keeps

\* The snapshots of a step that neither reads a table nor starts the prune step.
LEMMA SnapshotsStay ==
    ASSUME Calm, UNCHANGED <<db, snap>>, \A k \in Kinds : WillUse(k)' => WillUse(k)
    PROVE  \A k \in Kinds : WillUse(k)' => Complete(k)'
  BY DEF Calm, Complete, PresentRows

\* A job that goes on without a change of its data stays up to date.
LEMMA StaysCurrent ==
    ASSUME SyncInv, Calm, UNCHANGED db, ClusterKeeps, NEW u \in Workers,
           JobStays(u) \/ work'[u] = Idle
    PROVE  Current(u)'
<1>1. CASE work'[u] = Idle
  BY <1>1 DEF Current, Idle, Job, Deleting, Writing, Syncing, PastSecret
<1>2. CASE JobStays(u)
  <2> PICK r : r = work[u].row
    OBVIOUS
  <2>1. Current(u)
    BY DEF Calm
  <2>2. work[u].pc \in PastSecret => work[u].pc \in Writing
    BY DEF PastSecret, Writing, Syncing
  <2>3. work[u].pc = "deleteLegacy" => work[u].pc \in PastSecret
    BY DEF PastSecret
  <2>4. work[u].pc \in Writing => r \in Rows
    BY DEF SyncInv, JobOK, Writing, Syncing
  <2>5. work[u].pc \in PastSecret => HasSecret(r)'
    BY <2>1, <2>2, <2>4 DEF Current, ClusterKeeps
  <2>6. work[u].pc = "deleteLegacy" => HasResource(r)'
    BY <2>1, <2>2, <2>3, <2>4 DEF Current, ClusterKeeps
  <2> QED
    BY <1>2, <2>1, <2>5, <2>6 DEF JobStays, Current, HasSecret, HasResource
<1> QED
  BY <1>1, <1>2

\* A step that writes nothing leaves the cluster as it should be.
LEMMA QuietCluster ==
    ASSUME Calm, UNCHANGED <<db, cr, secrets>>
    PROVE  ClusterKeeps
  BY DEF Calm, ClusterKeeps, HasSecret, HasResource

\* A worker ends, the cluster is as it was, and the cycle goes on or ends.
LEMMA EndsCalmly ==
    ASSUME SyncInv, Calm, UNCHANGED <<db, snap>>, ClusterKeeps, CycleStays,
           \A u \in Workers : JobStays(u) \/ work'[u] = Idle
    PROVE  Keeps
<1>1. \A u \in Workers : Current(u)'
  BY StaysCurrent
<1>2. \A k \in Kinds : WillUse(k)' => WillUse(k)
  BY DEF WillUse, CycleStays, JobStays, Idle, Job, Workers
<1> QED
  BY <1>1, <1>2, CalmKept, SnapshotsStay

\* Worker w goes on to step pc, which what it has done allows.
LEMMA AdvancesCalmly ==
    ASSUME SyncInv, Calm, UNCHANGED <<db, snap, cycle>>, ClusterKeeps,
           NEW w \in Workers, NEW pc, NEW S, Advance(w, pc, S), pc # "list",
           pc \in Deleting => work[w].pc \in Deleting,
           pc \in Writing => work[w].pc \in Writing,
           NEW r, r = work[w].row,
           pc \in PastSecret => HasSecret(r)',
           pc = "deleteLegacy" => HasResource(r)'
    PROVE  Keeps
<1>1. work \in [Workers -> Jobs]
  BY DEF SyncInv, TypeOK
<1>2. \A u \in Workers : u # w => JobStays(u)
  BY <1>1 DEF Advance, JobStays, Jobs
<1>3. /\ work'[w].pc = pc /\ work'[w].row = r
      /\ work'[w].ver = work[w].ver /\ work'[w].key = work[w].key
  BY <1>1 DEF Advance, Jobs
<1>4. Current(w)
  BY DEF Calm
<1>5. Current(w)'
  BY <1>3, <1>4 DEF Current, HasSecret, HasResource
<1>6. \A u \in Workers : Current(u)'
  BY <1>2, <1>5, StaysCurrent
<1>7. \A k \in Kinds : WillUse(k)' => WillUse(k)
  <2>1. \A k \in Kinds : <<"list", k>> \in Workers
    BY DEF Workers
  <2> QED
    BY <1>2, <1>3, <2>1 DEF WillUse, JobStays
<1> QED
  BY <1>6, <1>7, CalmKept, SnapshotsStay

\* The Secrets of two rows, and those of the earlier release, are distinct.
LEMMA DistinctSecrets ==
    ASSUME NoNameCollision, NEW r \in Rows, NEW q \in Rows
    PROVE  /\ LegacyName(q) # SecretName(r)
           /\ q # r => SecretName(q) # SecretName(r)
           /\ SecretName(r) \in SecretNames /\ LegacyName(r) \in SecretNames
  BY SecretNameInjective DEF NoNameCollision, SecretNames

\* A Secret is written as its row says.
LEMMA SecretWritten ==
    ASSUME SyncInv, Calm, NoNameCollision, UNCHANGED <<db, cr>>, NEW r \in Rows,
           secrets' = [secrets EXCEPT ![SecretName(r)] = db[r].key]
    PROVE  ClusterKeeps /\ HasSecret(r)'
<1> USE DistinctSecrets
<1>1. secrets \in [SecretNames -> Versions \cup {Nil}]
  BY DEF SyncInv, TypeOK
<1>2. HasSecret(r)'
  BY <1>1 DEF HasSecret
<1>3. ASSUME NEW q \in Rows
      PROVE  /\ HasSecret(q) => HasSecret(q)'
             /\ secrets'[LegacyName(q)] = secrets[LegacyName(q)]
  <2>1. CASE q = r
    BY <1>1, <1>2, <2>1
  <2>2. CASE q # r
    BY <1>1, <2>2 DEF HasSecret
  <2> QED
    BY <2>1, <2>2
<1> QED
  BY <1>2, <1>3 DEF ClusterKeeps, Calm, HasResource

\* The Secret under the former name is nobody's.
LEMMA LegacyDeleted ==
    ASSUME SyncInv, Calm, NoNameCollision, UNCHANGED <<db, cr>>, NEW r \in Rows,
           secrets' = [secrets EXCEPT ![LegacyName(r)] = Nil]
    PROVE  ClusterKeeps /\ secrets'[LegacyName(r)] = Nil
<1> USE DistinctSecrets
<1>1. secrets \in [SecretNames -> Versions \cup {Nil}]
  BY DEF SyncInv, TypeOK
<1>2. ASSUME NEW q \in Rows
      PROVE  /\ HasSecret(q) => HasSecret(q)'
             /\ secrets[LegacyName(q)] = Nil => secrets'[LegacyName(q)] = Nil
  BY <1>1 DEF HasSecret
<1> QED
  BY <1>1, <1>2 DEF ClusterKeeps, Calm, HasResource

\* The Secret that a removal deletes belongs to a row that is absent.
LEMMA SecretDeleted ==
    ASSUME SyncInv, Calm, NoNameCollision, UNCHANGED <<db, cr>>, NEW r \in Rows, db[r] = Nil,
           secrets' = [secrets EXCEPT ![SecretName(r)] = Nil]
    PROVE  ClusterKeeps
<1> USE DistinctSecrets
<1>1. secrets \in [SecretNames -> Versions \cup {Nil}]
  BY DEF SyncInv, TypeOK
<1>2. ASSUME NEW q \in Rows, db[q] # Nil
      PROVE  /\ HasSecret(q) => HasSecret(q)'
             /\ secrets'[LegacyName(q)] = secrets[LegacyName(q)]
  BY <1>1, <1>2 DEF HasSecret
<1> QED
  BY <1>1, <1>2 DEF ClusterKeeps, Calm, HasResource

\* The resource of row r is written with what the database says, or it is that
\* of a row that is absent and was there before, or it goes.
LEMMA ResourceWritten ==
    ASSUME SyncInv, Calm, UNCHANGED <<db, secrets>>, NEW r \in Rows, NEW object,
           cr' = [cr EXCEPT ![r] = object],
           db[r] # Nil => object = [ver |-> db[r].ver, deleting |-> FALSE],
           db[r] = Nil => cr[r] # Nil \/ object = Nil
    PROVE  ClusterKeeps /\ (db[r] # Nil => HasResource(r)')
<1>1. cr \in [Rows -> [ver : Versions, deleting : BOOLEAN] \cup {Nil}]
  BY DEF SyncInv, TypeOK
<1>2. \A q \in Rows : cr'[q] = IF q = r THEN object ELSE cr[q]
  BY <1>1
<1>3. ASSUME db[r] # Nil PROVE HasResource(r)' /\ ~cr'[r].deleting
  <2>1. cr'[r] = [ver |-> db[r].ver, deleting |-> FALSE]
    BY <1>2, <1>3
  <2>2. ~cr'[r].deleting
    BY ONLY <2>1
  <2> QED
    BY <2>1, <2>2 DEF HasResource
<1>4. ASSUME NEW q \in Rows
      PROVE  /\ db[q] = Nil /\ cr[q] = Nil => cr'[q] = Nil
             /\ db[q] # Nil => /\ HasResource(q) => HasResource(q)'
                               /\ cr'[q] # Nil => ~cr'[q].deleting
  <2>1. CASE q = r
    BY <1>2, <1>3, <2>1
  <2>2. CASE q # r
    BY <1>2, <2>2 DEF HasResource, Calm
  <2> QED
    BY <2>1, <2>2
<1> QED
  BY <1>3, <1>4 DEF ClusterKeeps, HasSecret

\* The calls of a synchronization and of a removal.
LEMMA CalmCall ==
    ASSUME SyncInv, Calm, NoNameCollision, NEW w \in Workers, commits' = commits,
           Step(w), ~ListStale(w), ~FetchRow(w)
    PROVE  Keeps /\ (DeleteLegacy(w) => \E r \in Rows : r = work[w].row /\ Agrees(r)')
<1> USE DEF cluster, budget
<1>1. /\ TypeOK /\ JobOK(w) /\ work[w] \in Jobs /\ Current(w)
      /\ CycleStays \/ cycle' # cycle
  BY DEF SyncInv, TypeOK, Calm, CycleStays
<1> PICK r : r = work[w].row
  OBVIOUS
<1>2. /\ work[w].pc \in Syncing \cup Deleting => r \in Rows
      /\ work[w].pc \in Syncing => db[r] # Nil /\ work[w].ver = db[r].ver /\ work[w].key = db[r].key
      /\ work[w].pc \in Deleting => db[r] = Nil
  BY <1>1 DEF JobOK, Current, Writing, Syncing, Deleting
\* A call fails, or it was the last.
<1>3. ASSUME UNCHANGED <<db, snap, commits>>, ClusterKeeps, Finish(w) \/ Reject(w) PROVE Keeps
  <2>1. CycleStays
    BY <1>3, FinishStep, RejectStep DEF Unchanged
  <2>2. \A u \in Workers : JobStays(u) \/ work'[u] = Idle
    BY <1>1, <1>3 DEF Finish, Reject, TypeOK, JobStays
  <2> QED
    BY <1>3, <2>1, <2>2, EndsCalmly
<1>4. ASSUME UNCHANGED <<db, snap, commits, cr, secrets>>, Finish(w) \/ Reject(w) PROVE Keeps
  BY <1>3, <1>4, QuietCluster
<1>5. CASE AbandonUpdate(w)
  BY <1>5, <1>4 DEF AbandonUpdate, DeleteLegacy
<1>6. CASE ReadSecret(w)
  <2>1. PICK pc \in {"createSecret", "replaceSecret"} : Advance(w, pc, {})
    BY <1>6 DEF ReadSecret
  <2>2. UNCHANGED <<db, snap, cycle, cr, secrets>> /\ work[w].pc = "readSecret"
    BY <1>6 DEF ReadSecret
  <2>3. work[w].pc \in Writing /\ pc \notin Deleting /\ pc \notin PastSecret /\ pc # "list"
    BY <2>2 DEF Writing, Syncing, Deleting, PastSecret
  <2> QED
    BY <2>1, <2>2, <2>3, AdvancesCalmly, QuietCluster DEF DeleteLegacy
<1>7. CASE ReplaceSecret(w) \/ CreateSecret(w)
  <2>1. work[w].pc \in Syncing /\ work[w].pc # "deleteLegacy" /\ UNCHANGED <<db, snap, commits, cr>>
    BY <1>7 DEF ReplaceSecret, CreateSecret, Syncing
  <2>2. CASE Reject(w) /\ secrets' = secrets
    BY <2>1, <2>2, <1>4 DEF DeleteLegacy
  <2>3. CASE /\ secrets' = [secrets EXCEPT ![SecretName(r)] = work[w].key] /\ UNCHANGED cycle
             /\ Advance(w, "readResource", {u \in Workers : HoldsSecret(u, SecretName(r))})
    <3>1. ClusterKeeps /\ HasSecret(r)'
      BY <1>2, <2>1, <2>3, SecretWritten
    <3>2. work[w].pc \in Writing /\ "readResource" \notin Deleting
      BY <2>1 DEF Writing, Deleting
    <3> QED
      BY <2>1, <2>3, <3>1, <3>2, AdvancesCalmly DEF DeleteLegacy
  <2> QED
    BY <1>7, <2>2, <2>3 DEF ReplaceSecret, CreateSecret
<1>8. CASE ReadResource(w)
  <2>1. PICK pc \in {"createResource", "replaceResource"} : Advance(w, pc, {})
    BY <1>8 DEF ReadResource
  <2>2. UNCHANGED <<db, snap, cycle, cr, secrets>> /\ work[w].pc = "readResource"
    BY <1>8 DEF ReadResource
  <2>3. work[w].pc \in Writing /\ pc \notin Deleting /\ pc # "deleteLegacy" /\ pc # "list"
    BY <2>2 DEF Writing, Syncing, Deleting
  <2>4. HasSecret(r)'
    BY <1>1, <2>2 DEF Current, PastSecret, HasSecret
  <2> QED
    BY <2>1, <2>2, <2>3, <2>4, AdvancesCalmly, QuietCluster DEF DeleteLegacy
<1>9. CASE ReplaceResource(w) \/ CreateResource(w)
  <2>1. /\ work[w].pc \in Syncing /\ work[w].pc \in PastSecret /\ work[w].pc # "deleteLegacy"
        /\ UNCHANGED <<db, snap, commits, secrets>>
    BY <1>9 DEF ReplaceResource, CreateResource, Syncing, PastSecret
  <2>2. CASE Reject(w) /\ cr' = cr
    BY <2>1, <2>2, <1>4 DEF DeleteLegacy
  <2>3. ASSUME NEW object, object = [ver |-> db[r].ver, deleting |-> FALSE], UNCHANGED cycle,
               WriteResource(w, r, object, "deleteLegacy")
        PROVE  Keeps
    <3>1. ClusterKeeps /\ HasResource(r)'
      BY <1>2, <2>1, <2>3, ResourceWritten DEF WriteResource
    <3>2. HasSecret(r)'
      BY <1>1, <2>1 DEF Current, HasSecret
    <3>3. work[w].pc \in Writing /\ "deleteLegacy" \notin Deleting
      BY <2>1 DEF Writing, Deleting
    <3> QED
      BY <2>1, <2>3, <3>1, <3>2, <3>3, AdvancesCalmly DEF WriteResource
  <2>4. cr[r] # Nil => [cr[r] EXCEPT !.ver = work[w].ver] = [ver |-> db[r].ver, deleting |-> FALSE]
    <3>1. r \in Rows /\ db[r] # Nil /\ work[w].ver = db[r].ver
      BY <1>2, <2>1
    <3>2. cr[r] # Nil => cr[r] \in [ver : Versions, deleting : BOOLEAN] /\ ~cr[r].deleting
      BY <1>1, <3>1 DEF TypeOK, Calm
    <3>3. ASSUME NEW v \in Versions, NEW c \in [ver : Versions, deleting : BOOLEAN], ~c.deleting
          PROVE  [c EXCEPT !.ver = v] = [ver |-> v, deleting |-> FALSE]
      <4>1. /\ [c EXCEPT !.ver = v] \in [ver : Versions, deleting : BOOLEAN]
            /\ [c EXCEPT !.ver = v].ver = v /\ [c EXCEPT !.ver = v].deleting = FALSE
        BY <3>3
      <4>2. ASSUME NEW d \in [ver : Versions, deleting : BOOLEAN], d.ver = v, d.deleting = FALSE
            PROVE  d = [ver |-> v, deleting |-> FALSE]
        BY <4>2
      <4> QED
        BY <4>1, <4>2
    <3>4. ASSUME cr[r] # Nil
          PROVE  [cr[r] EXCEPT !.ver = work[w].ver] = [ver |-> work[w].ver, deleting |-> FALSE]
      BY <1>1, <3>2, <3>3, <3>4 DEF Jobs
    <3> QED
      BY <3>1, <3>4
  <2>5. [ver |-> work[w].ver, deleting |-> FALSE] = [ver |-> db[r].ver, deleting |-> FALSE]
    BY <1>2, <2>1
  <2> QED
    BY <1>9, <2>1, <2>2, <2>3, <2>4, <2>5 DEF ReplaceResource, CreateResource, DeleteLegacy
<1>10. CASE DeleteLegacy(w)
  <2>1. /\ work[w].pc = "deleteLegacy" /\ r \in Rows /\ UNCHANGED <<db, snap, commits, cr>>
        /\ secrets' = [secrets EXCEPT ![LegacyName(r)] = Nil] /\ Finish(w)
    BY <1>2, <1>10 DEF DeleteLegacy, Syncing
  <2>2. ClusterKeeps /\ secrets'[LegacyName(r)] = Nil
    BY <2>1, LegacyDeleted
  <2>3. Keeps
    BY <2>1, <2>2, <1>3
  <2>4. HasSecret(r) /\ HasResource(r) /\ db[r] # Nil
    BY <1>1, <1>2, <2>1 DEF Current, PastSecret, Syncing
  <2>5. Agrees(r)'
    BY <2>1, <2>2, <2>4 DEF ClusterKeeps, Agrees
  <2> QED
    BY <2>1, <2>3, <2>5
<1>11. CASE DeleteResource(w)
  <2>1. /\ work[w].pc \in Deleting /\ work[w].pc # "deleteLegacy" /\ r \in Rows /\ db[r] = Nil
        /\ UNCHANGED <<db, snap, secrets, cycle>>
    BY <1>2, <1>11 DEF DeleteResource, Deleting
  <2>2. PICK S : Advance(w, "deleteSecret", S)
    BY <1>11 DEF DeleteResource, WriteResource
  <2>3. ClusterKeeps
    <3>1. CASE cr' = cr
      BY <2>1, <3>1, QuietCluster
    <3>2. CASE cr[r] # Nil /\ cr' = [cr EXCEPT ![r] = [cr[r] EXCEPT !.deleting = TRUE]]
      BY <2>1, <3>2, ResourceWritten
    <3> QED
      BY <1>11, <3>1, <3>2 DEF DeleteResource, WriteResource
  <2>4. "deleteSecret" \notin Writing /\ "deleteSecret" \notin PastSecret
    BY DEF Writing, Syncing, PastSecret
  <2> QED
    BY <2>1, <2>2, <2>3, <2>4, AdvancesCalmly DEF DeleteLegacy
<1>12. CASE DeleteSecret(w)
  <2>1. /\ work[w].pc # "deleteLegacy" /\ r \in Rows /\ db[r] = Nil
        /\ UNCHANGED <<db, snap, commits, cr>>
        /\ secrets' = [secrets EXCEPT ![SecretName(r)] = Nil] /\ Finish(w)
    BY <1>2, <1>12 DEF DeleteSecret, Deleting
  <2> QED
    BY <2>1, <1>3, SecretDeleted DEF DeleteLegacy
<1>13. ~ContinueUpdate(w)
  BY <1>1 DEF ContinueUpdate, CommitUpdate, TypeOK, Versions
<1> QED
  BY <1>5, <1>6, <1>7, <1>8, <1>9, <1>10, <1>11, <1>12, <1>13 DEF Step

\* The row is read again: the job that follows knows what the database says.
LEMMA CalmFetch ==
    ASSUME SyncInv, Calm, NEW w \in Workers, FetchRow(w)
    PROVE  Keeps
<1> USE DEF cluster, budget
<1>1. work \in [Workers -> Jobs] /\ JobOK(w)
  BY DEF SyncInv, TypeOK
<1>2. work[w].pc = "fetch" /\ UNCHANGED <<db, commits, snap, cr, secrets>> /\ ClusterKeeps
  BY QuietCluster DEF FetchRow
<1> PICK r : r = work[w].row
  OBVIOUS
<1>3. CASE Finish(w)
  <2>1. CycleStays
    BY <1>2, <1>3, FinishStep DEF Unchanged
  <2>2. \A u \in Workers : JobStays(u) \/ work'[u] = Idle
    BY <1>1, <1>3 DEF Finish, JobStays
  <2> QED
    BY <1>2, <2>1, <2>2, EndsCalmly
<1>4. CASE /\ db[r] # Nil /\ UNCHANGED cycle
           /\ work' = [work EXCEPT ![w] = Job("readSecret", r, db[r].ver, db[r].key)]
  <2>1. work'[w] = Job("readSecret", r, db[r].ver, db[r].key)
    BY <1>1, <1>4
  <2>2. Current(w)'
    BY <1>2, <1>4, <2>1 DEF Current, Job, Deleting, PastSecret
  <2>3. \A u \in Workers : u # w => JobStays(u)
    BY <1>1, <1>4 DEF JobStays
  <2>4. \A u \in Workers : Current(u)'
    BY <1>2, <2>2, <2>3, StaysCurrent
  <2>5. \A k \in Kinds : WillUse(k)' => WillUse(k)
    <3>1. work'[w].pc # "list"
      BY <2>1 DEF Job
    <3>2. \A k \in Kinds : <<"list", k>> \in Workers
      BY DEF Workers
    <3> QED
      BY <1>4, <2>3, <3>1, <3>2 DEF WillUse, JobStays
  <2> QED
    BY <1>2, <2>4, <2>5, CalmKept, SnapshotsStay
<1> QED
  BY <1>3, <1>4 DEF FetchRow

\* The prune step lists a kind: what it removes is absent from the database.
LEMMA CalmList ==
    ASSUME SyncInv, Calm, NEW w \in Workers, ListStale(w)
    PROVE  Keeps
<1> USE DEF cluster, budget
<1>1. /\ work \in [Workers -> Jobs] /\ JobOK(w)
      /\ snap \in [Kinds -> [rows : SUBSET Rows, asOf : Versions]]
      /\ UNCHANGED <<db, commits, cr, secrets>> /\ ClusterKeeps
  BY QuietCluster DEF SyncInv, TypeOK, ListStale
<1>2. PICK k \in Kinds : w = <<"list", k>>
  BY <1>1 DEF ListStale, JobOK, Workers
<1> DEFINE removals == {"prune"} \X Stale(k)
<1>3. /\ work[w].pc = "list"
      /\ work' = [u \in Workers |->
                     IF u = w THEN Idle
                     ELSE IF u \in removals
                          THEN Job("deleteResource", u[2], snap[k].asOf, 0)
                     ELSE work[u]]
      /\ snap' = [snap EXCEPT ![k] = NoSnapshot]
      /\ cycle' = [cycle EXCEPT !.waiting = (@ \ {w}) \cup removals] \/ cycle' = cycle
  BY <1>2 DEF ListStale
<1>4. ASSUME NEW u \in removals PROVE db[u[2]] = Nil
  <2>1. Complete(k)
    BY <1>2, <1>3 DEF Calm, WillUse
  <2>2. u[2] \in Rows /\ Kind(u[2]) = k /\ u[2] \notin snap[k].rows
    BY DEF Stale
  <2> QED
    BY <2>1, <2>2 DEF Complete, PresentRows
<1>5. ASSUME NEW u \in Workers PROVE Current(u)'
  <2>1. CASE u \in removals /\ u # w
    <3>1. work'[u].pc = "deleteResource" /\ work'[u].row = u[2]
      BY <1>3, <2>1 DEF Job
    <3>2. db'[work'[u].row] = Nil
      BY <1>1, <1>4, <2>1, <3>1
    <3> QED
      BY <3>1, <3>2 DEF Current, Writing, Syncing, PastSecret
  <2>2. CASE u \notin removals \/ u = w
    <3>1. JobStays(u) \/ work'[u] = Idle
      BY <1>3, <2>2 DEF JobStays
    <3> QED
      BY <1>1, <3>1, StaysCurrent
  <2> QED
    BY <2>1, <2>2
<1>6. ASSUME NEW l \in Kinds, WillUse(l)' PROVE Complete(l)'
  <2>1. cycle'.pc = cycle.pc /\ cycle'.unread = cycle.unread
    BY <1>3 DEF SyncInv, TypeOK
  <2>2. CASE l = k
    <3>1. work'[w].pc = "idle"
      BY <1>3 DEF Idle, Job
    <3>2. cycle.pc \in {"read", "sync"} /\ k \notin cycle.unread
      BY <1>2, <1>6, <2>1, <2>2, <3>1 DEF WillUse
    <3> QED
      BY <1>2, <1>3, <3>2 DEF SyncInv, SnapshotOK
  <2>3. CASE l # k
    <3>1. <<"list", l>> \in Workers /\ <<"list", l>> # w /\ <<"list", l>> \notin removals
      BY <1>2, <2>3 DEF Workers
    <3>2. work'[<<"list", l>>] = work[<<"list", l>>] /\ snap'[l] = snap[l]
      BY <1>1, <1>3, <2>3, <3>1
    <3> QED
      BY <1>1, <1>6, <2>1, <3>2 DEF WillUse, Calm, Complete, PresentRows
  <2> QED
    BY <2>2, <2>3
<1> QED
  BY <1>1, <1>5, <1>6, CalmKept

\* The steps of the timer's cycle.
LEMMA CalmCycle ==
    ASSUME SyncInv, Calm, CycleStep
    PROVE  Keeps
<1> USE DEF cluster, budget
<1>1. work \in [Workers -> Jobs] /\ snap \in [Kinds -> [rows : SUBSET Rows, asOf : Versions]]
  BY DEF SyncInv, TypeOK
<1>2. UNCHANGED <<db, cr, secrets>> /\ ClusterKeeps
  BY QuietCluster DEF CycleStep, StartCycle, LoadTable, StartSyncs, SkipPrune, StartPrune, EndCycle
<1>3. \A k \in Kinds : <<"list", k>> \in Workers
  BY DEF Workers
<1>4. CASE StartCycle \/ SkipPrune \/ EndCycle
  <2>1. UNCHANGED <<work, snap>>
    BY <1>4 DEF StartCycle, SkipPrune, EndCycle
  <2>2. \A u \in Workers : Current(u)'
    BY <1>2, <2>1, StaysCurrent DEF JobStays
  <2>3. \A k \in Kinds : WillUse(k)' => WillUse(k)
    <3>1. cycle'.pc \in {"read", "sync"} => cycle'.unread = Kinds
      <4>1. CASE StartCycle
        BY <4>1 DEF StartCycle, NoCycle
      <4>2. CASE cycle' = NoCycle
        BY <4>2 DEF NoCycle
      <4> QED
        BY <1>4, <4>1, <4>2 DEF SkipPrune, EndCycle
    <3> QED
      BY <2>1, <3>1 DEF WillUse
  <2> QED
    BY <1>2, <2>1, <2>2, <2>3, CalmKept, SnapshotsStay
<1>5. ASSUME NEW k \in Kinds, LoadTable(k) PROVE Keeps
  <2>1. ASSUME NEW u \in Workers PROVE Current(u)'
    <3>1. CASE u[1] = "cycle" /\ u[2] \in PresentRows(k)
      <4> PICK r : r = u[2]
        OBVIOUS
      <4>1. work'[u] = Job("loaded", r, db[r].ver, db[r].key) /\ db[r] # Nil
        BY <1>5, <3>1 DEF LoadTable, PresentRows
      <4> QED
        BY <1>2, <4>1 DEF Current, Job, Deleting, PastSecret
    <3>2. CASE ~(u[1] = "cycle" /\ u[2] \in PresentRows(k))
      <4>1. work'[u] = work[u]
        BY <1>5, <3>2 DEF LoadTable
      <4> QED
        BY <1>2, <4>1, StaysCurrent DEF JobStays
    <3> QED
      BY <3>1, <3>2
  <2>2. ASSUME NEW l \in Kinds, WillUse(l)' PROVE Complete(l)'
    <3>1. CASE l = k
      <4>1. snap'[k].rows = PresentRows(k)
        BY <1>1, <1>5 DEF LoadTable
      <4> QED
        BY <1>2, <3>1, <4>1 DEF Complete, PresentRows
    <3>2. CASE l # k
      <4>1. work'[<<"list", l>>] = work[<<"list", l>>] /\ snap'[l] = snap[l]
        BY <1>1, <1>3, <1>5, <3>2 DEF LoadTable
      <4>2. cycle'.pc = cycle.pc /\ cycle'.unread = cycle.unread \ {k}
        BY <1>5 DEF LoadTable, SyncInv, TypeOK
      <4> QED
        BY <1>2, <2>2, <3>2, <4>1, <4>2 DEF WillUse, Calm, Complete, PresentRows
    <3> QED
      BY <3>1, <3>2
  <2> QED
    BY <1>2, <2>1, <2>2, CalmKept
<1>6. CASE StartSyncs
  <2>1. /\ UNCHANGED snap /\ cycle.pc = "read" /\ cycle.unread = {}
        /\ work' = [u \in Workers |-> IF u \in Loaded THEN [work[u] EXCEPT !.pc = "readSecret"]
                                      ELSE work[u]]
    BY <1>6 DEF StartSyncs
  <2>2. ASSUME NEW u \in Workers PROVE Current(u)' /\ (work'[u].pc = "list" => work[u].pc = "list")
    <3>1. CASE u \in Loaded
      <4>1. /\ work'[u].pc = "readSecret" /\ work'[u].row = work[u].row
            /\ work'[u].ver = work[u].ver /\ work'[u].key = work[u].key
        BY <1>1, <2>1, <3>1 DEF Jobs
      <4>2. Current(u) /\ work[u].pc \in Writing
        BY <3>1 DEF Calm, Loaded, Writing
      <4> QED
        BY <1>2, <4>1, <4>2 DEF Current, Deleting, PastSecret
    <3>2. CASE u \notin Loaded
      <4>1. work'[u] = work[u]
        BY <2>1, <3>2
      <4> QED
        BY <1>2, <4>1, StaysCurrent DEF JobStays
    <3> QED
      BY <3>1, <3>2
  <2>3. \A k \in Kinds : WillUse(k)' => WillUse(k)
    BY <1>3, <2>1, <2>2 DEF WillUse
  <2> QED
    BY <1>2, <2>1, <2>2, <2>3, CalmKept, SnapshotsStay
<1>7. CASE StartPrune
  <2>1. UNCHANGED snap /\ cycle.pc = "sync" /\ cycle.unread = {}
    BY <1>7 DEF StartPrune, SyncInv, CycleOK
  <2>2. ASSUME NEW u \in Workers PROVE Current(u)'
    <3>1. CASE work'[u] = work[u]
      BY <1>2, <3>1, StaysCurrent DEF JobStays
    <3>2. CASE work'[u] = Job("list", Nil, 0, 0)
      BY <3>2 DEF Current, Job, Deleting, Writing, Syncing, PastSecret
    <3> QED
      BY <1>7, <3>1, <3>2 DEF StartPrune
  <2>3. \A k \in Kinds : Complete(k)'
    BY <1>2, <2>1 DEF Calm, WillUse, Complete, PresentRows
  <2> QED
    BY <1>2, <2>2, <2>3, CalmKept
<1> QED
  BY <1>4, <1>5, <1>6, <1>7 DEF CycleStep

\* Failures, crashes, the operator and the garbage collector.
LEMMA CalmEnvironment ==
    ASSUME SyncInv, Calm, Environment
    PROVE  Keeps
<1> USE DEF cluster, budget
<1>1. work \in [Workers -> Jobs]
  BY DEF SyncInv, TypeOK
<1>2. ASSUME UNCHANGED cycle \/ cycle' = NoCycle PROVE CycleStays
  <2>1. CASE UNCHANGED cycle
    BY <2>1 DEF SyncInv, TypeOK, CycleStays
  <2>2. CASE cycle' = NoCycle
    BY <2>2 DEF NoCycle, CycleStays
  <2> QED
    BY <1>2, <2>1, <2>2
<1>3. ASSUME NEW w \in Workers, FailCall(w) PROVE Keeps
  <2>1. CycleStays
    BY <1>3, RejectStep DEF FailCall, Unchanged
  <2>2. \A u \in Workers : JobStays(u) \/ work'[u] = Idle
    BY <1>1, <1>3 DEF FailCall, Reject, JobStays
  <2> QED
    BY <1>3, <2>1, <2>2, EndsCalmly, QuietCluster DEF FailCall
<1>4. CASE FailRead
  <2>1. \A u \in Workers : JobStays(u) \/ work'[u] = Idle
    BY <1>4 DEF FailRead, JobStays
  <2> QED
    BY <1>2, <1>4, <2>1, EndsCalmly, QuietCluster DEF FailRead
<1>5. CASE Crash
  <2>1. ClusterKeeps /\ UNCHANGED db /\ cycle' = NoCycle /\ \A u \in Workers : work'[u] = Idle
    BY <1>5, QuietCluster DEF Crash
  <2>2. \A u \in Workers : Current(u)'
    BY <2>1, StaysCurrent
  <2>3. \A k \in Kinds : ~WillUse(k)'
    BY <2>1 DEF WillUse, NoCycle, Workers, Idle, Job
  <2> QED
    BY <2>1, <2>2, <2>3, CalmKept
<1>6. ASSUME NEW r \in Rows, OperatorWritesStatus(r) PROVE Keeps
  <2>1. \A u \in Workers : work'[u] = work[u] \/ work'[u] = [work[u] EXCEPT !.fresh = FALSE]
    BY <1>6 DEF OperatorWritesStatus
  <2>2. \A u \in Workers : JobStays(u)
    BY <1>1, <2>1 DEF JobStays, Jobs
  <2> QED
    BY <1>2, <1>6, <2>2, EndsCalmly, QuietCluster DEF OperatorWritesStatus
<1>7. ASSUME NEW r \in Rows, CollectGarbage(r) PROVE Keeps
  <2>1. db[r] = Nil /\ cr' = [cr EXCEPT ![r] = Nil]
    BY <1>7 DEF CollectGarbage, Calm
  <2>2. ClusterKeeps
    BY <1>7, <2>1, ResourceWritten DEF CollectGarbage
  <2>3. \A u \in Workers : JobStays(u)
    BY <1>7 DEF CollectGarbage, JobStays
  <2> QED
    BY <1>2, <1>7, <2>2, <2>3, EndsCalmly DEF CollectGarbage
<1> QED
  BY <1>3, <1>4, <1>5, <1>6, <1>7 DEF Environment

\* No chain runs after an upgrade.
LEMMA CalmAtFirst == Init => Calm
<1> SUFFICES ASSUME Init PROVE Calm
  OBVIOUS
<1>1. \A u \in Workers : work[u].pc = "idle"
  BY DEF Init, Idle, Job
<1>2. \A k \in Kinds : <<"list", k>> \in Workers
  BY DEF Workers
<1> QED
  BY <1>1, <1>2 DEF Init, Calm, Current, WillUse, NoCycle, Deleting, Writing, Syncing, PastSecret

\* Unless a request commits, what is calm stays calm, rows that agree with the
\* database go on to agree, and the synchronization of a row that comes to its end
\* has made it agree.
AgreementGrows ==
    [][NoNameCollision /\ Calm /\ UNCHANGED commits =>
        /\ Keeps
        /\ \A w \in Workers : DeleteLegacy(w) => \E r \in Rows : r = work[w].row /\ Agrees(r)']_vars

\* Convergence, as far as single steps go: failures, crashes, the prune step, other
\* rows and stale reads never undo what a synchronization has achieved once no chain
\* knows less than the database (operator-resource-sync.ts as a whole).
THEOREM WhatAgreesStays == Spec => AgreementGrows
<1>1. ASSUME SyncInv, [Next]_vars, NoNameCollision, Calm, UNCHANGED commits
      PROVE  /\ Keeps
             /\ \A w \in Workers : DeleteLegacy(w) => \E r \in Rows : r = work[w].row /\ Agrees(r)'
  <2>1. ASSUME NEW w \in Workers, DeleteLegacy(w)
        PROVE  Keeps /\ \E r \in Rows : r = work[w].row /\ Agrees(r)'
    <3>1. Step(w) /\ ~ListStale(w) /\ ~FetchRow(w)
      BY <2>1 DEF Step, DeleteLegacy, ListStale, FetchRow
    <3> QED
      BY <1>1, <2>1, <3>1, CalmCall
  <2>2. Keeps
    <3>1. CASE UNCHANGED vars
      <4>1. ClusterKeeps /\ CycleStays /\ \A u \in Workers : JobStays(u)
        BY <1>1, <3>1, QuietCluster DEF vars, JobStays, SyncInv, TypeOK, CycleStays
      <4> QED
        BY <1>1, <3>1, <4>1, EndsCalmly DEF vars
    <3>2. ASSUME NEW w \in {"request"} \X Requests, RequestStarts(w) PROVE FALSE
      BY <1>1, <3>2 DEF RequestStarts, CreateRow, UpdateRow, CommitUpdate, DeleteRow,
                        SyncInv, TypeOK, Versions
    <3>3. ASSUME NEW w \in Workers, Step(w) PROVE Keeps
      BY <1>1, <3>3, CalmCall, CalmFetch, CalmList
    <3> QED
      BY <1>1, <3>1, <3>2, <3>3, CalmCycle, CalmEnvironment DEF Next
  <2> QED
    BY <2>1, <2>2
<1>2. SyncInv /\ [Next]_vars =>
        [NoNameCollision /\ Calm /\ UNCHANGED commits =>
            /\ Keeps
            /\ \A w \in Workers : DeleteLegacy(w) => \E r \in Rows : r = work[w].row /\ Agrees(r)']_vars
  BY <1>1
<1> QED
  BY <1>2, SyncInvariant, PTL DEF Spec, AgreementGrows
=============================================================================
