-------------------------- MODULE Bootstrap_proofs --------------------------
(***************************************************************************)
(* What holds of the first-run setup for any number of submissions, any    *)
(* pool, any failures, expiries and restarts.                              *)
(***************************************************************************)
EXTENDS Bootstrap, FiniteSetTheorems, TLAPS

\* Past the lock and not yet answered.
Critical == {"count", "create", "link", "commit"}

\* An account belongs to a request that inserted it and is past that.
Owned == \A u \in users : pc[u] \in Answers \cup {"link", "commit"}

\* A request that created an account commits after its credential is stored.
Linked == \A q \in users : pc[q] = "commit" => q \in credentials

\* What needs no lock.
Storing == TypeOK /\ Owned /\ Linked /\ SuccessIsUsable

\* Nothing is past the lock in time without holding it.
Exclusive == \A q \in Requests : pc[q] \in Critical /\ q \notin late => lock = q

\* While a transaction in time is about to create its account, the only accounts are
\* those of expired ones, and nobody was told that the setup is complete.
CountHolds ==
    \A q \in Requests : pc[q] = "create" /\ q \notin late =>
        users \subseteq late /\ \A r \in Requests : pc[r] # "already"

\* A request stores a credential, commits or was told "already" only when there is
\* an account.
Seen == \A q \in Requests : pc[q] \in {"link", "commit", "already"} => users # {}

\* What the lock ensures.
Locking == Exclusive /\ CountHolds /\ Seen /\ OneAdministratorInTime /\ AlreadyIsSettled

LEMMA TypeInit == Init => TypeOK
  BY BoundAssumption DEF Init, TypeOK

\* Every step keeps the type.
LEMMA TypeNext == TypeOK /\ [Next]_vars => TypeOK'
<1> SUFFICES ASSUME TypeOK, [Next]_vars PROVE TypeOK'
  OBVIOUS
<1> USE BoundAssumption, NilAssumption DEF TypeOK, InProgress, Answers
<1>1. ASSUME NEW q \in Requests, Submit(q) PROVE TypeOK'
  BY <1>1 DEF Submit, Go
<1>2. ASSUME NEW q \in Requests, Begin(q) PROVE TypeOK'
  BY <1>2 DEF Begin, Go
<1>3. ASSUME NEW q \in Requests, BeginTimesOut(q) PROVE TypeOK'
  BY <1>3 DEF BeginTimesOut, Go
<1>4. ASSUME NEW q \in Requests, Lock(q) PROVE TypeOK'
  BY <1>4 DEF Lock, Go
<1>5. ASSUME NEW q \in Requests, LockTooLate(q) PROVE TypeOK'
  BY <1>5 DEF LockTooLate, Go
<1>6. ASSUME NEW q \in Requests, Count(q) PROVE TypeOK'
  BY <1>6 DEF Count
<1>7. ASSUME NEW q \in Requests, InsertUser(q) PROVE TypeOK'
  BY <1>7 DEF InsertUser, Go
<1>8. ASSUME NEW q \in Requests, InsertCredential(q) PROVE TypeOK'
  BY <1>8 DEF InsertCredential, Go
<1>9. ASSUME NEW q \in Requests, Commit(q) PROVE TypeOK'
  BY <1>9 DEF Commit, Go, Release
<1>10. ASSUME NEW q \in Requests, Expire(q) PROVE TypeOK'
  BY <1>10 DEF Expire, Release
<1>11. ASSUME NEW q \in Requests, Fail(q) PROVE TypeOK'
  BY <1>11 DEF Fail, Release
<1>12. ASSUME Crash PROVE TypeOK'
  BY <1>12 DEF Crash
<1>13. CASE UNCHANGED vars
  BY <1>13 DEF vars
<1> QED
  BY <1>1, <1>2, <1>3, <1>4, <1>5, <1>6, <1>7, <1>8, <1>9, <1>10, <1>11, <1>12, <1>13
     DEF Next, Handle

-----------------------------------------------------------------------------
\* Every step keeps the accounts with the requests that made them.
LEMMA StoringNext == Storing /\ [Next]_vars => Storing'
<1> SUFFICES ASSUME Storing, [Next]_vars PROVE Owned' /\ Linked' /\ SuccessIsUsable'
  BY TypeNext DEF Storing
<1> USE NilAssumption DEF Storing, TypeOK, Owned, Linked, SuccessIsUsable, InProgress, Answers
<1>1. ASSUME NEW q \in Requests, Submit(q) PROVE (Owned /\ Linked /\ SuccessIsUsable)'
  BY <1>1 DEF Submit, Go
<1>2. ASSUME NEW q \in Requests, Begin(q) PROVE (Owned /\ Linked /\ SuccessIsUsable)'
  BY <1>2 DEF Begin, Go
<1>3. ASSUME NEW q \in Requests, BeginTimesOut(q) PROVE (Owned /\ Linked /\ SuccessIsUsable)'
  BY <1>3 DEF BeginTimesOut, Go
<1>4. ASSUME NEW q \in Requests, Lock(q) PROVE (Owned /\ Linked /\ SuccessIsUsable)'
  BY <1>4 DEF Lock, Go
<1>5. ASSUME NEW q \in Requests, LockTooLate(q) PROVE (Owned /\ Linked /\ SuccessIsUsable)'
  BY <1>5 DEF LockTooLate, Go
<1>6. ASSUME NEW q \in Requests, Count(q) PROVE (Owned /\ Linked /\ SuccessIsUsable)'
  BY <1>6 DEF Count
<1>7. ASSUME NEW q \in Requests, InsertUser(q) PROVE (Owned /\ Linked /\ SuccessIsUsable)'
  BY <1>7 DEF InsertUser, Go
<1>8. ASSUME NEW q \in Requests, InsertCredential(q) PROVE (Owned /\ Linked /\ SuccessIsUsable)'
  BY <1>8 DEF InsertCredential, Go
<1>9. ASSUME NEW q \in Requests, Commit(q) PROVE (Owned /\ Linked /\ SuccessIsUsable)'
  BY <1>9 DEF Commit, Go, Release
<1>10. ASSUME NEW q \in Requests, Expire(q) PROVE (Owned /\ Linked /\ SuccessIsUsable)'
  BY <1>10 DEF Expire, Release
<1>11. ASSUME NEW q \in Requests, Fail(q) PROVE (Owned /\ Linked /\ SuccessIsUsable)'
  BY <1>11 DEF Fail, Release
<1>12. ASSUME Crash PROVE (Owned /\ Linked /\ SuccessIsUsable)'
  BY <1>12 DEF Crash
<1>13. CASE UNCHANGED vars
  BY <1>13 DEF vars
<1> QED
  BY <1>1, <1>2, <1>3, <1>4, <1>5, <1>6, <1>7, <1>8, <1>9, <1>10, <1>11, <1>12, <1>13
     DEF Next, Handle

THEOREM StoringInvariant == Spec => []Storing
<1>1. Init => Storing
  BY TypeInit DEF Init, Storing, Owned, Linked, SuccessIsUsable
<1> QED
  BY <1>1, StoringNext, PTL DEF Spec

\* The state of the setup keeps its type, whatever fails or expires.
THEOREM TypeCorrect == Spec => []TypeOK
  BY StoringInvariant, PTL DEF Storing

\* Who is told "success" has an account and a password, whatever fails or expires.
THEOREM SuccessCanLogIn == Spec => []SuccessIsUsable
  BY StoringInvariant, PTL DEF Storing

-----------------------------------------------------------------------------
\* The lock covers the count and the creation of every transaction in time.
LEMMA LockingNext ==
    ASSUME Storing, Locking, [Next]_vars
    PROVE  Locking'
<1> USE NilAssumption DEF Storing, Locking, TypeOK, Owned, Exclusive, CountHolds, Seen,
        OneAdministratorInTime, AlreadyIsSettled, Critical, InProgress, Answers
<1>1. ASSUME NEW q \in Requests, Submit(q) PROVE Locking'
  BY <1>1 DEF Submit, Go
<1>2. ASSUME NEW q \in Requests, Begin(q) PROVE Locking'
  BY <1>2 DEF Begin, Go
<1>3. ASSUME NEW q \in Requests, BeginTimesOut(q) PROVE Locking'
  BY <1>3 DEF BeginTimesOut, Go
<1>4. ASSUME NEW q \in Requests, Lock(q) PROVE Locking'
  BY <1>4 DEF Lock, Go
<1>5. ASSUME NEW q \in Requests, LockTooLate(q) PROVE Locking'
  BY <1>5 DEF LockTooLate, Go
<1>6. ASSUME NEW q \in Requests, Count(q) PROVE Locking'
  BY <1>6 DEF Count
<1>7. ASSUME NEW q \in Requests, InsertUser(q) PROVE Locking'
  BY <1>7 DEF InsertUser, Go
<1>8. ASSUME NEW q \in Requests, InsertCredential(q) PROVE Locking'
  BY <1>8 DEF InsertCredential, Go
<1>9. ASSUME NEW q \in Requests, Commit(q) PROVE Locking'
  BY <1>9 DEF Commit, Go, Release
<1>10. ASSUME NEW q \in Requests, Expire(q) PROVE Locking'
  BY <1>10 DEF Expire, Release
<1>11. ASSUME NEW q \in Requests, Fail(q) PROVE Locking'
  BY <1>11 DEF Fail, Release
<1>12. ASSUME Crash PROVE Locking'
  BY <1>12 DEF Crash
<1>13. CASE UNCHANGED vars
  BY <1>13 DEF vars
<1> QED
  BY <1>1, <1>2, <1>3, <1>4, <1>5, <1>6, <1>7, <1>8, <1>9, <1>10, <1>11, <1>12, <1>13
     DEF Next, Handle

\* No two accounts come from transactions in time, and nobody is told "already" too
\* early: the lock is held from the count to the commit.
THEOREM AtMostOneInTime == Spec => [](OneAdministratorInTime /\ AlreadyIsSettled)
<1>1. Init => Locking
  BY DEF Init, Locking, Exclusive, CountHolds, Seen, OneAdministratorInTime,
         AlreadyIsSettled, Critical
<1>2. Storing /\ Locking /\ [Next]_vars => Locking'
  BY LockingNext
<1>3. Locking => OneAdministratorInTime /\ AlreadyIsSettled
  BY DEF Locking
<1> QED
  BY <1>1, <1>2, <1>3, StoringInvariant, PTL DEF Spec

-----------------------------------------------------------------------------
(* Nobody waits for good: the requests that wait for a connection, for the   *)
(* lock and for createUser's statements never all wait for each other.       *)

\* Who has a connection is in a transaction that is in time, or waits for the lock; who
\* has the lock is in time and past it; who waits for it has a connection.
Holding ==
    /\ \A q \in conn : pc[q] \in InProgress \ {"begin"} /\ (q \in late => pc[q] = "lock")
    /\ lock # Nil => lock \in conn /\ pc[lock] \in Critical
    /\ \A q \in Requests : pc[q] = "lock" => q \in conn

\* The guards of Handle(q) and Expire(q): a step of the request itself, or its timer.
CanHandle(q) ==
    \/ pc[q] \in {"begin", "count", "commit"}
    \/ pc[q] = "lock" /\ lock = Nil
    \/ pc[q] \in {"create", "link"} /\ FreeConnection
CanExpire(q) == pc[q] \in InProgress \ {"begin"} /\ q \notin late

\* Whatever waits, somebody's handler or timer can take a step.
SomebodyCanGoOn ==
    (\E q \in Requests : pc[q] \in InProgress) =>
        \E q \in Requests : CanHandle(q) \/ CanExpire(q)

\* An upper bound of the steps a request has before it is answered.
Place == [begin |-> 6, lock |-> 5, count |-> 4, create |-> 3, link |-> 2, commit |-> 1]
StepsLeft(q) ==
    IF pc[q] \in InProgress THEN 2 * Place[pc[q]] + (IF q \in late THEN 0 ELSE 1) ELSE 0

\* Each such step brings its own request nearer to its answer and sets none back.
ComesNearer ==
    \A q \in Requests : Handle(q) \/ Expire(q) =>
        /\ StepsLeft(q)' < StepsLeft(q)
        /\ \A r \in Requests \ {q} : StepsLeft(r)' = StepsLeft(r)

LEMMA HoldingNext ==
    ASSUME TypeOK, Holding, [Next]_vars
    PROVE  Holding'
<1> USE NilAssumption DEF TypeOK, Holding, Critical, InProgress, Answers
<1>1. ASSUME NEW q \in Requests, Submit(q) PROVE Holding'
  BY <1>1 DEF Submit, Go
<1>2. ASSUME NEW q \in Requests, Begin(q) PROVE Holding'
  BY <1>2 DEF Begin, Go
<1>3. ASSUME NEW q \in Requests, BeginTimesOut(q) PROVE Holding'
  BY <1>3 DEF BeginTimesOut, Go
<1>4. ASSUME NEW q \in Requests, Lock(q) PROVE Holding'
  BY <1>4 DEF Lock, Go
<1>5. ASSUME NEW q \in Requests, LockTooLate(q) PROVE Holding'
  BY <1>5 DEF LockTooLate, Go
<1>6. ASSUME NEW q \in Requests, Count(q) PROVE Holding'
  BY <1>6 DEF Count
<1>7. ASSUME NEW q \in Requests, InsertUser(q) PROVE Holding'
  BY <1>7 DEF InsertUser, Go
<1>8. ASSUME NEW q \in Requests, InsertCredential(q) PROVE Holding'
  BY <1>8 DEF InsertCredential, Go
<1>9. ASSUME NEW q \in Requests, Commit(q) PROVE Holding'
  BY <1>9 DEF Commit, Go, Release
<1>10. ASSUME NEW q \in Requests, Expire(q) PROVE Holding'
  BY <1>10 DEF Expire, Release
<1>11. ASSUME NEW q \in Requests, Fail(q) PROVE Holding'
  BY <1>11 DEF Fail, Release
<1>12. ASSUME Crash PROVE Holding'
  BY <1>12 DEF Crash
<1>13. CASE UNCHANGED vars
  BY <1>13 DEF vars
<1> QED
  BY <1>1, <1>2, <1>3, <1>4, <1>5, <1>6, <1>7, <1>8, <1>9, <1>10, <1>11, <1>12, <1>13
     DEF Next, Handle

\* A pool without a free connection is used by somebody who can go on.
LEMMA HolderGoesOn ==
    ASSUME TypeOK, Holding, conn # {}
    PROVE  \E q \in Requests : CanHandle(q) \/ CanExpire(q)
<1>1. PICK q \in conn : q \in Requests
  BY DEF TypeOK
<1>2. CASE q \notin late
  BY <1>1, <1>2 DEF Holding, CanExpire
<1>3. CASE q \in late /\ lock = Nil
  BY <1>1, <1>3 DEF Holding, CanHandle
<1>4. CASE lock # Nil
  <2>1. lock \in Requests /\ pc[lock] \in Critical /\ lock \notin late
    BY <1>4 DEF Holding, TypeOK, Critical
  <2> QED
    BY <2>1 DEF CanExpire, Critical, InProgress
<1> QED
  BY <1>2, <1>3, <1>4

LEMMA GoesOn ==
    ASSUME TypeOK, Holding
    PROVE  SomebodyCanGoOn
<1> SUFFICES ASSUME NEW q \in Requests, pc[q] \in InProgress
             PROVE  \E r \in Requests : CanHandle(r) \/ CanExpire(r)
  BY DEF SomebodyCanGoOn
<1>1. CASE conn # {}
  BY <1>1, HolderGoesOn
<1>2. CASE conn = {}
  <2>1. FreeConnection
    BY <1>2, FS_EmptySet, PoolAssumption DEF FreeConnection
  <2>2. lock = Nil
    BY <1>2 DEF Holding
  <2> QED
    BY <2>1, <2>2 DEF CanHandle, InProgress
<1> QED
  BY <1>1, <1>2

\* A step of a handler changes the place of its request only, and onwards.
LEMMA Nearer ==
    ASSUME TypeOK, NEW q \in Requests, Handle(q) \/ Expire(q)
    PROVE  /\ StepsLeft(q)' < StepsLeft(q)
           /\ \A r \in Requests \ {q} : StepsLeft(r)' = StepsLeft(r)
<1> USE DEF TypeOK
<1>1. \A r \in Requests \ {q} : pc'[r] = pc[r] /\ (r \in late' <=> r \in late)
  BY DEF Handle, Begin, BeginTimesOut, Lock, LockTooLate, Count, InsertUser, InsertCredential,
         Commit, Expire, Go
<1>2. \A r \in Requests \ {q} : StepsLeft(r)' = StepsLeft(r)
  BY <1>1 DEF StepsLeft
<1>3. CASE Expire(q)
  <2>1. pc'[q] = pc[q] /\ q \notin late /\ q \in late' /\ pc[q] \in InProgress
    BY <1>3 DEF Expire
  <2>2. \A p \in InProgress : Place[p] \in Nat
    BY DEF InProgress, Place
  <2>3. PICK n \in Nat : n = Place[pc[q]]
    BY <2>1, <2>2
  <2>4. StepsLeft(q) = 2 * n + 1 /\ StepsLeft(q)' = 2 * n + 0
    BY <2>1, <2>3 DEF StepsLeft
  <2> QED
    BY <1>2, <2>4
<1>4. CASE Handle(q)
  <2>1. late' = late
    BY <1>4 DEF Handle, Begin, BeginTimesOut, Lock, LockTooLate, Count, InsertUser,
                InsertCredential, Commit
  <2>2. <<pc[q], pc'[q]>> \in
            {<<"begin", "lock">>, <<"lock", "count">>, <<"count", "create">>, <<"count", "commit">>,
             <<"create", "link">>, <<"link", "commit">>}
            \cup ({"begin", "lock", "count", "commit"} \X Answers)
    BY <1>4 DEF Handle, Begin, BeginTimesOut, Lock, LockTooLate, Count, InsertUser,
                InsertCredential, Commit, Go, Answers
  <2>3. \A p \in Answers : p \notin InProgress
    BY DEF Answers, InProgress
  <2>4. StepsLeft(q)' < StepsLeft(q)
    BY <2>1, <2>2, <2>3 DEF StepsLeft, Place, InProgress
  <2> QED
    BY <1>2, <2>4
<1> QED
  BY <1>3, <1>4

\* The setup is free of deadlock and of endless work: there is always a step to take
\* until all are answered, also when the transactions that wait for the lock have every
\* connection createUser needs, and no more than thirteen of each request (bootstrap.ts, 26
\* to 50).
THEOREM NobodyWaitsForGood == Spec => []SomebodyCanGoOn /\ [][ComesNearer]_vars
<1>1. Init => Holding
  BY DEF Init, Holding
<1>2. TypeOK /\ Holding /\ [Next]_vars => Holding'
  BY HoldingNext
<1>3. Spec => []Holding
  BY <1>1, <1>2, TypeCorrect, PTL DEF Spec
<1>4. TypeOK /\ Holding => SomebodyCanGoOn
  BY GoesOn
<1>5. TypeOK => [ComesNearer]_vars
  BY Nearer DEF ComesNearer
<1> QED
  BY <1>3, <1>4, <1>5, TypeCorrect, PTL
=============================================================================
