------------------------------ MODULE Bootstrap ------------------------------
(***************************************************************************)
(* The first-run setup, POST /bootstrap/setup: while no account exists,    *)
(* anybody who reaches the backend may create the administrator.           *)
(*                                                                         *)
(* The handler runs in a transaction that takes an advisory lock, counts   *)
(* the accounts and creates one if there is none.  The account itself is   *)
(* created by better-auth, which uses the client of the process and not    *)
(* the transaction: on another connection of the same pool, in two         *)
(* statements (the user, then the credential), each committed at once.     *)
(* The transaction's 15 seconds may pass at any point; the callback does   *)
(* not notice before it uses the transaction again.                        *)
(***************************************************************************)
EXTENDS Naturals, FiniteSets

CONSTANTS
    Requests,    \* well-formed submissions; each is sent once
    Nil,         \* nobody holds the lock
    PoolSize,    \* connections of the pool (10, the default of pg)
    MaxFailures, \* bound: statements the database refuses or loses
    MaxCrashes   \* bound: restarts of the backend

ASSUME NilAssumption == Nil \notin Requests
ASSUME PoolAssumption == PoolSize \in Nat \ {0}
ASSUME BoundAssumption == MaxFailures \in Nat /\ MaxCrashes \in Nat

VARIABLES
    pc,          \* where each request is, or how it was answered
    conn,        \* requests whose transaction holds a connection of the pool
    lock,        \* the request that holds the advisory lock, or Nil
    late,        \* requests whose transaction has expired
    users,       \* accounts, by the request that created them
    credentials, \* accounts that have a password to log in with
    failures, crashes

vars == <<pc, conn, lock, late, users, credentials, failures, crashes>>

\* In progress: waiting for a connection, for the lock, about to count, to insert
\* the user, to insert the credential, to commit.
InProgress == {"begin", "lock", "count", "create", "link", "commit"}

\* The responses: 200, 400 "Setup already completed", 500; or none, after a crash.
Answers == {"success", "already", "error", "lost"}

\* The type of the state.
TypeOK ==
    /\ pc \in [Requests -> {"idle"} \cup InProgress \cup Answers]
    /\ conn \in SUBSET Requests
    /\ lock \in Requests \cup {Nil}
    /\ late \in SUBSET Requests
    /\ users \in SUBSET Requests
    /\ credentials \in SUBSET Requests
    /\ failures \in 0 .. MaxFailures
    /\ crashes \in 0 .. MaxCrashes

Init ==
    /\ pc = [q \in Requests |-> "idle"]
    /\ conn = {} /\ lock = Nil /\ late = {}
    /\ users = {} /\ credentials = {}
    /\ failures = 0 /\ crashes = 0

\* A connection is free for a statement or for a new transaction.
FreeConnection == Cardinality(conn) < PoolSize

\* The transaction ends: it gives back the connection and with it the lock.
Release(q) ==
    /\ conn' = conn \ {q}
    /\ lock' = IF lock = q THEN Nil ELSE lock

Go(q, from, to) == pc[q] = from /\ pc' = [pc EXCEPT ![q] = to]

Submit(q) ==
    /\ Go(q, "idle", "begin")
    /\ UNCHANGED <<conn, lock, late, users, credentials, failures, crashes>>

Begin(q) ==
    /\ Go(q, "begin", "lock")
    /\ FreeConnection
    /\ conn' = conn \cup {q}
    /\ UNCHANGED <<lock, late, users, credentials, failures, crashes>>

\* No connection became free in the two seconds a transaction waits to start.
BeginTimesOut(q) ==
    /\ Go(q, "begin", "error")
    /\ ~FreeConnection
    /\ UNCHANGED <<conn, lock, late, users, credentials, failures, crashes>>

\* Mutant of Lock: the advisory lock is gone as soon as its statement is done, as
\* if it were taken outside the transaction.
Lock_Statement(q) ==
    /\ q \notin late
    /\ Go(q, "lock", "count")
    /\ lock' = q
    /\ UNCHANGED <<conn, late, users, credentials, failures, crashes>>

Lock(q) ==
    /\ q \notin late
    /\ lock = Nil
    /\ Go(q, "lock", "count")
    /\ lock' = q
    /\ UNCHANGED <<conn, late, users, credentials, failures, crashes>>

\* Expired while it waited: the rollback is queued behind the lock statement, so
\* the connection comes back only when the lock is granted.
LockTooLate(q) ==
    /\ q \in late
    /\ lock = Nil
    /\ Go(q, "lock", "error")
    /\ conn' = conn \ {q}
    /\ UNCHANGED <<lock, late, users, credentials, failures, crashes>>

\* Mutant of Count: the branch without accounts is forgotten.
Count_Undefined(q) ==
    /\ pc[q] = "count"
    /\ pc' = [pc EXCEPT ![q] = IF q \in late THEN "error"
                               ELSE IF users # {} THEN "commit" ELSE "undefined"]
    /\ UNCHANGED <<conn, lock, late, users, credentials, failures, crashes>>

\* Counting on an expired transaction throws.
Count(q) ==
    /\ pc[q] = "count"
    /\ pc' = [pc EXCEPT ![q] = IF q \in late THEN "error"
                               ELSE IF users # {} THEN "commit" ELSE "create"]
    /\ UNCHANGED <<conn, lock, late, users, credentials, failures, crashes>>

\* auth.api.createUser, first statement.
InsertUser(q) ==
    /\ Go(q, "create", "link")
    /\ FreeConnection
    /\ users' = users \cup {q}
    /\ UNCHANGED <<conn, lock, late, credentials, failures, crashes>>

\* Mutant of InsertCredential: createUser returns before the credential is stored.
InsertCredential_Skipped(q) ==
    /\ Go(q, "link", "commit")
    /\ FreeConnection
    /\ UNCHANGED <<conn, lock, late, users, credentials, failures, crashes>>

\* auth.api.createUser, second statement.
InsertCredential(q) ==
    /\ Go(q, "link", "commit")
    /\ FreeConnection
    /\ credentials' = credentials \cup {q}
    /\ UNCHANGED <<conn, lock, late, users, failures, crashes>>

\* The callback returned; committing an expired transaction throws.
Commit(q) ==
    /\ Go(q, "commit", IF q \in late THEN "error"
                       ELSE IF q \in users THEN "success" ELSE "already")
    /\ Release(q)
    /\ UNCHANGED <<late, users, credentials, failures, crashes>>

\* Mutant of Expire: the timer only marks the transaction.
Expire_KeepsConnection(q) ==
    /\ pc[q] \in InProgress \ {"begin"}
    /\ q \notin late
    /\ late' = late \cup {q}
    /\ UNCHANGED <<pc, conn, lock, users, credentials, failures, crashes>>

\* The transaction's timeout.  It is rolled back at once, unless the connection is
\* still waiting for the lock; the callback goes on.
Expire(q) ==
    /\ pc[q] \in InProgress \ {"begin"}
    /\ q \notin late
    /\ late' = late \cup {q}
    /\ IF pc[q] = "lock" THEN UNCHANGED <<conn, lock>> ELSE Release(q)
    /\ UNCHANGED <<pc, users, credentials, failures, crashes>>

\* A statement fails: the callback throws and the transaction is rolled back.
\* Nothing undoes what createUser committed.
Fail(q) ==
    /\ failures < MaxFailures
    /\ pc[q] \in InProgress
    /\ pc' = [pc EXCEPT ![q] = "error"]
    /\ Release(q)
    /\ failures' = failures + 1
    /\ UNCHANGED <<late, users, credentials, crashes>>

\* The backend stops and starts again; the database rolls back what was open.
Crash ==
    /\ crashes < MaxCrashes
    /\ crashes' = crashes + 1
    /\ pc' = [q \in Requests |-> IF pc[q] \in InProgress THEN "lost" ELSE pc[q]]
    /\ conn' = {} /\ lock' = Nil
    /\ UNCHANGED <<late, users, credentials, failures>>

\* The handler's own steps.
Handle(q) ==
    \/ Begin(q) \/ BeginTimesOut(q) \/ Lock(q) \/ LockTooLate(q) \/ Count(q)
    \/ InsertUser(q) \/ InsertCredential(q) \/ Commit(q)

Next == Crash \/ \E q \in Requests : Submit(q) \/ Handle(q) \/ Expire(q) \/ Fail(q)

Spec == Init /\ [][Next]_vars

\* The event loop runs every callback that can run, and timers fire.
FairSpec == Spec /\ \A q \in Requests : WF_vars(Handle(q)) /\ WF_vars(Expire(q))

-----------------------------------------------------------------------------
(* Properties                                                              *)

\* However many submissions arrive together, at most one account is created by
\* transactions that end in time, whatever expired ones do beside them: the lock
\* and the count of the handler (bootstrap.ts, 26 and 27).
OneAdministratorInTime == \A u, v \in users \ late : u = v

\* Who is told "success" can log in: the response waits for both statements and
\* for the commit (bootstrap.ts, 52).
SuccessIsUsable == \A q \in Requests : pc[q] = "success" => q \in credentials

\* Who is told "Setup already completed" is not told so of an account that a
\* transaction still in time is creating (bootstrap.ts, 41).
AlreadyIsSettled ==
    \A q \in Requests : pc[q] = "already" => \A u \in users \ late : pc[u] \in Answers

\* Every submission is answered, also when the transactions that wait for the lock
\* have taken every connection createUser needs (bootstrap.ts, 37).
EveryoneIsAnswered == \A q \in Requests : pc[q] = "begin" ~> pc[q] \in Answers

\* Once an account exists and nobody is working on it, somebody can log in
\* (page.tsx, 126: the first account controls users and workloads).
SetupLeavesAnAdministrator ==
    users # {} /\ (\A q \in Requests : pc[q] \notin InProgress) => credentials # {}
==============================================================================
