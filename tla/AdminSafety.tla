---------------------------- MODULE AdminSafety ----------------------------
(***************************************************************************)
(* User administration: the routes under /users, the self-checks of        *)
(* UserService and the transactions of PrismaUserRepository that must      *)
(* never leave the installation without an active administrator.           *)
(*                                                                         *)
(* Requests run concurrently.  Each is authorized and checked against its  *)
(* own sender once, and runs one SERIALIZABLE transaction later: it reads  *)
(* the target row and, if the change would take an administrator away,     *)
(* counts the other active ones; its write commits later still, or the     *)
(* database aborts it (nobody retries).                                    *)
(*                                                                         *)
(* The clock is abstracted to the event "this date is now in the past",    *)
(* and a suspension whose date is past to none: isUserSuspended and        *)
(* activeAdminFilter both treat them alike.                                *)
(***************************************************************************)
EXTENDS Naturals

CONSTANTS
    Users,    \* accounts; a deleted account does not come back
    Banned,   \* accounts with `banned` set; no code of the backend changes it
    Requests  \* HTTP requests that may be in progress at the same time

ASSUME BannedAssumption == Banned \subseteq Users

VARIABLES
    role,       \* by account: "admin", "user", or "deleted"
    suspension, \* by account: "no", "forever", or "until" a date to come
    req         \* what each request is doing

vars == <<role, suspension, req>>

\* The inputs the schemas accept that the checks tell apart.  "unsuspend" is also
\* a suspension until a date that is past; "rename" is an update without a role.
Operations == {"demote", "promote", "rename", "suspend", "suspendUntil",
               "unsuspend", "delete"}

\* The operations that take an active administrator away.
Deactivating == {"demote", "suspend", "suspendUntil", "delete"}

Idle == [pc |-> "idle"]

\* A request past authorization.  counted: its transaction counted the other
\* active administrators.  doomed: the database will not let it commit.
Active == [pc : {"begin", "write"}, by : Users, op : Operations, target : Users,
           counted : BOOLEAN, doomed : BOOLEAN]

\* The type of the state.
TypeOK ==
    /\ role \in [Users -> {"admin", "user", "deleted"}]
    /\ suspension \in [Users -> {"no", "forever", "until"}]
    /\ req \in [Requests -> {Idle} \cup Active]

\* What isUserSuspended says, and the negation of the OR in activeAdminFilter.
Suspended(u) == suspension[u] # "no"

\* Whom activeAdminFilter counts; also whom authPlugin and requireAdmin let in.
ActiveAdmin(u) == role[u] = "admin" /\ u \notin Banned /\ ~Suspended(u)

Init ==
    /\ role \in [Users -> {"admin", "user", "deleted"}]
    /\ suspension \in [Users -> {"no", "forever", "until"}]
    /\ \A u \in Users : role[u] = "deleted" => suspension[u] = "no"
    /\ \E u \in Users : ActiveAdmin(u)
    /\ req = [q \in Requests |-> Idle]

-----------------------------------------------------------------------------

\* Mutant of ForbiddenToSelf: the missing `suspendedUntil > now` case.
ForbiddenToSelf_OpenEnded == {"demote", "suspend", "delete"}

\* What an account may not do to itself: the checks of UserService.
ForbiddenToSelf == {"demote", "suspend", "suspendUntil", "delete"}

\* The session's account is an active administrator now (authPlugin, requireAdmin),
\* and UserService lets it do this to the target.  A refused request has no effect.
Authorize(q, u, op, target) ==
    /\ req[q] = Idle
    /\ ActiveAdmin(u)
    /\ u = target => op \notin ForbiddenToSelf
    /\ req' = [req EXCEPT ![q] = [pc |-> "begin", by |-> u, op |-> op,
                   target |-> target, counted |-> FALSE, doomed |-> FALSE]]
    /\ UNCHANGED <<role, suspension>>

\* Mutant of OthersActive: the filter forgets `banned: false`.
OthersActive_Banned(t) == \E u \in Users \ {t} : role[u] = "admin" /\ ~Suspended(u)

OthersActive(t) == \E u \in Users \ {t} : ActiveAdmin(u)

\* The transaction counts before it takes an administrator away.
Counts(q) == role[req[q].target] = "admin" /\ req[q].op \in Deactivating

\* The reads of the transaction, all from one snapshot; the write follows.
Begin(q) ==
    /\ req[q].pc = "begin"
    /\ role[req[q].target] # "deleted"
    /\ Counts(q) => OthersActive(req[q].target)
    /\ req' = [req EXCEPT ![q].pc = "write", ![q].counted = Counts(q)]
    /\ UNCHANGED <<role, suspension>>

\* NotFoundError, or BusinessRuleError for the last active administrator.
Refuse(q) ==
    /\ req[q].pc = "begin"
    /\ \/ role[req[q].target] = "deleted"
       \/ Counts(q) /\ ~OthersActive(req[q].target)
    /\ req' = [req EXCEPT ![q] = Idle]
    /\ UNCHANGED <<role, suspension>>

-----------------------------------------------------------------------------
(* The database at isolation level Serializable.  A transaction reads its   *)
(* target, and every account if it counted.  It cannot commit after another *)
(* that ran at the same time and wrote the same row, nor after one with     *)
(* which each read what the other wrote.  (PostgreSQL refuses more: every   *)
(* dangerous structure, and Abort may always happen.)                       *)

Reads(tx, u) == tx.target = u \/ tx.counted

\* Mutant of Conflict: the isolation level is RepeatableRead, which lets two
\* transactions read what the other one writes.
Conflict_SameRow(tx, other) == tx.target = other.target

Conflict(tx, other) ==
    \/ tx.target = other.target
    \/ Reads(tx, other.target) /\ Reads(other, tx.target)

\* The update or delete of the target row.
Write(op, t) ==
    /\ role' = [role EXCEPT ![t] = CASE op = "demote" -> "user"
                                     [] op = "promote" -> "admin"
                                     [] op = "delete" -> "deleted"
                                     [] OTHER -> @]
    /\ suspension' = [suspension EXCEPT ![t] = CASE op = "suspend" -> "forever"
                                                 [] op = "suspendUntil" -> "until"
                                                 [] op \in {"unsuspend", "delete"} -> "no"
                                                 [] OTHER -> @]

\* The write commits, which dooms the transactions in progress it conflicts with.
Commit(q) ==
    /\ req[q].pc = "write" /\ ~req[q].doomed
    /\ Write(req[q].op, req[q].target)
    /\ req' = [p \in Requests |->
                  IF p = q THEN Idle
                  ELSE IF req[p].pc = "write"
                  THEN [req[p] EXCEPT !.doomed = @ \/ Conflict(req[p], req[q])]
                  ELSE req[p]]

\* A serialization failure, or any other failure of the transaction.
Abort(q) ==
    /\ req[q].pc = "write"
    /\ req' = [req EXCEPT ![q] = Idle]
    /\ UNCHANGED <<role, suspension>>

-----------------------------------------------------------------------------
(* Time.                                                                   *)

\* A suspension ends.
Expire(u) ==
    /\ suspension[u] = "until"
    /\ suspension' = [suspension EXCEPT ![u] = "no"]
    /\ UNCHANGED <<role, req>>

\* The date a request carries passes while the request is in progress.
ExpireInput(q) ==
    /\ req[q] # Idle /\ req[q].op = "suspendUntil"
    /\ req' = [req EXCEPT ![q].op = "unsuspend"]
    /\ UNCHANGED <<role, suspension>>

Next ==
    \/ \E q \in Requests :
          \/ \E u, target \in Users, op \in Operations : Authorize(q, u, op, target)
          \/ Begin(q) \/ Refuse(q) \/ Commit(q) \/ Abort(q) \/ ExpireInput(q)
    \/ \E u \in Users : Expire(u)

Spec == Init /\ [][Next]_vars

-----------------------------------------------------------------------------
(* Properties.                                                             *)

\* The installation always has an administrator who can log in and act
\* (the WithAdminSafety transactions).
ActiveAdminExists == \E u \in Users : ActiveAdmin(u)

\* An active administrator loses that only by the commit of a request that
\* somebody else sent about this account, and that a count was made for: never by
\* an own request, whatever was committed since it was authorized.
NoSelfLockout ==
    [][\A u \in Users : ActiveAdmin(u) /\ ~ActiveAdmin(u)' =>
          \E q \in Requests : /\ req[q].pc = "write" /\ req'[q] = Idle
                              /\ req[q].target = u /\ req[q].by # u
                              /\ req[q].counted]_vars

\* What an account is for the directory of users.
Account(u) ==
    CASE role[u] = "deleted" -> "gone"
      [] role[u] = "user" -> "user"
      [] ActiveAdmin(u) -> "active"
      [] OTHER -> "inactive"

Accounts == [u \in Users |-> Account(u)]

Atomic == INSTANCE Directory WITH account <- Accounts

\* Although a request checks in one step and writes in a later one, with others in
\* between, it acts as if it did both at once, and what is deleted stays deleted
\* (the WithAdminSafety transactions).
ActsAtOnce == Atomic!Spec

-----------------------------------------------------------------------------
(* The inductive invariant behind ActiveAdminExists.                       *)

\* A transaction that will take an administrator away counted, or its target was
\* no administrator and still is none.
CountedOK(q) ==
    req[q].pc = "write" /\ ~req[q].doomed /\ req[q].op \in Deactivating =>
        req[q].counted \/ role[req[q].target] # "admin"

\* Somebody whom the count found is still active, or the transaction is doomed.
FoundOK(q) ==
    req[q].pc = "write" /\ ~req[q].doomed /\ req[q].counted =>
        OthersActive(req[q].target)

\* An own request is never one that takes an administrator away.
SelfOK(q) ==
    req[q].pc # "idle" /\ req[q].by = req[q].target => req[q].op \notin ForbiddenToSelf

\* A target is still there, or the transaction is doomed.
PresentOK(q) == req[q].pc = "write" /\ ~req[q].doomed => role[req[q].target] # "deleted"

AdminInv ==
    /\ TypeOK
    /\ ActiveAdminExists
    /\ \A q \in Requests : CountedOK(q) /\ FoundOK(q) /\ SelfOK(q)
=============================================================================
