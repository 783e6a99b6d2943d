------------------------- MODULE AdminSafety_proofs -------------------------
(* Proofs about AdminSafety, for any accounts and any number of requests:    *)
(* an active administrator exists at all times, and nobody ends it alone.    *)
EXTENDS AdminSafety, TLAPS

\* A write changes the role and the suspension of no account but its target.
LEMMA WriteTarget ==
    ASSUME TypeOK, NEW op \in Operations, NEW t \in Users, Write(op, t)
    PROVE  /\ role' \in [Users -> {"admin", "user", "deleted"}]
           /\ suspension' \in [Users -> {"no", "forever", "until"}]
           /\ \A u \in Users \ {t} : role'[u] = role[u] /\ suspension'[u] = suspension[u]
<1> DEFINE r == CASE op = "demote" -> "user" [] op = "promote" -> "admin"
                  [] op = "delete" -> "deleted" [] OTHER -> role[t]
           s == CASE op = "suspend" -> "forever" [] op = "suspendUntil" -> "until"
                  [] op \in {"unsuspend", "delete"} -> "no" [] OTHER -> suspension[t]
<1>1. r \in {"admin", "user", "deleted"} /\ s \in {"no", "forever", "until"}
  BY DEF TypeOK
<1>2. role' = [role EXCEPT ![t] = r] /\ suspension' = [suspension EXCEPT ![t] = s]
  BY DEF Write
<1> HIDE DEF r, s
<1> QED
  BY <1>1, <1>2 DEF TypeOK

\* Only a deactivating write can take an active administrator away.
LEMMA WriteDeactivates ==
    ASSUME TypeOK, NEW op \in Operations, NEW t \in Users, Write(op, t),
           ActiveAdmin(t), ~ActiveAdmin(t)'
    PROVE  op \in Deactivating
<1> SUFFICES ASSUME op \in {"promote", "rename", "unsuspend"} PROVE FALSE
  BY DEF Operations, Deactivating
<1>1. role'[t] = "admin" /\ suspension'[t] = "no"
  BY DEF Write, TypeOK, ActiveAdmin, Suspended
<1> QED
  BY <1>1 DEF ActiveAdmin, Suspended

\* Whether another account is active does not depend on a write's target.
LEMMA WriteKeepsOthers ==
    ASSUME TypeOK, NEW op \in Operations, NEW t \in Users, Write(op, t)
    PROVE  \A u \in Users \ {t} : ActiveAdmin(u)' <=> ActiveAdmin(u)
  BY WriteTarget DEF ActiveAdmin, Suspended

\* The end of a suspension makes nobody less active.
LEMMA ExpireKeeps ==
    ASSUME TypeOK, NEW v \in Users, Expire(v)
    PROVE  /\ suspension' \in [Users -> {"no", "forever", "until"}]
           /\ \A u \in Users : ActiveAdmin(u) => ActiveAdmin(u)'
  BY DEF TypeOK, Expire, ActiveAdmin, Suspended

\* A commit that takes an active administrator away had counted, and somebody
\* else is active.
LEMMA CommitCounted ==
    ASSUME AdminInv, NEW q \in Requests, Commit(q),
           NEW t \in Users, t = req[q].target, ActiveAdmin(t), ~ActiveAdmin(t)'
    PROVE  /\ req[q].op \in Deactivating
           /\ req[q].counted
           /\ OthersActive(t)
<1>1. req[q] \in Active /\ Write(req[q].op, t)
  BY DEF AdminInv, TypeOK, Commit, Idle
<1>2. req[q].op \in Deactivating
  BY <1>1, WriteDeactivates DEF AdminInv, Active
<1>3. req[q].counted
  BY <1>2 DEF AdminInv, CountedOK, Commit, ActiveAdmin
<1>4. OthersActive(t)
  BY <1>3 DEF AdminInv, FoundOK, Commit
<1> QED
  BY <1>2, <1>3, <1>4

\* The initial states satisfy the invariant: no request is in progress.
LEMMA AdminInit == Init => AdminInv
  BY DEF Init, AdminInv, TypeOK, ActiveAdminExists, CountedOK, FoundOK, SelfOK, Idle

\* The type is preserved.
LEMMA TypeStep == ASSUME TypeOK, Next PROVE TypeOK'
<1>1. ASSUME NEW q \in Requests, NEW u \in Users, NEW t \in Users,
             NEW op \in Operations, Authorize(q, u, op, t)
      PROVE  TypeOK'
  <2>1. [pc |-> "begin", by |-> u, op |-> op, target |-> t,
         counted |-> FALSE, doomed |-> FALSE] \in Active
    BY DEF Active
  <2> QED
    BY <1>1, <2>1 DEF Authorize, TypeOK
<1>2. ASSUME NEW q \in Requests, Begin(q) PROVE TypeOK'
  <2>1. req[q] \in Active /\ Counts(q) \in BOOLEAN
    BY <1>2 DEF Begin, TypeOK, Idle, Counts
  <2>2. [req[q] EXCEPT !.pc = "write", !.counted = Counts(q)] \in Active
    BY <2>1 DEF Active
  <2>3. req' = [req EXCEPT ![q] = [req[q] EXCEPT !.pc = "write", !.counted = Counts(q)]]
    BY <1>2 DEF Begin, TypeOK
  <2> QED
    BY <1>2, <2>2, <2>3 DEF Begin, TypeOK
<1>3. ASSUME NEW q \in Requests, Refuse(q) \/ Abort(q) PROVE TypeOK'
  BY <1>3 DEF Refuse, Abort, TypeOK
<1>4. ASSUME NEW q \in Requests, Commit(q) PROVE TypeOK'
  <2>1. req[q] \in Active
    BY <1>4 DEF Commit, TypeOK, Idle
  <2>2. ASSUME NEW p \in Requests PROVE req'[p] \in {Idle} \cup Active
    <3>1. req[p] \in {Idle} \cup Active
      BY DEF TypeOK
    <3>2. CASE p # q /\ req[p].pc = "write"
      <4>1. req[p] \in Active /\ Conflict(req[p], req[q]) \in BOOLEAN
        BY <3>1, <3>2 DEF Idle, Conflict
      <4>2. [req[p] EXCEPT !.doomed = @ \/ Conflict(req[p], req[q])] \in Active
        BY <4>1 DEF Active
      <4> QED
        BY <1>4, <3>2, <4>2 DEF Commit
    <3> QED
      BY <1>4, <3>1, <3>2 DEF Commit
  <2>3. req' \in [Requests -> {Idle} \cup Active]
    BY <1>4, <2>2 DEF Commit
  <2> QED
    BY <1>4, <2>1, <2>3, WriteTarget DEF Commit, TypeOK, Active
<1>5. ASSUME NEW q \in Requests, ExpireInput(q) PROVE TypeOK'
  <2>1. req[q] \in Active
    BY <1>5 DEF ExpireInput, TypeOK
  <2>2. [req[q] EXCEPT !.op = "unsuspend"] \in Active
    BY <2>1 DEF Active, Operations
  <2> QED
    BY <1>5, <2>2 DEF ExpireInput, TypeOK
<1>6. ASSUME NEW u \in Users, Expire(u) PROVE TypeOK'
  BY <1>6, ExpireKeeps DEF Expire, TypeOK
<1> QED
  BY <1>1, <1>2, <1>3, <1>4, <1>5, <1>6 DEF Next

\* A step after which whoever was active still is keeps what a request knows, if
\* the step leaves the request and its target's role alone.
LEMMA KnownStep ==
    ASSUME TypeOK, NEW q \in Requests, CountedOK(q), FoundOK(q), SelfOK(q),
           UNCHANGED <<role, req[q]>>,
           \A u \in Users : ActiveAdmin(u) => ActiveAdmin(u)'
    PROVE  CountedOK(q)' /\ FoundOK(q)' /\ SelfOK(q)'
<1>1. CountedOK(q)' /\ SelfOK(q)'
  BY DEF CountedOK, SelfOK
<1>2. FoundOK(q)'
  BY DEF FoundOK, OthersActive
<1> QED
  BY <1>1, <1>2

\* A step of one request that changes no account.
LEMMA RequestStep ==
    ASSUME AdminInv, TypeOK', UNCHANGED <<role, suspension>>, NEW q \in Requests,
           \A p \in Requests \ {q} : req'[p] = req[p],
           CountedOK(q)', FoundOK(q)', SelfOK(q)'
    PROVE  AdminInv'
<1>1. \A u \in Users : ActiveAdmin(u)' <=> ActiveAdmin(u)
  BY DEF ActiveAdmin, Suspended
<1>2. ASSUME NEW p \in Requests \ {q} PROVE CountedOK(p)' /\ FoundOK(p)' /\ SelfOK(p)'
  BY <1>1, <1>2, KnownStep DEF AdminInv
<1>3. ActiveAdminExists'
  BY <1>1 DEF AdminInv, ActiveAdminExists
<1> QED
  BY <1>2, <1>3 DEF AdminInv

\* A commit keeps what the other requests know: whoever it makes false is doomed.
LEMMA CommitKnown ==
    ASSUME AdminInv, NEW q \in Requests, Commit(q), NEW p \in Requests, p # q
    PROVE  CountedOK(p)' /\ FoundOK(p)' /\ SelfOK(p)'
<1>1. req[q] \in Active /\ Write(req[q].op, req[q].target) /\ TypeOK
  BY DEF AdminInv, TypeOK, Commit, Idle
<1>2. CASE req[p].pc = "write"
  <2>1. req[p] \in Active
    BY <1>2 DEF AdminInv, TypeOK, Idle
  <2>2. /\ req'[p] \in [pc : {"begin", "write"}, by : Users, op : Operations,
                        target : Users, counted : BOOLEAN, doomed : BOOLEAN]
        /\ req'[p].by = req[p].by /\ req'[p].op = req[p].op
        /\ req'[p].target = req[p].target /\ req'[p].counted = req[p].counted
        /\ ~req'[p].doomed => ~req[p].doomed /\ ~Conflict(req[p], req[q])
    <3>1. req'[p] = [req[p] EXCEPT !.doomed = @ \/ Conflict(req[p], req[q])]
      BY <1>2 DEF Commit
    <3>2. Conflict(req[p], req[q]) \in BOOLEAN
      BY DEF Conflict
    <3> QED
      BY <2>1, <3>1, <3>2 DEF Active
  <2>3. SelfOK(p)'
    BY <2>1, <2>2, <1>2 DEF SelfOK, Active, Idle, AdminInv
  <2>4. CountedOK(p)'
    <3> SUFFICES ASSUME ~req'[p].doomed, req[p].op \in Deactivating, ~req[p].counted
                 PROVE  role'[req[p].target] # "admin"
      BY <2>2 DEF CountedOK
    <3>1. req[p].target # req[q].target
      BY <2>2 DEF Conflict
    <3>2. role[req[p].target] # "admin"
      BY <2>2, <1>2 DEF AdminInv, CountedOK
    <3> QED
      BY <1>1, <2>1, <3>1, <3>2, WriteTarget DEF Active
  <2>5. FoundOK(p)'
    <3> SUFFICES ASSUME ~req'[p].doomed, req[p].counted
                 PROVE  \E u \in Users \ {req[p].target} : ActiveAdmin(u)'
      BY <2>2 DEF FoundOK, OthersActive
    <3>1. PICK u \in Users \ {req[p].target} : ActiveAdmin(u)
      BY <2>2, <1>2 DEF AdminInv, FoundOK, OthersActive
    <3>2. req[q].target \in Users /\ req[q].op \in Operations
      BY <1>1 DEF Active
    <3>3. ASSUME ~ActiveAdmin(u)' PROVE FALSE
      <4>1. u = req[q].target
        BY <1>1, <3>1, <3>2, <3>3, WriteKeepsOthers
      <4>2. req[q].counted
        BY <3>1, <3>3, <4>1, CommitCounted
      <4> QED
        BY <2>2, <4>2 DEF Conflict, Reads
    <3> QED
      BY <3>1, <3>3
  <2> QED
    BY <2>3, <2>4, <2>5
<1>3. CASE req[p].pc # "write"
  <2>1. req'[p] = req[p]
    BY <1>3 DEF Commit
  <2> QED
    BY <1>3, <2>1 DEF CountedOK, FoundOK, SelfOK, AdminInv
<1> QED
  BY <1>2, <1>3

\* Every step preserves the invariant.
LEMMA AdminNext == ASSUME AdminInv, [Next]_vars PROVE AdminInv'
<1>1. CASE UNCHANGED vars
  BY <1>1 DEF vars, AdminInv, TypeOK, ActiveAdminExists, ActiveAdmin, Suspended,
              CountedOK, FoundOK, OthersActive, SelfOK
<1>2. ASSUME Next PROVE TypeOK'
  BY <1>2, TypeStep DEF AdminInv
<1>3. ASSUME NEW q \in Requests, NEW u \in Users, NEW t \in Users,
             NEW op \in Operations, Next, Authorize(q, u, op, t)
      PROVE  AdminInv'
  <2>1. req'[q] = [pc |-> "begin", by |-> u, op |-> op, target |-> t,
                   counted |-> FALSE, doomed |-> FALSE]
    BY <1>3 DEF Authorize, AdminInv, TypeOK
  <2>2. CountedOK(q)' /\ FoundOK(q)'
    BY <2>1 DEF CountedOK, FoundOK
  <2>3. SelfOK(q)'
    BY <1>3, <2>1 DEF SelfOK, Authorize
  <2>4. \A p \in Requests \ {q} : req'[p] = req[p]
    BY <1>3 DEF Authorize, AdminInv, TypeOK
  <2> QED
    BY <1>2, <1>3, <2>2, <2>3, <2>4, RequestStep DEF Authorize
<1>4. ASSUME NEW q \in Requests, Next, Begin(q) PROVE AdminInv'
  <2>1. req[q] \in Active /\ Counts(q) \in BOOLEAN
    BY <1>4 DEF Begin, AdminInv, TypeOK, Idle, Counts
  <2>2. req'[q] = [req[q] EXCEPT !.pc = "write", !.counted = Counts(q)]
    BY <1>4 DEF Begin, AdminInv, TypeOK
  <2>3. /\ req'[q].by = req[q].by /\ req'[q].op = req[q].op
        /\ req'[q].target = req[q].target /\ req'[q].counted = Counts(q)
    BY <2>1, <2>2 DEF Active
  <2>4. CountedOK(q)'
    BY <1>4, <2>3 DEF CountedOK, Counts, Begin
  <2>5. FoundOK(q)'
    BY <1>4, <2>3 DEF FoundOK, Begin, OthersActive, ActiveAdmin, Suspended
  <2>6. SelfOK(q)'
    BY <1>4, <2>3 DEF SelfOK, Begin, AdminInv, Idle
  <2>7. \A p \in Requests \ {q} : req'[p] = req[p]
    BY <1>4 DEF Begin, AdminInv, TypeOK
  <2> QED
    BY <1>2, <1>4, <2>4, <2>5, <2>6, <2>7, RequestStep DEF Begin
<1>5. ASSUME NEW q \in Requests, Next, Refuse(q) \/ Abort(q) PROVE AdminInv'
  <2>1. req'[q] = Idle /\ UNCHANGED <<role, suspension>>
    BY <1>5 DEF Refuse, Abort, AdminInv, TypeOK
  <2>2. CountedOK(q)' /\ FoundOK(q)' /\ SelfOK(q)'
    BY <2>1 DEF CountedOK, FoundOK, SelfOK, Idle
  <2>3. \A p \in Requests \ {q} : req'[p] = req[p]
    BY <1>5 DEF Refuse, Abort, AdminInv, TypeOK
  <2> QED
    BY <1>2, <1>5, <2>1, <2>2, <2>3, RequestStep
<1>6. ASSUME NEW q \in Requests, Next, Commit(q) PROVE AdminInv'
  <2>1. req'[q] = Idle
    BY <1>6 DEF Commit
  <2>2. CountedOK(q)' /\ FoundOK(q)' /\ SelfOK(q)'
    BY <2>1 DEF CountedOK, FoundOK, SelfOK, Idle
  <2>3. ActiveAdminExists'
    <3>1. PICK t \in Users : t = req[q].target /\ Write(req[q].op, t) /\ req[q].op \in Operations
      BY <1>6 DEF Commit, AdminInv, TypeOK, Idle, Active
    <3>2. \A u \in Users \ {t} : ActiveAdmin(u)' <=> ActiveAdmin(u)
      BY <3>1, WriteKeepsOthers DEF AdminInv
    <3>3. CASE ActiveAdmin(t) /\ ~ActiveAdmin(t)'
      <4>1. OthersActive(t)
        BY <1>6, <3>1, <3>3, CommitCounted
      <4> QED
        BY <3>2, <4>1 DEF OthersActive, ActiveAdminExists
    <3>4. CASE ~ActiveAdmin(t) \/ ActiveAdmin(t)'
      BY <3>1, <3>2, <3>4 DEF AdminInv, ActiveAdminExists
    <3> QED
      BY <3>3, <3>4
  <2> QED
    BY <1>2, <1>6, <2>2, <2>3, CommitKnown DEF AdminInv
<1>7. ASSUME NEW q \in Requests, Next, ExpireInput(q) PROVE AdminInv'
  <2>1. req'[q] = [req[q] EXCEPT !.op = "unsuspend"] /\ req[q] \in Active
    BY <1>7 DEF ExpireInput, AdminInv, TypeOK
  <2>2. /\ req'[q].op = "unsuspend" /\ req'[q].pc = req[q].pc
        /\ req'[q].target = req[q].target /\ req'[q].counted = req[q].counted
        /\ req'[q].doomed = req[q].doomed
    BY <2>1 DEF Active
  <2>3. CountedOK(q)' /\ SelfOK(q)'
    BY <2>2 DEF CountedOK, SelfOK, Deactivating, ForbiddenToSelf
  <2>4. FoundOK(q)'
    BY <1>7, <2>2 DEF FoundOK, OthersActive, ActiveAdmin, Suspended, ExpireInput, AdminInv
  <2>5. \A p \in Requests \ {q} : req'[p] = req[p]
    BY <1>7 DEF ExpireInput, AdminInv, TypeOK
  <2> QED
    BY <1>2, <1>7, <2>3, <2>4, <2>5, RequestStep DEF ExpireInput
<1>8. ASSUME NEW u \in Users, Next, Expire(u) PROVE AdminInv'
  <2>1. \A v \in Users : ActiveAdmin(v) => ActiveAdmin(v)'
    BY <1>8, ExpireKeeps DEF AdminInv
  <2>2. \A p \in Requests : CountedOK(p)' /\ FoundOK(p)' /\ SelfOK(p)'
    BY <1>8, <2>1, KnownStep DEF AdminInv, Expire
  <2>3. ActiveAdminExists'
    BY <2>1 DEF AdminInv, ActiveAdminExists
  <2> QED
    BY <1>2, <1>8, <2>2, <2>3 DEF AdminInv
<1> QED
  BY <1>1, <1>3, <1>4, <1>5, <1>6, <1>7, <1>8 DEF Next

\* The inductive invariant of the administration holds in every reachable state.
THEOREM AdminInvariant == Spec => []AdminInv
<1>1. AdminInv /\ [Next]_vars => AdminInv'
  BY AdminNext
<1> QED
  BY AdminInit, <1>1, PTL DEF Spec

\* The state keeps its type.
THEOREM TypeCorrect == Spec => []TypeOK
<1>1. AdminInv => TypeOK
  BY DEF AdminInv
<1> QED
  BY <1>1, AdminInvariant, PTL

\* At all times some account can log in and act as an administrator, whatever
\* requests run concurrently.
THEOREM AdministratorExists == Spec => []ActiveAdminExists
<1>1. AdminInv => ActiveAdminExists
  BY DEF AdminInv
<1> QED
  BY <1>1, AdminInvariant, PTL

\* Only a counted commit of somebody else's request takes an active administrator
\* away.
THEOREM NobodyLocksOneselfOut == Spec => NoSelfLockout
<1> DEFINE Lockout ==
      \A u \in Users : ActiveAdmin(u) /\ ~ActiveAdmin(u)' =>
          \E q \in Requests : /\ req[q].pc = "write" /\ req'[q] = Idle
                              /\ req[q].target = u /\ req[q].by # u
                              /\ req[q].counted
<1>1. ASSUME AdminInv, [Next]_vars PROVE [Lockout]_vars
  <2> SUFFICES ASSUME NEW u \in Users, ActiveAdmin(u), ~ActiveAdmin(u)'
               PROVE  \E q \in Requests : /\ req[q].pc = "write" /\ req'[q] = Idle
                              /\ req[q].target = u /\ req[q].by # u
                              /\ req[q].counted
    OBVIOUS
  <2>1. PICK q \in Requests : Commit(q)
    <3>1. ~UNCHANGED <<role, suspension>>
      BY DEF ActiveAdmin, Suspended
    <3>2. ASSUME NEW v \in Users, Expire(v) PROVE FALSE
      BY <1>1, <3>2, ExpireKeeps DEF AdminInv
    <3> QED
      BY <1>1, <3>1, <3>2 DEF Next, vars, Authorize, Begin, Refuse, Abort, ExpireInput
  <2>2. req[q] \in Active /\ Write(req[q].op, req[q].target)
    BY <1>1, <2>1 DEF AdminInv, TypeOK, Commit, Idle
  <2>3. u = req[q].target
    BY <1>1, <2>2, WriteKeepsOthers DEF AdminInv, Active
  <2>4. req[q].op \in Deactivating /\ req[q].counted
    BY <1>1, <2>1, <2>3, CommitCounted
  <2>5. req[q].by # u
    BY <1>1, <2>1, <2>3, <2>4 DEF AdminInv, SelfOK, Commit, Idle, Deactivating, ForbiddenToSelf
  <2> QED
    BY <2>1, <2>3, <2>4, <2>5 DEF Commit
<1>2. AdminInv /\ [Next]_vars => [Lockout]_vars
  BY <1>1
<1> QED
  BY <1>2, AdminInvariant, PTL DEF Spec, NoSelfLockout

-----------------------------------------------------------------------------
(* Every request acts at once.                                             *)

PresentInv == \A q \in Requests : PresentOK(q)

\* The target of a transaction that may commit is there: whoever deletes it dooms
\* the transaction.
LEMMA PresentNext == ASSUME TypeOK, PresentInv, [Next]_vars PROVE PresentInv'
<1> SUFFICES ASSUME NEW p \in Requests PROVE PresentOK(p)'
  BY DEF PresentInv
<1>1. CASE UNCHANGED vars
  BY <1>1 DEF vars, PresentInv, PresentOK
<1>2. ASSUME NEW q \in Requests, NEW u \in Users, NEW t \in Users,
             NEW op \in Operations, Authorize(q, u, op, t)
      PROVE  PresentOK(p)'
  BY <1>2 DEF Authorize, PresentInv, PresentOK, TypeOK
<1>3. ASSUME NEW q \in Requests, Begin(q) PROVE PresentOK(p)'
  <2>1. req[q] \in Active /\ Counts(q) \in BOOLEAN
    BY <1>3 DEF Begin, TypeOK, Idle, Counts
  <2>2. req'[q] = [req[q] EXCEPT !.pc = "write", !.counted = Counts(q)]
    BY <1>3 DEF Begin, TypeOK
  <2>3. req'[q].target = req[q].target
    BY <2>1, <2>2 DEF Active
  <2>4. CASE p = q
    BY <1>3, <2>3, <2>4 DEF Begin, PresentOK
  <2>5. CASE p # q
    BY <1>3, <2>5 DEF Begin, PresentInv, PresentOK, TypeOK
  <2> QED
    BY <2>4, <2>5
<1>4. ASSUME NEW q \in Requests, Refuse(q) \/ Abort(q) PROVE PresentOK(p)'
  BY <1>4 DEF Refuse, Abort, PresentInv, PresentOK, TypeOK, Idle
<1>5. ASSUME NEW q \in Requests, Commit(q) PROVE PresentOK(p)'
  <2>1. req[q] \in Active /\ Write(req[q].op, req[q].target)
    BY <1>5 DEF Commit, TypeOK, Idle
  <2>2. CASE p = q
    BY <1>5, <2>2 DEF Commit, PresentOK, Idle
  <2>3. CASE p # q /\ req[p].pc = "write"
    <3>1. req[p] \in Active
      BY <2>3 DEF TypeOK, Idle
    <3>2. req'[p] = [req[p] EXCEPT !.doomed = @ \/ Conflict(req[p], req[q])]
      BY <1>5, <2>3 DEF Commit
    <3>3. Conflict(req[p], req[q]) \in BOOLEAN
      BY DEF Conflict
    <3>4. /\ req'[p].target = req[p].target
          /\ ~req'[p].doomed => ~req[p].doomed /\ ~Conflict(req[p], req[q])
      BY <3>1, <3>2, <3>3 DEF Active
    <3>5. ~req'[p].doomed => req[p].target # req[q].target
      BY <3>4 DEF Conflict
    <3>6. ~req'[p].doomed => role'[req[p].target] = role[req[p].target]
      BY <2>1, <3>1, <3>5, WriteTarget DEF Active
    <3> QED
      BY <2>3, <3>4, <3>6 DEF PresentInv, PresentOK
  <2>4. CASE p # q /\ req[p].pc # "write"
    BY <1>5, <2>4 DEF Commit, PresentOK
  <2> QED
    BY <2>2, <2>3, <2>4
<1>6. ASSUME NEW q \in Requests, ExpireInput(q) PROVE PresentOK(p)'
  <2>1. req'[q] = [req[q] EXCEPT !.op = "unsuspend"] /\ req[q] \in Active
    BY <1>6 DEF ExpireInput, TypeOK
  <2>2. /\ req'[q].pc = req[q].pc /\ req'[q].target = req[q].target
        /\ req'[q].doomed = req[q].doomed
    BY <2>1 DEF Active
  <2>3. CASE p = q
    BY <1>6, <2>2, <2>3 DEF ExpireInput, PresentInv, PresentOK
  <2>4. CASE p # q
    BY <1>6, <2>4 DEF ExpireInput, PresentInv, PresentOK, TypeOK
  <2> QED
    BY <2>3, <2>4
<1>7. ASSUME NEW u \in Users, Expire(u) PROVE PresentOK(p)'
  BY <1>7 DEF Expire, PresentInv, PresentOK
<1> QED
  BY <1>1, <1>2, <1>3, <1>4, <1>5, <1>6, <1>7 DEF Next

LEMMA PresentInvariant == Spec => []PresentInv
<1>1. Init => PresentInv
  BY DEF Init, PresentInv, PresentOK, Idle
<1>2. TypeOK /\ PresentInv /\ [Next]_vars => PresentInv'
  BY PresentNext
<1> QED
  BY <1>1, <1>2, TypeCorrect, PTL DEF Spec

\* An account is of one kind, and active exactly if its administrator is.
LEMMA AccountKinds ==
    ASSUME TypeOK, NEW u \in Users
    PROVE  /\ Account(u) \in {"active", "inactive", "user", "gone"}
           /\ Account(u) = "active" <=> ActiveAdmin(u)
           /\ Account(u) = "gone" <=> role[u] = "deleted"
           /\ Account(u) = "user" <=> role[u] = "user"
<1>1. role[u] \in {"admin", "user", "deleted"}
  BY DEF TypeOK
<1>2. ActiveAdmin(u) => role[u] = "admin"
  BY DEF ActiveAdmin
<1> QED
  BY <1>1, <1>2 DEF Account

\* An account whose role and suspension stay is what it was.
LEMMA AccountStays ==
    ASSUME NEW u \in Users, role'[u] = role[u], suspension'[u] = suspension[u]
    PROVE  Account(u)' = Account(u)
  BY DEF Account, ActiveAdmin, Suspended

\* If one account changes, the directory changes at that account.
LEMMA OneChanges ==
    ASSUME NEW t \in Users, \A u \in Users \ {t} : Account(u)' = Account(u)
    PROVE  Accounts' = [Accounts EXCEPT ![t] = Account(t)']
  BY DEF Accounts

\* The abstract step of a change of one account.
LEMMA AbstractStep ==
    ASSUME TypeOK, NEW t \in Users,
           \A u \in Users \ {t} : Account(u)' = Account(u),
           \/ Account(t)' = Account(t)
           \/ /\ Account(t) \in {"active", "inactive"}
              /\ OthersActive(t) /\ Account(t)' # "active"
           \/ Account(t) \in {"user", "inactive"} /\ Account(t)' \in {"active", "inactive"}
           \/ Account(t) = "user" /\ Account(t)' = "gone"
    PROVE  [Atomic!Next]_Accounts
<1>1. Accounts' = [Accounts EXCEPT ![t] = Account(t)']
  BY OneChanges
<1>2. /\ \A u \in Users : Accounts[u] = Account(u)
      /\ Accounts'[t] = Account(t)'
  BY DEF Accounts
<1>3. Account(t)' \in {"active", "inactive", "user", "gone"}
  BY DEF Account
<1>4. CASE Account(t)' = Account(t)
  <2>1. Accounts' = Accounts
    BY <1>1, <1>4 DEF Accounts
  <2> QED
    BY <2>1
<1>5. CASE Account(t) \in {"active", "inactive"} /\ OthersActive(t) /\ Account(t)' # "active"
  <2>1. \E v \in Users \ {t} : Accounts[v] = "active"
    BY <1>2, <1>5, AccountKinds DEF OthersActive
  <2>2. Atomic!Becomes(t, {"inactive", "user", "gone"})
    BY <1>1, <1>2, <1>3, <1>5 DEF Atomic!Becomes
  <2>3. Atomic!Leave(t)
    BY <1>2, <1>5, <2>1, <2>2 DEF Atomic!Leave
  <2> QED
    BY <2>3 DEF Atomic!Next
<1>6. CASE Account(t) \in {"user", "inactive"} /\ Account(t)' \in {"active", "inactive"}
  <2>1. Atomic!Rise(t)
    BY <1>1, <1>2, <1>6 DEF Atomic!Rise, Atomic!Becomes
  <2> QED
    BY <2>1 DEF Atomic!Next
<1>7. CASE Account(t) = "user" /\ Account(t)' = "gone"
  <2>1. Atomic!Go(t)
    BY <1>1, <1>2, <1>7 DEF Atomic!Go, Atomic!Becomes
  <2> QED
    BY <2>1 DEF Atomic!Next
<1> QED
  BY <1>4, <1>5, <1>6, <1>7


\* The end of a suspension makes an inactive administrator active, if anything.
LEMMA ExpireActs ==
    ASSUME TypeOK, NEW t \in Users, Expire(t)
    PROVE  [Atomic!Next]_Accounts
<1>1. /\ role' = role
      /\ \A u \in Users \ {t} : suspension'[u] = suspension[u]
      /\ suspension[t] = "until" /\ suspension'[t] = "no"
  BY DEF Expire, TypeOK
<1>2. \A u \in Users \ {t} : Account(u)' = Account(u)
  BY <1>1, AccountStays
<1>3. CASE role[t] = "admin"
  <2>1. Account(t) = "inactive"
    BY <1>1, <1>3 DEF Account, ActiveAdmin, Suspended
  <2>2. Account(t)' \in {"active", "inactive"}
    BY <1>1, <1>3 DEF Account, ActiveAdmin, Suspended
  <2> QED
    BY <1>2, <2>1, <2>2, AbstractStep
<1>4. CASE role[t] # "admin"
  <2>1. Account(t)' = Account(t)
    BY <1>1, <1>4 DEF Account, ActiveAdmin, TypeOK
  <2> QED
    BY <1>2, <2>1, AbstractStep
<1> QED
  BY <1>3, <1>4

\* A write is a step of the directory, if the target is there and another administrator
\* is active when it takes one away.
LEMMA WriteActs ==
    ASSUME TypeOK, NEW op \in Operations, NEW t \in Users, Write(op, t),
           role[t] # "deleted", op \in Deactivating /\ role[t] = "admin" => OthersActive(t)
    PROVE  [Atomic!Next]_Accounts
<1>2. \A u \in Users \ {t} : Account(u)' = Account(u)
  BY WriteTarget, AccountStays
<1>3. role[t] \in {"admin", "user"}
  BY DEF TypeOK
<1>4. /\ role'[t] = CASE op = "demote" -> "user" [] op = "promote" -> "admin"
                      [] op = "delete" -> "deleted" [] OTHER -> role[t]
      /\ suspension'[t] = CASE op = "suspend" -> "forever" [] op = "suspendUntil" -> "until"
                            [] op \in {"unsuspend", "delete"} -> "no" [] OTHER -> suspension[t]
  BY DEF Write, TypeOK
<1>6. CASE role[t] = "admin" /\ op \in Deactivating
  <2>1. Account(t) \in {"active", "inactive"}
    BY <1>6 DEF Account
  <2>2. Account(t)' # "active"
    BY <1>4, <1>6 DEF Account, ActiveAdmin, Suspended, Deactivating
  <2> QED
    BY <1>2, <1>6, <2>1, <2>2, AbstractStep
<1>7. CASE role[t] = "admin" /\ op \in {"promote", "rename"}
  <2>1. Account(t)' = Account(t)
    BY <1>4, <1>7 DEF Account, ActiveAdmin, Suspended
  <2> QED
    BY <1>2, <2>1, AbstractStep
<1>8. CASE role[t] = "admin" /\ op = "unsuspend"
  <2>1. Account(t)' \in {"active", "inactive"} /\ Account(t) \in {"active", "inactive"}
    BY <1>4, <1>8 DEF Account
  <2>2. ActiveAdmin(t) => ActiveAdmin(t)'
    BY <1>4, <1>8 DEF ActiveAdmin, Suspended
  <2>3. Account(t) = "active" => Account(t)' = "active"
    BY <1>4, <1>8, <2>2 DEF Account
  <2> QED
    BY <1>2, <2>1, <2>3, AbstractStep
<1>9. CASE role[t] = "user" /\ op = "promote"
  <2>1. Account(t) = "user" /\ Account(t)' \in {"active", "inactive"}
    BY <1>4, <1>9 DEF Account, ActiveAdmin
  <2> QED
    BY <1>2, <2>1, AbstractStep
<1>10. CASE role[t] = "user" /\ op = "delete"
  <2>1. Account(t) = "user" /\ Account(t)' = "gone"
    BY <1>4, <1>10 DEF Account, ActiveAdmin
  <2> QED
    BY <1>2, <2>1, AbstractStep
<1>11. CASE role[t] = "user" /\ op \notin {"promote", "delete"}
  <2>1. Account(t)' = Account(t)
    BY <1>4, <1>11 DEF Account, ActiveAdmin
  <2> QED
    BY <1>2, <2>1, AbstractStep
<1> QED
  BY <1>3, <1>6, <1>7, <1>8, <1>9, <1>10, <1>11 DEF Operations, Deactivating

\* A commit writes what its transaction checked: who takes an administrator away had
\* counted another one, who is still active.
LEMMA CommitActs ==
    ASSUME AdminInv, PresentInv, NEW q \in Requests, Commit(q)
    PROVE  [Atomic!Next]_Accounts
<1>1. PICK t \in Users : t = req[q].target
  BY DEF AdminInv, TypeOK, Commit, Idle, Active
<1>2. PICK op \in Operations : op = req[q].op
  BY DEF AdminInv, TypeOK, Commit, Idle, Active
<1>3. TypeOK /\ Write(op, t)
  BY <1>1, <1>2 DEF AdminInv, Commit
<1>4. role[t] # "deleted"
  BY <1>1 DEF PresentInv, PresentOK, Commit
<1>5. op \in Deactivating /\ role[t] = "admin" => OthersActive(t)
  BY <1>1, <1>2 DEF AdminInv, CountedOK, FoundOK, Commit
<1> QED
  BY <1>3, <1>4, <1>5, WriteActs

\* Every step is a step of the directory or leaves it alone.
LEMMA StepActs == ASSUME AdminInv, PresentInv, [Next]_vars PROVE [Atomic!Next]_Accounts
<1>1. CASE UNCHANGED <<role, suspension>>
  BY <1>1 DEF Accounts, Account, ActiveAdmin, Suspended
<1>2. ASSUME NEW u \in Users, Expire(u) PROVE [Atomic!Next]_Accounts
  BY <1>2, ExpireActs DEF AdminInv
<1>3. ASSUME NEW q \in Requests, Commit(q) PROVE [Atomic!Next]_Accounts
  BY <1>3, CommitActs
<1> QED
  BY <1>1, <1>2, <1>3 DEF Next, vars, Authorize, Begin, Refuse, Abort, ExpireInput

\* Whatever the requests do between their checks and their writes, every change of
\* the directory happens as if in one step.
THEOREM RequestsActAtOnce == Spec => ActsAtOnce
<1>1. Init => Atomic!Init
  <2> SUFFICES ASSUME Init PROVE Atomic!Init
    OBVIOUS
  <2>1. TypeOK
    BY DEF Init, TypeOK
  <2> QED
    BY <2>1, AccountKinds DEF Init, Atomic!Init, Accounts
<1>2. AdminInv /\ PresentInv /\ [Next]_vars => [Atomic!Next]_Accounts
  BY StepActs
<1> QED
  BY <1>1, <1>2, AdminInvariant, PresentInvariant, PTL DEF Spec, ActsAtOnce, Atomic!Spec

=============================================================================
