----------------------------- MODULE Reconciler -----------------------------
(***************************************************************************)
(* The reconcile loop of the operator for one custom resource: what        *)
(* MinecraftServerReconciler and ReverseProxyServerReconciler have in      *)
(* common.  Each applies a fixed list of children, prunes the children     *)
(* another type of the resource would have, and patches the status.        *)
(*                                                                         *)
(* The loop never reads the API server: Get is answered by the informer    *)
(* cache, which lags behind and whose events fill the work queue.  Apply   *)
(* and Delete carry no resourceVersion.  The status is a merge patch: only *)
(* the fields that differ from the cached object are written.              *)
(*                                                                         *)
(* The content of a child is the generation of the resource it was made    *)
(* from.  Generations and uids are numbers of changes of the resource.     *)
(***************************************************************************)
EXTENDS Naturals, Sequences

CONSTANTS
    Types,      \* values of spec.type
    Children,   \* children by kind and name
    Applied,    \* by type: the children applied, in order
    Pruned,     \* by type: the children looked up and deleted, in order
    Nil,        \* no object, no reconciliation in progress
    MaxChanges, \* bound: changes of the resource by its users
    MaxFaults,  \* bound: failed calls and restarts of the operator
    MaxDrift    \* bound: changes of a child by somebody else

Elements(s) == {s[i] : i \in 1..Len(s)}

\* The children Reconcile reads: the others are only written.
LookedUp == UNION {Elements(Pruned[t]) : t \in Types}

ASSUME PlanAssumption ==
    /\ Applied \in [Types -> Seq(Children)]
    /\ Pruned \in [Types -> Seq(Children)]
    /\ \A t \in Types : Elements(Applied[t]) \cap Elements(Pruned[t]) = {}

ASSUME BoundsAssumption == MaxChanges \in Nat /\ MaxFaults \in Nat /\ MaxDrift \in Nat

VARIABLES
    cr,       \* the resource at the API server
    children, \* its children at the API server: Nil, or [owner, gen]
    seen,     \* the resource in the cache
    known,    \* the children in the cache, those that are looked up
    owes,     \* children with an undelivered event that names an owner
    queued,   \* the resource's key is in the work queue
    job,      \* the reconciliation in progress: [cr, step], cr from the cache
    changes, faults, drift  \* what was used of the bounds

server == <<cr, children, owes>>
cache == <<seen, known>>
budget == <<changes, faults, drift>>
vars == <<cr, children, seen, known, owes, queued, job, changes, faults, drift>>

Numbers == 0..MaxChanges

Resource == [uid : Numbers, gen : Numbers, type : Types, deleting : BOOLEAN,
             phase : {"none", "ok", "Failed"}, observed : Numbers]

\* owner 0: no controller.  gen 0: not what the operator wrote.
Child == [owner : Numbers, gen : Numbers]

ASSUME NilAssumption ==
    /\ Nil \notin [uid : Nat, gen : Nat, type : Types, deleting : BOOLEAN,
                   phase : {"none", "ok", "Failed"}, observed : Nat]
    /\ Nil \notin [owner : Nat, gen : Nat]
    /\ Nil \notin [cr : Resource, step : Nat]

\* The number of steps that apply and prune children; the next one is the status.
LastStep(t) == Len(Applied[t]) + Len(Pruned[t])

\* The type of the state.
TypeOK ==
    /\ cr \in Resource \cup {Nil} /\ seen \in Resource \cup {Nil}
    /\ children \in [Children -> Child \cup {Nil}]
    /\ known \in [LookedUp -> Child \cup {Nil}]
    /\ owes \subseteq Children
    /\ queued \in BOOLEAN
    /\ job \in [cr : Resource, step : Nat] \cup {Nil}
    /\ job # Nil => job.step \in 1..LastStep(job.cr.type) + 1
    /\ changes \in Numbers /\ faults \in 0..MaxFaults /\ drift \in 0..MaxDrift

Init ==
    /\ cr = Nil /\ seen = Nil /\ job = Nil
    /\ children = [o \in Children |-> Nil] /\ known = [o \in LookedUp |-> Nil]
    /\ owes = {} /\ queued = FALSE
    /\ changes = 0 /\ faults = 0 /\ drift = 0

-----------------------------------------------------------------------------
(* The API server and its clients.                                         *)

Owned(c) == c # Nil /\ c.owner # 0

\* A write of a child; the watch of its kind will deliver it.
WriteChild(o, c) ==
    /\ children' = [children EXCEPT ![o] = c]
    /\ owes' = IF c # children[o] /\ (Owned(c) \/ Owned(children[o]))
               THEN owes \cup {o} ELSE owes

CreateResource(t) ==
    /\ cr = Nil /\ changes < MaxChanges
    /\ changes' = changes + 1
    /\ cr' = [uid |-> changes + 1, gen |-> changes + 1, type |-> t,
              deleting |-> FALSE, phase |-> "none", observed |-> 0]
    /\ UNCHANGED <<children, owes, cache, queued, job, faults, drift>>

\* The backend replaces the spec.
ChangeResource(t) ==
    /\ cr # Nil /\ changes < MaxChanges
    /\ changes' = changes + 1
    /\ cr' = [cr EXCEPT !.gen = changes + 1, !.type = t]
    /\ UNCHANGED <<children, owes, cache, queued, job, faults, drift>>

\* Foreground deletion.
DeleteResource ==
    /\ cr # Nil /\ ~cr.deleting
    /\ cr' = [cr EXCEPT !.deleting = TRUE]
    /\ UNCHANGED <<children, owes, cache, queued, job, budget>>

HasLiveOwner(c) == cr # Nil /\ ~cr.deleting /\ cr.uid = c.owner

\* The garbage collector removes a child whose owner is deleting or gone, and a
\* deleting resource that has no child left.
CollectChild(o) ==
    /\ Owned(children[o]) /\ ~HasLiveOwner(children[o])
    /\ WriteChild(o, Nil)
    /\ UNCHANGED <<cr, cache, queued, job, budget>>

CollectResource ==
    /\ cr # Nil /\ cr.deleting
    /\ \A o \in Children : Owned(children[o]) => children[o].owner # cr.uid
    /\ cr' = Nil
    /\ UNCHANGED <<children, owes, cache, queued, job, budget>>

\* Somebody else deletes a child, edits it, or puts an object of theirs there.
DriftChild(o) ==
    /\ drift < MaxDrift
    /\ drift' = drift + 1
    /\ \E c \in {Nil, [owner |-> 0, gen |-> 0]}
                \cup (IF children[o] = Nil THEN {} ELSE {[children[o] EXCEPT !.gen = 0]}) :
           WriteChild(o, c)
    /\ UNCHANGED <<cr, cache, queued, job, changes, faults>>

-----------------------------------------------------------------------------
(* The informers: For, and Owns for each kind of child.                    *)

\* Mutant of ObserveResource: changes of the status do not enqueue.
ObserveResource_NewGeneration ==
    /\ seen # cr
    /\ seen' = cr
    /\ queued' = (queued \/ seen = Nil \/ cr = Nil \/ seen.gen # cr.gen)
    /\ UNCHANGED <<server, known, job, budget>>

ObserveResource ==
    /\ seen # cr
    /\ seen' = cr
    /\ queued' = TRUE
    /\ UNCHANGED <<server, known, job, budget>>

Unseen(o) == o \in owes \/ (o \in LookedUp /\ known[o] # children[o])

\* Mutant of ObserveChild: the controller is set up without Owns.
ObserveChild_NoOwns(o) ==
    /\ Unseen(o)
    /\ known' = [p \in LookedUp |-> IF p = o THEN children[o] ELSE known[p]]
    /\ owes' = owes \ {o}
    /\ UNCHANGED <<cr, children, seen, queued, job, budget>>

\* The handler of Owns enqueues the controllers of the old and the new object.
ObserveChild(o) ==
    /\ Unseen(o)
    /\ known' = [p \in LookedUp |-> IF p = o THEN children[o] ELSE known[p]]
    /\ owes' = owes \ {o}
    /\ queued' = (queued \/ o \in owes)
    /\ UNCHANGED <<cr, children, seen, job, budget>>

-----------------------------------------------------------------------------
(* Reconcile.  The queue hands a key to one worker at a time.              *)

Start ==
    /\ queued /\ job = Nil
    /\ queued' = FALSE
    /\ job' = IF seen = Nil \/ seen.deleting THEN Nil ELSE [cr |-> seen, step |-> 1]
    /\ UNCHANGED <<server, cache, budget>>

\* Status().Patch with the difference between two versions of the status.
PatchStatus(old, phase) ==
    cr' = IF cr = Nil THEN Nil
          ELSE [cr EXCEPT !.phase = IF phase # old.phase THEN phase ELSE @,
                          !.observed = IF old.gen # old.observed THEN old.gen ELSE @]

Wanted(c) == [owner |-> c.uid, gen |-> c.gen]

\* The status that is written on a failure is compared with the one in memory: if
\* it was the status patch that failed, that is the one it tried to write.
FailedFrom ==
    IF job.step = LastStep(job.cr.type) + 1
    THEN [job.cr EXCEPT !.phase = "ok", !.observed = job.cr.gen]
    ELSE job.cr

\* Mutant of Fail: the error is swallowed.
Fail_Swallowed ==
    /\ PatchStatus(FailedFrom, "Failed") \/ UNCHANGED cr
    /\ UNCHANGED queued
    /\ job' = Nil

\* failWithStatus; the error makes the queue retry with a backoff.  The patch may
\* fail as well.
Fail ==
    /\ PatchStatus(FailedFrom, "Failed") \/ UNCHANGED cr
    /\ queued' = TRUE
    /\ job' = Nil

Applying == job # Nil /\ job.step <= Len(Applied[job.cr.type])

\* Server-side apply with forced ownership: it creates the child or takes it over,
\* unless another resource is its controller already.
Apply ==
    LET o == Applied[job.cr.type][job.step] IN
    /\ Applying
    /\ Owned(children[o]) => children[o].owner = job.cr.uid
    /\ WriteChild(o, Wanted(job.cr))
    /\ job' = [job EXCEPT !.step = @ + 1]
    /\ UNCHANGED <<cr, cache, queued, budget>>

\* The API server refuses a second controller: the child belongs to an earlier
\* resource of this name and waits for the garbage collector.
RefuseApply ==
    LET o == Applied[job.cr.type][job.step] IN
    /\ Applying
    /\ Owned(children[o]) /\ children[o].owner # job.cr.uid
    /\ Fail
    /\ UNCHANGED <<children, owes, cache, budget>>

Pruning == job # Nil /\ ~Applying /\ job.step <= LastStep(job.cr.type)

\* Get from the cache and, if this resource is its controller, Delete by name.
Prune ==
    LET o == Pruned[job.cr.type][job.step - Len(Applied[job.cr.type])] IN
    /\ Pruning
    /\ IF known[o] # Nil /\ known[o].owner = job.cr.uid
       THEN WriteChild(o, Nil)
       ELSE UNCHANGED <<children, owes>>
    /\ job' = [job EXCEPT !.step = @ + 1]
    /\ UNCHANGED <<cr, cache, queued, budget>>

UpdatingStatus == job # Nil /\ job.step = LastStep(job.cr.type) + 1

\* Mutant of UpdateStatus: the worker goes on as if there were one more step.
UpdateStatus_KeepJob ==
    /\ UpdatingStatus /\ cr # Nil
    /\ PatchStatus(job.cr, "ok")
    /\ job' = [job EXCEPT !.step = @ + 1]
    /\ UNCHANGED <<children, owes, cache, queued, budget>>

UpdateStatus ==
    /\ UpdatingStatus /\ cr # Nil
    /\ PatchStatus(job.cr, "ok")
    /\ job' = Nil
    /\ UNCHANGED <<children, owes, cache, queued, budget>>

\* The resource is gone: both patches answer NotFound.
LoseStatus ==
    /\ UpdatingStatus /\ cr = Nil
    /\ Fail
    /\ UNCHANGED <<children, owes, cache, budget>>

\* A call fails without effect.
FailCall ==
    /\ job # Nil /\ faults < MaxFaults
    /\ faults' = faults + 1
    /\ Fail
    /\ UNCHANGED <<children, owes, cache, changes, drift>>

\* The operator is restarted, or another replica becomes the leader: the caches
\* are filled before the first reconciliation, and every resource is queued.
Restart ==
    /\ faults < MaxFaults
    /\ faults' = faults + 1
    /\ seen' = cr /\ known' = [o \in LookedUp |-> children[o]] /\ owes' = {}
    /\ queued' = TRUE
    /\ job' = Nil
    /\ UNCHANGED <<cr, children, changes, drift>>

-----------------------------------------------------------------------------

Reconcile == Start \/ Apply \/ RefuseApply \/ Prune \/ UpdateStatus \/ LoseStatus

Users == \/ \E t \in Types : CreateResource(t) \/ ChangeResource(t)
         \/ DeleteResource
         \/ \E o \in Children : DriftChild(o)

Observe == ObserveResource \/ \E o \in Children : ObserveChild(o)

Collect == CollectResource \/ \E o \in Children : CollectChild(o)

Next == Users \/ Observe \/ Collect \/ Reconcile \/ FailCall \/ Restart

Spec == Init /\ [][Next]_vars

\* Watches deliver, the queue's worker runs, and the garbage collector collects.
Fairness ==
    /\ WF_vars(Reconcile)
    /\ WF_vars(ObserveResource)
    /\ \A o \in Children : WF_vars(ObserveChild(o)) /\ WF_vars(CollectChild(o))
    /\ WF_vars(CollectResource)

FairSpec == Spec /\ Fairness

-----------------------------------------------------------------------------
(* Properties.                                                             *)

Live(c) == c # Nil /\ ~c.deleting

\* The operator has nothing left to do and nothing left to hear.
Quiescent == ~queued /\ job = Nil /\ seen = cr /\ owes = {}

\* What a finished reconciliation of c stands for.
ChildrenMatch(c) ==
    /\ \A o \in Elements(Applied[c.type]) : children[o] = Wanted(c)
    /\ \A o \in Elements(Pruned[c.type]) : children[o] = Nil \/ children[o].owner # c.uid

Settled == Live(cr) => ChildrenMatch(cr) /\ cr.phase = "ok" /\ cr.observed = cr.gen

\* No change is missed: whenever the operator rests, the children and the status
\* are those of the resource's current spec, whatever changed while it worked from
\* an outdated cache, and whichever patch or event came late.
NothingMissed == Quiescent => Settled

\* A resource at rest has no child but those of its current type.  Where every
\* child is applied or pruned for each type this is part of NothingMissed; the
\* plan of the ReverseProxyServer prunes a name that no child has.
NoStaleChild ==
    Quiescent /\ Live(cr) =>
        \A o \in Children : Owned(children[o]) /\ children[o].owner = cr.uid =>
            o \in Elements(Applied[cr.type])

\* Once users and failures stop, the operator comes to rest in the state of the
\* last spec, and after a deletion none of the children is left.
Converges ==
    <>[](Quiescent /\ Settled /\ (cr = Nil => \A o \in Children : ~Owned(children[o])))
=============================================================================
