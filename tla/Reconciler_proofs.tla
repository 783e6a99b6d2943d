-------------------------- MODULE Reconciler_proofs --------------------------
(* Theorems about Reconciler: for every plan whose types prune no child that  *)
(* they apply, and for any number of changes and failures, an operator at     *)
(* rest has missed nothing.                                                   *)
EXTENDS Reconciler, TLAPS

\* Resources are numbered from 1, and no copy of one is newer than the last change.
Numbered(c) == c.uid # 0 /\ c.gen <= changes

Fresh ==
    /\ cr # Nil => Numbered(cr)
    /\ seen # Nil => Numbered(seen)
    /\ job # Nil => Numbered(job.cr)

\* A child with an owner that the cache does not show has an event to come.
Informed ==
    \A o \in LookedUp : Owned(children[o]) /\ known[o] # children[o] => o \in owes

\* The first n steps for c are done, or an event will have them done again.
Done(c, n) ==
    /\ \A i \in 1..Len(Applied[c.type]) : i <= n =>
           \/ Applied[c.type][i] \in owes
           \/ children[Applied[c.type][i]] = Wanted(c)
    /\ \A i \in 1..Len(Pruned[c.type]) : Len(Applied[c.type]) + i <= n =>
           \/ Pruned[c.type][i] \in owes
           \/ children[Pruned[c.type][i]] = Nil
           \/ children[Pruned[c.type][i]].owner # c.uid

\* Unless the key is queued, the worker's copy is the cached one and what it did
\* lasts; a cached copy that is not outdated shows what the status patch wrote.
OnCourse ==
    ~queued =>
        /\ job # Nil => job.cr = seen /\ Done(seen, job.step - 1)
        /\ job = Nil /\ Live(seen) =>
               /\ Done(seen, LastStep(seen.type))
               /\ cr = seen => cr.phase = "ok" /\ cr.observed = cr.gen

ReconcilerInv == TypeOK /\ Fresh /\ Informed /\ OnCourse

-----------------------------------------------------------------------------
(* Types.                                                                  *)

\* A plan names children.
LEMMA PlanType ==
    ASSUME NEW t \in Types
    PROVE  /\ Len(Applied[t]) \in Nat /\ Len(Pruned[t]) \in Nat
           /\ LastStep(t) \in Nat /\ LastStep(t) = Len(Applied[t]) + Len(Pruned[t])
           /\ \A i \in 1..Len(Applied[t]) : Applied[t][i] \in Children
           /\ \A i \in 1..Len(Pruned[t]) :
                  Pruned[t][i] \in Children /\ Pruned[t][i] \in LookedUp
           /\ \A i \in 1..Len(Applied[t]), j \in 1..Len(Pruned[t]) :
                  Applied[t][i] # Pruned[t][j]
<1>1. Applied[t] \in Seq(Children) /\ Pruned[t] \in Seq(Children)
  BY PlanAssumption
<1>2. /\ Len(Applied[t]) \in Nat /\ Len(Pruned[t]) \in Nat
      /\ \A i \in 1..Len(Applied[t]) : Applied[t][i] \in Children
      /\ \A i \in 1..Len(Pruned[t]) : Pruned[t][i] \in Children
  BY <1>1
<1>3. \A i \in 1..Len(Pruned[t]) : Pruned[t][i] \in LookedUp
  BY DEF LookedUp, Elements
<1>4. \A i \in 1..Len(Applied[t]), j \in 1..Len(Pruned[t]) :
          Applied[t][i] # Pruned[t][j]
  BY PlanAssumption DEF Elements
<1>5. LastStep(t) = Len(Applied[t]) + Len(Pruned[t]) /\ LastStep(t) \in Nat
  <2>1. \A a, b \in Nat : a + b \in Nat
    OBVIOUS
  <2> QED
    BY <1>2, <2>1, Zenon DEF LastStep
<1> HIDE DEF LastStep
<1> QED
  BY <1>2, <1>3, <1>4, <1>5

\* What is looked up is a child.
LEMMA LookedUpChildren == LookedUp \subseteq Children
<1>1. \A t \in Types : Elements(Pruned[t]) \subseteq Children
  BY PlanType DEF Elements
<1> QED
  BY <1>1 DEF LookedUp

\* The worker's copy is a resource, and its step is one of the plan's or the last.
LEMMA JobType ==
    ASSUME TypeOK, job # Nil
    PROVE  /\ job.cr \in Resource /\ job.cr.type \in Types
           /\ job.cr.uid \in Numbers /\ job.cr.gen \in Numbers
           /\ job.step \in Nat /\ job.step >= 1
           /\ job.step <= LastStep(job.cr.type) + 1
           /\ job = [cr |-> job.cr, step |-> job.step]
<1>1. job \in [cr : Resource, step : Nat] /\ job.step \in 1..LastStep(job.cr.type) + 1
  BY DEF TypeOK
<1>2. job.cr \in Resource /\ job.cr.type \in Types
  BY <1>1 DEF Resource
<1> QED
  BY <1>1, <1>2, PlanType DEF Resource

\* Where step n is in a plan with a children to apply and b to prune.
LEMMA StepArithmetic ==
    ASSUME NEW n \in Nat, NEW a \in Nat, NEW b \in Nat, n >= 1
    PROVE  /\ n <= a => n \in 1..a /\ n <= a + b /\ n + 1 \in 1..a + b + 1
           /\ ~(n <= a) /\ n <= a + b =>
                  n > a /\ n - a \in 1..b /\ n + 1 \in 1..a + b + 1
           /\ n = a + b + 1 => n - 1 = a + b
  OBVIOUS

\* The step of the worker, and the child it is about.
LEMMA JobStep ==
    ASSUME TypeOK, job # Nil
    PROVE  /\ Applying => /\ job.step \in 1..Len(Applied[job.cr.type])
                          /\ Applied[job.cr.type][job.step] \in Children
           /\ Pruning =>
                 /\ job.step > Len(Applied[job.cr.type])
                 /\ job.step - Len(Applied[job.cr.type]) \in 1..Len(Pruned[job.cr.type])
                 /\ Pruned[job.cr.type][job.step - Len(Applied[job.cr.type])] \in Children
                 /\ Pruned[job.cr.type][job.step - Len(Applied[job.cr.type])] \in LookedUp
           /\ Applying \/ Pruning => job.step + 1 \in 1..LastStep(job.cr.type) + 1
           /\ UpdatingStatus => job.step - 1 = LastStep(job.cr.type)
<1>1. /\ job.cr.type \in Types /\ job.step \in Nat /\ job.step >= 1
      /\ Len(Applied[job.cr.type]) \in Nat /\ Len(Pruned[job.cr.type]) \in Nat
  BY JobType, PlanType
<1>2. /\ Applying => job.step \in 1..Len(Applied[job.cr.type])
      /\ Pruning =>
            /\ job.step > Len(Applied[job.cr.type])
            /\ job.step - Len(Applied[job.cr.type]) \in 1..Len(Pruned[job.cr.type])
      /\ Applying \/ Pruning => job.step + 1 \in 1..LastStep(job.cr.type) + 1
      /\ UpdatingStatus => job.step - 1 = LastStep(job.cr.type)
  BY <1>1, StepArithmetic, Zenon DEF LastStep, Applying, Pruning, UpdatingStatus
<1>3. Applying => Applied[job.cr.type][job.step] \in Children
  BY <1>1, <1>2, PlanType
<1>4. Pruning =>
         /\ Pruned[job.cr.type][job.step - Len(Applied[job.cr.type])] \in Children
         /\ Pruned[job.cr.type][job.step - Len(Applied[job.cr.type])] \in LookedUp
  BY <1>1, <1>2, PlanType
<1> QED
  BY <1>2, <1>3, <1>4

\* A write of a child keeps the types of the children and of the events.
LEMMA WriteType ==
    ASSUME TypeOK, NEW o \in Children, NEW c \in Child \cup {Nil}, WriteChild(o, c)
    PROVE  children' \in [Children -> Child \cup {Nil}] /\ owes' \subseteq Children
  BY DEF TypeOK, WriteChild

\* A status patch changes nothing but the status.
LEMMA PatchType ==
    ASSUME TypeOK, NEW old \in Resource, NEW phase \in {"ok", "Failed"},
           PatchStatus(old, phase)
    PROVE  /\ cr' \in Resource \cup {Nil}
           /\ cr = Nil => cr' = Nil
           /\ cr # Nil => /\ cr' # Nil /\ cr'.uid = cr.uid /\ cr'.gen = cr.gen
                          /\ cr'.phase = (IF phase # old.phase THEN phase ELSE cr.phase)
                          /\ cr'.observed = (IF old.gen # old.observed THEN old.gen
                                             ELSE cr.observed)
<1>1. CASE cr = Nil
  BY <1>1 DEF PatchStatus
<1>2. CASE cr # Nil
  <2> DEFINE p == IF phase # old.phase THEN phase ELSE cr.phase
             n == IF old.gen # old.observed THEN old.gen ELSE cr.observed
  <2>1. cr \in Resource
    BY <1>2 DEF TypeOK
  <2>2. cr' = [cr EXCEPT !.phase = p, !.observed = n]
    BY <1>2 DEF PatchStatus
  <2>3. p \in {"none", "ok", "Failed"} /\ n \in Numbers
    BY <2>1 DEF Resource
  <2> HIDE DEF p, n
  <2>4. cr' \in Resource /\ cr'.uid = cr.uid /\ cr'.gen = cr.gen
        /\ cr'.phase = p /\ cr'.observed = n
    BY <2>1, <2>2, <2>3 DEF Resource
  <2>5. Nil \notin Resource
    BY NilAssumption, BoundsAssumption DEF Resource, Numbers
  <2> QED
    BY <1>2, <2>4, <2>5 DEF p, n
<1> QED
  BY <1>1, <1>2

\* What a failure does to the resource, the queue and the worker.
LEMMA FailType ==
    ASSUME TypeOK, job # Nil, Fail
    PROVE  /\ queued' = TRUE /\ job' = Nil
           /\ cr' \in Resource \cup {Nil}
           /\ cr = Nil => cr' = Nil
           /\ cr # Nil => cr' # Nil /\ cr'.uid = cr.uid /\ cr'.gen = cr.gen
<1>1. FailedFrom \in Resource
  <2>1. [job.cr EXCEPT !.phase = "ok", !.observed = job.cr.gen] \in Resource
    BY JobType DEF Resource
  <2> QED
    BY <2>1, JobType DEF FailedFrom
<1>2. CASE PatchStatus(FailedFrom, "Failed")
  BY <1>1, <1>2, PatchType DEF Fail
<1>3. CASE UNCHANGED cr
  BY <1>3 DEF Fail, TypeOK
<1> QED
  BY <1>2, <1>3 DEF Fail

\* What somebody else writes into a child is a child.
LEMMA DriftType ==
    ASSUME TypeOK, NEW o \in Children,
           NEW c \in {Nil, [owner |-> 0, gen |-> 0]}
               \cup (IF children[o] = Nil THEN {} ELSE {[children[o] EXCEPT !.gen = 0]})
    PROVE  /\ c \in Child \cup {Nil}
           /\ Owned(c) => Owned(children[o]) /\ c.owner = children[o].owner
<1>1. 0 \in Numbers
  BY BoundsAssumption DEF Numbers
<1>2. Nil \notin Child
  BY NilAssumption, BoundsAssumption DEF Child, Numbers
<1>3. CASE c = Nil
  BY <1>3 DEF Owned
<1>4. CASE c = [owner |-> 0, gen |-> 0]
  BY <1>1, <1>2, <1>4 DEF Owned, Child
<1>5. CASE children[o] # Nil /\ c = [children[o] EXCEPT !.gen = 0]
  <2>1. children[o] \in Child
    BY <1>5 DEF TypeOK
  <2>2. c \in Child /\ c.owner = children[o].owner
    BY <1>1, <1>5, <2>1 DEF Child
  <2> QED
    BY <1>2, <1>5, <2>2 DEF Owned
<1> QED
  BY <1>3, <1>4, <1>5

\* The child a resource wants is a child.
LEMMA WantedType ==
    ASSUME NEW c \in Resource
    PROVE  /\ Wanted(c) \in Child /\ Wanted(c) # Nil
           /\ Wanted(c).owner = c.uid /\ Wanted(c).gen = c.gen
<1>1. Nil \notin Child
  BY NilAssumption, BoundsAssumption DEF Child, Numbers
<1>2. Wanted(c) \in Child
  BY DEF Wanted, Child, Resource
<1> QED
  BY <1>1, <1>2 DEF Wanted

\* Every step keeps the types.
LEMMA TypeStep ==
    ASSUME TypeOK, [Next]_vars
    PROVE  TypeOK'
<1>1. ASSUME NEW t \in Types, CreateResource(t) PROVE TypeOK'
  <2>1. changes' \in Numbers /\ 0 \in Numbers
    BY <1>1, BoundsAssumption DEF TypeOK, CreateResource, Numbers
  <2>2. cr' \in Resource
    BY <1>1, <2>1 DEF CreateResource, Resource
  <2> QED
    BY <1>1, <2>1, <2>2 DEF TypeOK, CreateResource, cache
<1>2. ASSUME NEW t \in Types, ChangeResource(t) PROVE TypeOK'
  <2>1. changes' \in Numbers
    BY <1>2, BoundsAssumption DEF TypeOK, ChangeResource, Numbers
  <2>2. cr \in Resource /\ cr' = [cr EXCEPT !.gen = changes', !.type = t]
    BY <1>2 DEF TypeOK, ChangeResource
  <2>3. cr' \in Resource
    BY <2>1, <2>2 DEF Resource
  <2> QED
    BY <1>2, <2>1, <2>3 DEF TypeOK, ChangeResource, cache
<1>3. CASE DeleteResource
  <2>1. cr \in Resource /\ cr' = [cr EXCEPT !.deleting = TRUE]
    BY <1>3 DEF TypeOK, DeleteResource
  <2>2. cr' \in Resource
    BY <2>1 DEF Resource
  <2> QED
    BY <1>3, <2>2 DEF TypeOK, DeleteResource, cache, budget
<1>4. ASSUME NEW o \in Children, DriftChild(o) PROVE TypeOK'
  <2>1. PICK c \in {Nil, [owner |-> 0, gen |-> 0]}
              \cup (IF children[o] = Nil THEN {} ELSE {[children[o] EXCEPT !.gen = 0]}) :
            WriteChild(o, c)
    BY <1>4 DEF DriftChild
  <2>2. c \in Child \cup {Nil}
    BY DriftType
  <2>3. children' \in [Children -> Child \cup {Nil}] /\ owes' \subseteq Children
    BY <2>1, <2>2, WriteType
  <2>4. drift' \in 0..MaxDrift
    BY <1>4, BoundsAssumption DEF DriftChild, TypeOK
  <2> QED
    BY <1>4, <2>3, <2>4 DEF TypeOK, DriftChild, cache
<1>5. CASE ObserveResource
  BY <1>5 DEF TypeOK, ObserveResource, server, budget
<1>6. ASSUME NEW o \in Children, ObserveChild(o) PROVE TypeOK'
  BY <1>6, LookedUpChildren DEF TypeOK, ObserveChild, budget
<1>7. CASE CollectResource
  BY <1>7 DEF TypeOK, CollectResource, cache, budget
<1>8. ASSUME NEW o \in Children, CollectChild(o) PROVE TypeOK'
  <2>1. children' \in [Children -> Child \cup {Nil}] /\ owes' \subseteq Children
    BY <1>8, WriteType DEF CollectChild
  <2> QED
    BY <1>8, <2>1 DEF TypeOK, CollectChild, cache, budget
<1>9. CASE Start
  <2>1. CASE seen = Nil \/ seen.deleting
    BY <1>9, <2>1 DEF TypeOK, Start, server, cache, budget
  <2>2. CASE ~(seen = Nil \/ seen.deleting)
    <3>1. seen \in Resource /\ seen.type \in Types
      BY <2>2 DEF TypeOK, Resource
    <3>2. job' = [cr |-> seen, step |-> 1]
      BY <1>9, <2>2 DEF Start
    <3>3. 1 \in 1..LastStep(seen.type) + 1
      <4>1. PICK n \in Nat : n = LastStep(seen.type)
        BY <3>1, PlanType
      <4> QED
        BY <4>1
    <3>4. /\ job' \in [cr : Resource, step : Nat]
          /\ job'.step \in 1..LastStep(job'.cr.type) + 1
      BY <3>1, <3>2, <3>3
    <3> QED
      BY <1>9, <3>4 DEF TypeOK, Start, server, cache, budget
  <2> QED
    BY <2>1, <2>2
<1>10. ASSUME job # Nil, job.step + 1 \in 1..LastStep(job.cr.type) + 1,
              job' = [job EXCEPT !.step = @ + 1]
       PROVE  /\ job' \in [cr : Resource, step : Nat]
              /\ job'.step \in 1..LastStep(job'.cr.type) + 1
  <2>1. job' = [cr |-> job.cr, step |-> job.step + 1]
    BY <1>10, JobType
  <2> QED
    BY <1>10, <2>1, JobType
<1>11. CASE Apply
  <2>1. job # Nil
    BY <1>11 DEF Apply, Applying
  <2>2. /\ Applied[job.cr.type][job.step] \in Children
        /\ job.step + 1 \in 1..LastStep(job.cr.type) + 1
    BY <1>11, <2>1, JobStep DEF Apply
  <2>3. Wanted(job.cr) \in Child
    BY <2>1, JobType, WantedType
  <2>4. children' \in [Children -> Child \cup {Nil}] /\ owes' \subseteq Children
    BY <1>11, <2>2, <2>3, WriteType DEF Apply
  <2>5. /\ job' \in [cr : Resource, step : Nat]
        /\ job'.step \in 1..LastStep(job'.cr.type) + 1
    BY <1>10, <1>11, <2>1, <2>2 DEF Apply
  <2> QED
    BY <1>11, <2>4, <2>5 DEF TypeOK, Apply, cache, budget
<1>12. CASE RefuseApply
  <2>1. queued' = TRUE /\ job' = Nil /\ cr' \in Resource \cup {Nil}
    BY <1>12, FailType DEF RefuseApply, Applying
  <2> QED
    BY <1>12, <2>1 DEF TypeOK, RefuseApply, cache, budget
<1>13. CASE Prune
  <2>1. job # Nil
    BY <1>13 DEF Prune, Pruning
  <2>2. /\ job.step + 1 \in 1..LastStep(job.cr.type) + 1
        /\ Pruned[job.cr.type][job.step - Len(Applied[job.cr.type])] \in Children
    BY <1>13, <2>1, JobStep DEF Prune
  <2>3. children' \in [Children -> Child \cup {Nil}] /\ owes' \subseteq Children
    BY <1>13, <2>2, WriteType DEF Prune, TypeOK
  <2>4. /\ job' \in [cr : Resource, step : Nat]
        /\ job'.step \in 1..LastStep(job'.cr.type) + 1
    BY <1>10, <1>13, <2>1, <2>2 DEF Prune
  <2> QED
    BY <1>13, <2>3, <2>4 DEF TypeOK, Prune, cache, budget
<1>14. CASE UpdateStatus
  <2>1. cr' \in Resource \cup {Nil}
    BY <1>14, JobType, PatchType DEF UpdateStatus, UpdatingStatus
  <2> QED
    BY <1>14, <2>1 DEF TypeOK, UpdateStatus, cache, budget
<1>15. CASE LoseStatus
  <2>1. queued' = TRUE /\ job' = Nil /\ cr' \in Resource \cup {Nil}
    BY <1>15, FailType DEF LoseStatus, UpdatingStatus
  <2> QED
    BY <1>15, <2>1 DEF TypeOK, LoseStatus, cache, budget
<1>16. CASE FailCall
  <2>1. queued' = TRUE /\ job' = Nil /\ cr' \in Resource \cup {Nil}
    BY <1>16, FailType DEF FailCall
  <2>2. faults' \in 0..MaxFaults
    BY <1>16, BoundsAssumption DEF FailCall, TypeOK
  <2> QED
    BY <1>16, <2>1, <2>2 DEF TypeOK, FailCall, cache
<1>17. CASE Restart
  <2>1. faults' \in 0..MaxFaults
    BY <1>17, BoundsAssumption DEF Restart, TypeOK
  <2> QED
    BY <1>17, <2>1, LookedUpChildren DEF TypeOK, Restart
<1>18. CASE UNCHANGED vars
  BY <1>18 DEF TypeOK, vars
<1> QED
  BY <1>1, <1>2, <1>3, <1>4, <1>5, <1>6, <1>7, <1>8, <1>9, <1>11, <1>12, <1>13, <1>14,
     <1>15, <1>16, <1>17, <1>18 DEF Next, Users, Observe, Collect, Reconcile

-----------------------------------------------------------------------------
(* The inductive invariant.                                                *)

\* No copy of the resource is newer than the last change.
LEMMA FreshStep ==
    ASSUME TypeOK, Fresh, [Next]_vars
    PROVE  Fresh'
<1>1. changes \in Nat
  BY BoundsAssumption DEF TypeOK, Numbers
<1>2. ASSUME NEW t \in Types, CreateResource(t) PROVE Fresh'
  BY <1>1, <1>2 DEF Fresh, Numbered, CreateResource, cache, TypeOK, Resource, Numbers
<1>3. ASSUME NEW t \in Types, ChangeResource(t) PROVE Fresh'
  <2>1. cr \in Resource /\ changes' = changes + 1
    BY <1>3 DEF TypeOK, ChangeResource
  <2>2. cr' # Nil => cr'.uid = cr.uid /\ cr'.gen = changes + 1
    BY <1>3, <2>1 DEF ChangeResource, Resource
  <2>3. /\ seen # Nil => seen.gen <= changes + 1
        /\ job # Nil => job.cr.gen <= changes + 1
    BY <1>1, JobType DEF Fresh, Numbered, TypeOK, Resource, Numbers
  <2> QED
    BY <1>1, <1>3, <2>1, <2>2, <2>3 DEF Fresh, Numbered, ChangeResource, cache
<1>4. CASE DeleteResource
  <2>1. cr \in Resource /\ cr' = [cr EXCEPT !.deleting = TRUE]
    BY <1>4 DEF TypeOK, DeleteResource
  <2>2. cr'.uid = cr.uid /\ cr'.gen = cr.gen
    BY <2>1 DEF Resource
  <2> QED
    BY <1>4, <2>2 DEF Fresh, Numbered, DeleteResource, cache, budget
<1>5. ASSUME NEW o \in Children, DriftChild(o) \/ ObserveChild(o) \/ CollectChild(o)
      PROVE  Fresh'
  BY <1>5 DEF Fresh, Numbered, DriftChild, ObserveChild, CollectChild, cache, budget
<1>6. CASE ObserveResource \/ CollectResource \/ Restart
  BY <1>6 DEF Fresh, Numbered, ObserveResource, CollectResource, Restart, server, cache, budget
<1>7. CASE Start
  BY <1>7 DEF Fresh, Numbered, Start, server, cache, budget
<1>8. ASSUME job # Nil, job' = [job EXCEPT !.step = @ + 1],
             UNCHANGED <<cr, seen, changes>>
      PROVE  Fresh'
  <2>1. job' = [cr |-> job.cr, step |-> job.step + 1]
    BY <1>8, JobType
  <2> QED
    BY <1>8, <2>1 DEF Fresh, Numbered
<1>9. CASE Apply \/ Prune
  BY <1>8, <1>9 DEF Apply, Prune, Applying, Pruning, cache, budget
<1>10. ASSUME job # Nil, Fail, UNCHANGED <<seen, changes>> PROVE Fresh'
  BY <1>10, FailType DEF Fresh, Numbered
<1>11. CASE RefuseApply \/ LoseStatus \/ FailCall
  BY <1>10, <1>11 DEF RefuseApply, LoseStatus, FailCall, Applying, UpdatingStatus, cache, budget
<1>12. CASE UpdateStatus
  BY <1>12, JobType, PatchType DEF Fresh, Numbered, UpdateStatus, UpdatingStatus, cache, budget
<1>13. CASE UNCHANGED vars
  BY <1>13 DEF Fresh, Numbered, vars
<1> QED
  BY <1>2, <1>3, <1>4, <1>5, <1>6, <1>7, <1>9, <1>11, <1>12, <1>13
  DEF Next, Users, Observe, Collect, Reconcile

\* What a write does: an event is due if the old or the new child has an owner.
LEMMA WriteEffect ==
    ASSUME TypeOK, NEW o \in Children, NEW c, WriteChild(o, c)
    PROVE  /\ owes \subseteq owes'
           /\ children'[o] = c
           /\ \A p \in Children \ {o} : children'[p] = children[p]
           /\ c # children[o] /\ (Owned(c) \/ Owned(children[o])) => o \in owes'
  BY DEF TypeOK, WriteChild

\* A write keeps the cache informed.
LEMMA InformedWrite ==
    ASSUME TypeOK, Informed, NEW o \in Children, NEW c, WriteChild(o, c), UNCHANGED known
    PROVE  Informed'
<1> SUFFICES ASSUME NEW p \in LookedUp, Owned(children'[p]), known[p] # children'[p]
             PROVE  p \in owes'
  BY DEF Informed
<1>1. CASE children'[p] = children[p]
  BY <1>1, WriteEffect DEF Informed
<1>2. CASE children'[p] # children[p]
  BY <1>2, LookedUpChildren, WriteEffect
<1> QED
  BY <1>1, <1>2

\* The cache stays informed.
LEMMA InformedStep ==
    ASSUME TypeOK, Informed, [Next]_vars
    PROVE  Informed'
<1>1. ASSUME UNCHANGED <<children, known, owes>> PROVE Informed'
  BY <1>1 DEF Informed
<1>2. ASSUME NEW t \in Types, CreateResource(t) \/ ChangeResource(t) PROVE Informed'
  BY <1>1, <1>2 DEF CreateResource, ChangeResource, cache
<1>3. CASE DeleteResource \/ CollectResource \/ ObserveResource \/ Start
           \/ RefuseApply \/ UpdateStatus \/ LoseStatus \/ FailCall \/ UNCHANGED vars
  BY <1>1, <1>3 DEF DeleteResource, CollectResource, ObserveResource, Start, RefuseApply,
     UpdateStatus, LoseStatus, FailCall, vars, cache, server
<1>4. ASSUME NEW o \in Children, DriftChild(o) PROVE Informed'
  BY <1>4, InformedWrite DEF DriftChild, cache
<1>5. ASSUME NEW o \in Children, CollectChild(o) PROVE Informed'
  BY <1>5, InformedWrite DEF CollectChild, cache
<1>6. ASSUME NEW o \in Children, ObserveChild(o) PROVE Informed'
  BY <1>6 DEF ObserveChild, Informed
<1>7. CASE Apply
  BY <1>7, JobStep, InformedWrite DEF Apply, Applying, cache
<1>8. CASE Prune
  BY <1>1, <1>8, JobStep, InformedWrite DEF Prune, Pruning, cache
<1>9. CASE Restart
  BY <1>9 DEF Restart, Informed
<1> QED
  BY <1>2, <1>3, <1>4, <1>5, <1>6, <1>7, <1>8, <1>9 DEF Next, Users, Observe, Collect, Reconcile

\* What is done lasts, or its event is due, when somebody else writes a child.
LEMMA DoneWrite ==
    ASSUME TypeOK, NEW r \in Resource, r.uid # 0, NEW n, Done(r, n),
           NEW o \in Children, NEW c, WriteChild(o, c),
           Owned(c) => Owned(children[o]) /\ c.owner = children[o].owner
    PROVE  Done(r, n)'
<1>1. r.type \in Types
  BY DEF Resource
<1>2. ASSUME NEW i \in 1..Len(Applied[r.type]), i <= n
      PROVE  Applied[r.type][i] \in owes' \/ children'[Applied[r.type][i]] = Wanted(r)
  <2> DEFINE p == Applied[r.type][i]
  <2>1. p \in Children /\ (p \in owes \/ children[p] = Wanted(r))
    BY <1>1, <1>2, PlanType DEF Done
  <2>2. Owned(Wanted(r))
    BY WantedType DEF Owned
  <2> HIDE DEF p
  <2>3. p \in owes' \/ children'[p] = Wanted(r)
    BY <2>1, <2>2, WriteEffect
  <2> QED
    BY <2>3 DEF p
<1>3. ASSUME NEW i \in 1..Len(Pruned[r.type]), Len(Applied[r.type]) + i <= n
      PROVE  \/ Pruned[r.type][i] \in owes'
             \/ children'[Pruned[r.type][i]] = Nil
             \/ children'[Pruned[r.type][i]].owner # r.uid
  <2> DEFINE p == Pruned[r.type][i]
  <2>1. p \in Children /\ (p \in owes \/ children[p] = Nil \/ children[p].owner # r.uid)
    BY <1>1, <1>3, PlanType DEF Done
  <2> HIDE DEF p
  <2>2. p \in owes' \/ children'[p] = Nil \/ children'[p].owner # r.uid
    BY <2>1, WriteEffect DEF Owned
  <2> QED
    BY <2>2 DEF p
<1> QED
  BY <1>2, <1>3, Zenon DEF Done, Wanted

\* Applying a child adds its step to what is done.
LEMMA DoneApply ==
    ASSUME TypeOK, Apply, NEW r, r = job.cr, NEW n, n = job.step, r.uid # 0, Done(r, n - 1)
    PROVE  Done(r, n)'
<1> DEFINE o == Applied[r.type][n]
<1>1. /\ r \in Resource /\ r.type \in Types /\ n \in Nat
      /\ n \in 1..Len(Applied[r.type]) /\ o \in Children
  BY JobType, JobStep DEF Apply, Applying
<1>2. WriteChild(o, Wanted(r))
  BY DEF Apply
<1>3. ASSUME NEW i \in 1..Len(Applied[r.type]), i <= n
      PROVE  Applied[r.type][i] \in owes' \/ children'[Applied[r.type][i]] = Wanted(r)
  <2>1. Applied[r.type][i] \in Children
    BY <1>1, PlanType
  <2>2. CASE Applied[r.type][i] = o
    BY <1>1, <1>2, <2>2, WriteEffect
  <2>3. CASE Applied[r.type][i] # o
    <3>1. i <= n - 1
      BY <1>1, <1>3, <2>3
    <3> QED
      BY <1>1, <1>2, <2>1, <2>3, <3>1, WriteEffect DEF Done
  <2> QED
    BY <2>2, <2>3
<1>4. ASSUME NEW i \in 1..Len(Pruned[r.type]), Len(Applied[r.type]) + i <= n
      PROVE  FALSE
  BY <1>1, <1>4, PlanType
<1> QED
  BY <1>3, <1>4, Zenon DEF Done, Wanted

\* Pruning a child adds its step to what is done: a child the cache does not show
\* has an event to come.
LEMMA DonePrune ==
    ASSUME TypeOK, Informed, Prune,
           NEW r, r = job.cr, NEW n, n = job.step, r.uid # 0, Done(r, n - 1)
    PROVE  Done(r, n)'
<1> DEFINE a == Len(Applied[r.type])
           o == Pruned[r.type][n - a]
<1>1. /\ r \in Resource /\ r.type \in Types /\ n \in Nat /\ a \in Nat
      /\ n > a /\ n - a \in 1..Len(Pruned[r.type]) /\ o \in Children /\ o \in LookedUp
  BY JobType, JobStep, PlanType DEF Prune, Pruning
<1>2. \/ WriteChild(o, Nil)
      \/ UNCHANGED <<children, owes>> /\ (known[o] = Nil \/ known[o].owner # r.uid)
  BY DEF Prune
<1>3. o \in owes' \/ children'[o] = Nil \/ children'[o].owner # r.uid
  BY <1>1, <1>2, WriteEffect DEF Informed, Owned
<1>4. /\ owes \subseteq owes'
      /\ \A p \in Children \ {o} : children'[p] = children[p]
  BY <1>1, <1>2, WriteEffect
<1>5. ASSUME NEW i \in 1..Len(Applied[r.type]), i <= n
      PROVE  Applied[r.type][i] \in owes' \/ children'[Applied[r.type][i]] = Wanted(r)
  <2>1. Applied[r.type][i] \in Children \ {o}
    BY <1>1, PlanType
  <2>2. i <= n - 1
    BY <1>1
  <2> QED
    BY <1>4, <2>1, <2>2 DEF Done
<1>6. ASSUME NEW i \in 1..Len(Pruned[r.type]), a + i <= n
      PROVE  \/ Pruned[r.type][i] \in owes'
             \/ children'[Pruned[r.type][i]] = Nil
             \/ children'[Pruned[r.type][i]].owner # r.uid
  <2>1. Pruned[r.type][i] \in Children
    BY <1>1, PlanType
  <2>2. CASE Pruned[r.type][i] = o
    BY <1>3, <2>2
  <2>3. CASE Pruned[r.type][i] # o
    <3>1. a + i <= n - 1
      BY <1>1, <1>6, <2>3, SMTT(30)
    <3> QED
      BY <1>4, <2>1, <2>3, <3>1 DEF Done
  <2> QED
    BY <2>2, <2>3
<1> QED
  BY <1>5, <1>6, Zenon DEF Done, Wanted

\* OnCourse survives every step that leaves the queue, the worker and the cached
\* resource alone, keeps what is done, and brings the resource to the cached state
\* only by leaving it there.
LEMMA OnCourseKept ==
    ASSUME TypeOK, Fresh, OnCourse, UNCHANGED <<queued, job, seen>>,
           \A r \in Resource : \A n : r.uid # 0 /\ Done(r, n) => Done(r, n)',
           Live(seen) /\ cr' = seen => cr' = cr
    PROVE  OnCourse'
<1> SUFFICES ASSUME ~queued PROVE OnCourse'
  BY DEF OnCourse
<1>1. CASE job # Nil
  <2>1. job.cr = seen /\ Done(seen, job.step - 1) /\ seen \in Resource /\ seen.uid # 0
    BY <1>1, JobType DEF OnCourse, Fresh, Numbered
  <2>2. PICK r \in Resource : r = seen
    BY <2>1
  <2>n. PICK n : n = job.step - 1
    OBVIOUS
  <2>3. Done(r, n)'
    BY <2>1, <2>2, <2>n
  <2>4. seen' = r /\ job'.step - 1 = n /\ job' # Nil /\ job'.cr = seen'
    BY <1>1, <2>1, <2>2, <2>n
  <2> QED
    BY <2>3, <2>4 DEF OnCourse
<1>2. CASE job = Nil /\ Live(seen)
  <2>1. seen \in Resource /\ seen.uid # 0 /\ Done(seen, LastStep(seen.type))
    BY <1>2 DEF TypeOK, OnCourse, Fresh, Numbered, Live
  <2>2. PICK r \in Resource : r = seen
    BY <2>1
  <2>n. PICK n : n = LastStep(seen.type)
    OBVIOUS
  <2>3. Done(r, n)'
    BY <2>1, <2>2, <2>n
  <2>4. seen' = r /\ LastStep(seen'.type) = n /\ job' = Nil
    BY <1>2, <2>2, <2>n
  <2>5. cr' = seen' => cr'.phase = "ok" /\ cr'.observed = cr'.gen
    BY <1>2 DEF OnCourse
  <2> QED
    BY <2>3, <2>4, <2>5 DEF OnCourse
<1>3. CASE job = Nil /\ ~Live(seen)
  BY <1>3 DEF OnCourse, Live
<1> QED
  BY <1>1, <1>2, <1>3

\* What is done lasts when neither a child nor an event changes.
LEMMA DoneUnchanged ==
    ASSUME UNCHANGED <<children, owes>>, NEW r, NEW n, Done(r, n)
    PROVE  Done(r, n)'
  BY DEF Done, Wanted

\* Starting on a resource, nothing is done yet and nothing is asked.
LEMMA DoneNothing ==
    ASSUME NEW r \in Resource
    PROVE  Done(r, 0)
<1>1. r.type \in Types
  BY DEF Resource
<1>2. Len(Applied[r.type]) \in Nat
  BY <1>1, PlanType
<1> QED
  BY <1>2 DEF Done

\* The finished reconciliation leaves the status it stands for, or a resource that
\* differs from the cached one.
LEMMA StatusWritten ==
    ASSUME TypeOK, UpdateStatus, NEW r, r = job.cr, cr' = r
    PROVE  r.phase = "ok" /\ r.observed = r.gen
<1>1. r \in Resource /\ PatchStatus(r, "ok") /\ cr # Nil
  BY JobType DEF UpdateStatus, UpdatingStatus
<1>2. /\ r.phase = (IF "ok" # r.phase THEN "ok" ELSE cr.phase)
      /\ r.observed = (IF r.gen # r.observed THEN r.gen ELSE cr.observed)
  BY <1>1, PatchType
<1> QED
  BY <1>2

\* The worker stays on course.
LEMMA OnCourseStep ==
    ASSUME TypeOK, Fresh, Informed, OnCourse, [Next]_vars
    PROVE  OnCourse'
<1> DEFINE Lasting == \A r \in Resource : \A n : r.uid # 0 /\ Done(r, n) => Done(r, n)'
<1>1. UNCHANGED <<children, owes>> => Lasting
  BY DoneUnchanged
<1>2. ASSUME queued' PROVE OnCourse'
  BY <1>2 DEF OnCourse
<1>3. changes \in Nat /\ (seen # Nil => seen \in Resource /\ seen.gen <= changes)
  BY BoundsAssumption DEF TypeOK, Fresh, Numbered, Numbers
<1>4. ASSUME NEW t \in Types, CreateResource(t) PROVE OnCourse'
  <2>1. cr'.gen = changes + 1
    BY <1>4 DEF CreateResource
  <2>2. ~(Live(seen) /\ cr' = seen)
    BY <1>3, <2>1 DEF Live
  <2> QED
    BY <1>1, <1>4, <2>2, OnCourseKept DEF CreateResource, cache
<1>5. ASSUME NEW t \in Types, ChangeResource(t) PROVE OnCourse'
  <2>1. cr \in Resource /\ cr' = [cr EXCEPT !.gen = changes + 1, !.type = t]
    BY <1>5 DEF TypeOK, ChangeResource
  <2>2. cr'.gen = changes + 1
    BY <2>1 DEF Resource
  <2>3. ~(Live(seen) /\ cr' = seen)
    BY <1>3, <2>2 DEF Live
  <2> QED
    BY <1>1, <1>5, <2>3, OnCourseKept DEF ChangeResource, cache
<1>6. CASE DeleteResource
  <2>1. cr \in Resource /\ cr' = [cr EXCEPT !.deleting = TRUE]
    BY <1>6 DEF TypeOK, DeleteResource
  <2>2. cr'.deleting
    BY <2>1 DEF Resource
  <2>3. ~(Live(seen) /\ cr' = seen)
    BY <2>2 DEF Live
  <2> QED
    BY <1>1, <1>6, <2>3, OnCourseKept DEF DeleteResource, cache
<1>7. CASE CollectResource
  <2>1. ~(Live(seen) /\ cr' = seen)
    BY <1>7 DEF CollectResource, Live
  <2> QED
    BY <1>1, <1>7, <2>1, OnCourseKept DEF CollectResource, cache
<1>8. ASSUME NEW o \in Children, DriftChild(o) PROVE OnCourse'
  <2>1. PICK c \in {Nil, [owner |-> 0, gen |-> 0]}
              \cup (IF children[o] = Nil THEN {} ELSE {[children[o] EXCEPT !.gen = 0]}) :
            WriteChild(o, c)
    BY <1>8 DEF DriftChild
  <2>2. Owned(c) => Owned(children[o]) /\ c.owner = children[o].owner
    BY DriftType
  <2>3. Lasting
    BY <2>1, <2>2, DoneWrite
  <2> QED
    BY <1>8, <2>3, OnCourseKept DEF DriftChild, cache
<1>9. ASSUME NEW o \in Children, CollectChild(o) PROVE OnCourse'
  <2>1. Lasting
    BY <1>9, DoneWrite DEF CollectChild, Owned
  <2> QED
    BY <1>9, <2>1, OnCourseKept DEF CollectChild, cache
<1>10. ASSUME NEW o \in Children, ObserveChild(o) PROVE OnCourse'
  <2>1. CASE o \in owes
    BY <1>2, <1>10, <2>1 DEF ObserveChild
  <2>2. CASE o \notin owes
    <3>1. UNCHANGED <<children, owes, queued, job, seen, cr>>
      BY <1>10, <2>2 DEF ObserveChild, TypeOK
    <3> QED
      BY <1>1, <3>1, OnCourseKept
  <2> QED
    BY <2>1, <2>2
<1>11. CASE ObserveResource \/ Restart
  BY <1>2, <1>11 DEF ObserveResource, Restart
<1>12. CASE Start
  <2>1. CASE ~Live(seen)
    BY <1>12, <2>1 DEF Start, Live, OnCourse, cache
  <2>2. CASE Live(seen)
    <3>1. PICK r \in Resource : r = seen
      BY <2>2 DEF Live, TypeOK
    <3>2. job' = [cr |-> r, step |-> 1] /\ seen' = r /\ UNCHANGED <<children, owes>>
      BY <1>12, <2>2, <3>1 DEF Start, Live, cache, server
    <3>3. job' # Nil
      BY <3>2, NilAssumption
    <3>4. Done(r, 0)'
      BY <3>2, DoneNothing, DoneUnchanged
    <3>5. job'.cr = seen' /\ seen' = r /\ job'.step - 1 = 0
      BY <3>2
    <3> QED
      BY <3>3, <3>4, <3>5 DEF OnCourse
  <2> QED
    BY <2>1, <2>2
<1>13. ASSUME ~queued, job # Nil
       PROVE  /\ job.cr = seen /\ Done(seen, job.step - 1)
              /\ seen \in Resource /\ seen.uid # 0 /\ job.step \in Nat
  BY <1>13, JobType DEF OnCourse, Fresh, Numbered
<1>14. ASSUME ~queued, job # Nil, job' = [job EXCEPT !.step = @ + 1],
              UNCHANGED <<seen, queued>>,
              NEW r, r = job.cr, NEW n \in Nat, n = job.step, Done(r, n)'
       PROVE  OnCourse'
  <2>1. job' = [cr |-> r, step |-> n + 1]
    BY <1>14, JobType
  <2>2. job' # Nil /\ job'.step - 1 = n /\ job'.cr = r
    BY <1>13, <1>14, <2>1, NilAssumption
  <2>3. seen' = r
    BY <1>13, <1>14
  <2> QED
    BY <1>14, <2>2, <2>3 DEF OnCourse
<1>15. ASSUME ~queued, Apply PROVE OnCourse'
  <2>1. PICK r, n : r = job.cr /\ n = job.step
    OBVIOUS
  <2>2. job # Nil /\ r.uid # 0 /\ Done(r, n - 1) /\ n \in Nat
    BY <1>13, <1>15, <2>1 DEF Apply, Applying
  <2>3. Done(r, n)'
    BY <1>15, <2>1, <2>2, DoneApply
  <2> QED
    BY <1>14, <1>15, <2>1, <2>2, <2>3 DEF Apply, cache
<1>16. ASSUME ~queued, Prune PROVE OnCourse'
  <2>1. PICK r, n : r = job.cr /\ n = job.step
    OBVIOUS
  <2>2. job # Nil /\ r.uid # 0 /\ Done(r, n - 1) /\ n \in Nat
    BY <1>13, <1>16, <2>1 DEF Prune, Pruning
  <2>3. Done(r, n)'
    BY <1>16, <2>1, <2>2, DonePrune
  <2> QED
    BY <1>14, <1>16, <2>1, <2>2, <2>3 DEF Prune, cache
<1>17. CASE RefuseApply \/ LoseStatus \/ FailCall
  BY <1>2, <1>17 DEF RefuseApply, LoseStatus, FailCall, Fail
<1>18. ASSUME ~queued, UpdateStatus PROVE OnCourse'
  <2>1. job # Nil /\ job' = Nil /\ UNCHANGED <<children, owes, seen>>
    BY <1>18 DEF UpdateStatus, UpdatingStatus, cache
  <2>2. PICK r, n : r = job.cr /\ n = LastStep(r.type)
    OBVIOUS
  <2>3. r = seen /\ seen' = r /\ job.step - 1 = n
    BY <1>13, <1>18, <2>1, <2>2, JobStep DEF UpdateStatus
  <2>4. Done(r, n)'
    BY <1>13, <1>18, <2>1, <2>3, DoneUnchanged
  <2>5. cr' = r => cr'.phase = "ok" /\ cr'.observed = cr'.gen
    BY <1>18, <2>2, StatusWritten
  <2> QED
    BY <2>1, <2>2, <2>3, <2>4, <2>5 DEF OnCourse
<1>19. ASSUME queued, Apply \/ Prune \/ UpdateStatus PROVE OnCourse'
  BY <1>2, <1>19 DEF Apply, Prune, UpdateStatus
<1>20. CASE UNCHANGED vars
  BY <1>1, <1>20, OnCourseKept DEF vars
<1> QED
  BY <1>4, <1>5, <1>6, <1>7, <1>8, <1>9, <1>10, <1>11, <1>12, <1>15, <1>16, <1>17, <1>18,
     <1>19, <1>20
  DEF Next, Users, Observe, Collect, Reconcile

-----------------------------------------------------------------------------

\* The inductive invariant: for every plan, and any number of changes, failures and
\* children that were touched by somebody else.
THEOREM ReconcilerInvariant == Spec => []ReconcilerInv
<1>1. Init => ReconcilerInv
  <2> SUFFICES ASSUME Init PROVE ReconcilerInv
    OBVIOUS
  <2>1. changes \in Numbers /\ faults \in 0..MaxFaults /\ drift \in 0..MaxDrift
    BY BoundsAssumption DEF Init, Numbers
  <2>2. TypeOK
    BY <2>1 DEF Init, TypeOK
  <2>3. Informed
    BY LookedUpChildren DEF Init, Informed, Owned
  <2> QED
    BY <2>2, <2>3 DEF Init, ReconcilerInv, Fresh, OnCourse, Live
<1>2. ReconcilerInv /\ [Next]_vars => ReconcilerInv'
  BY TypeStep, FreshStep, InformedStep, OnCourseStep DEF ReconcilerInv
<1> QED
  BY <1>1, <1>2, PTL DEF Spec

\* The state of the operator keeps its type.
THEOREM TypeCorrect == Spec => []TypeOK
<1>1. ReconcilerInv => TypeOK
  BY DEF ReconcilerInv
<1> QED
  BY <1>1, ReconcilerInvariant, PTL

\* An operator at rest has missed nothing: no schedule of late cache events, failed
\* calls, restarts and stale status patches leaves children or a status of another
\* spec behind.
THEOREM NothingIsMissed == Spec => []NothingMissed
<1>1. ReconcilerInv => NothingMissed
  <2> SUFFICES ASSUME ReconcilerInv, Quiescent, Live(cr)
               PROVE  ChildrenMatch(cr) /\ cr.phase = "ok" /\ cr.observed = cr.gen
    BY DEF NothingMissed, Settled
  <2>1. /\ Done(cr, LastStep(cr.type)) /\ owes = {}
        /\ cr.phase = "ok" /\ cr.observed = cr.gen
    BY DEF ReconcilerInv, OnCourse, Quiescent
  <2>2. cr.type \in Types
    BY DEF ReconcilerInv, TypeOK, Live, Resource
  <2>3. ASSUME NEW i \in 1..Len(Applied[cr.type])
        PROVE  children[Applied[cr.type][i]] = Wanted(cr)
    <3>1. i \in Nat /\ i >= 1 /\ i <= Len(Applied[cr.type])
      BY <2>2, PlanType
    <3>2. i <= Len(Applied[cr.type]) + Len(Pruned[cr.type])
      BY <2>2, <3>1, PlanType, StepArithmetic, Zenon
    <3> QED
      BY <2>1, <3>2 DEF Done, LastStep
  <2>4. ASSUME NEW i \in 1..Len(Pruned[cr.type])
        PROVE  \/ children[Pruned[cr.type][i]] = Nil
               \/ children[Pruned[cr.type][i]].owner # cr.uid
    <3>1. Len(Applied[cr.type]) + i <= Len(Applied[cr.type]) + Len(Pruned[cr.type])
      BY <2>2, PlanType
    <3> QED
      BY <2>1, <3>1 DEF Done, LastStep
  <2> QED
    BY <2>1, <2>3, <2>4 DEF ChildrenMatch, Elements
<1> QED
  BY <1>1, ReconcilerInvariant, PTL
=============================================================================
