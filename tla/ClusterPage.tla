----------------------------- MODULE ClusterPage -----------------------------
(***************************************************************************)
(* The page of the cluster's resources (app/dashboard/k8s/page.tsx) and its *)
(* hook use-k8s-resources.ts: a poll every 30 seconds asks the backend for  *)
(* the status of its Kubernetes client and for every list at once, waits    *)
(* for all of them, and shows what it got.  Polls are not numbered and      *)
(* overlap when the cluster is slow.  The cluster is a version that grows.  *)
(***************************************************************************)
EXTENDS Naturals

CONSTANTS
    List,        \* the lists: pods, deployments, ... ; "status" is asked for beside them
    Poll,        \* polls under way at a time
    MaxVersion,  \* bound: changes of the cluster
    MaxFailures  \* bound: lists that cannot be read

VARIABLES
    mounted,     \* whether the page is open
    version,     \* of the cluster
    linked,      \* whether the backend's Kubernetes client is initialized
    shown,       \* the version shown of the status and of each list; 0 is none
    poll,        \* the polls: whether under way, the calls not yet answered, what
                 \* was read (0 for a failure), and, as history, the version at the
                 \* beginning and whether no other poll was under way meanwhile
    initialLoading, refreshing, error, hasLoaded,
    failures,    \* lists that could not be read
    last         \* history: the poll that ended last

vars == <<mounted, version, linked, shown, poll, initialLoading, refreshing, error, hasLoaded, failures,
          last>>
screen == <<shown, initialLoading, refreshing, error, hasLoaded>>

Asked == List \cup {"status"}
NoPoll == [on |-> FALSE, left |-> {}, read |-> [a \in Asked |-> 0], began |-> 0, alone |-> TRUE]
UnderWay == {p \in Poll : poll[p].on}
FailedLists(p) == {a \in Asked : poll[p].read[a] = 0}

\* What the page shows, in the order it decides.
LoadingPanel == initialLoading /\ shown["status"] = 0
ErrorPanel == ~LoadingPanel /\ error
NotConnected == ~LoadingPanel /\ ~error /\ ~(shown["status"] > 0 /\ linked)
Tables == ~LoadingPanel /\ ~error /\ ~NotConnected

Init ==
    /\ mounted = TRUE /\ version = 1 /\ linked \in BOOLEAN
    /\ shown = [a \in Asked |-> 0]
    /\ poll = [p \in Poll |-> NoPoll]
    /\ initialLoading = TRUE /\ refreshing = FALSE /\ error = FALSE /\ hasLoaded = FALSE
    /\ failures = 0 /\ last = NoPoll

\* Something in the cluster changes.
Change ==
    /\ version < MaxVersion
    /\ version' = version + 1
    /\ UNCHANGED <<mounted, linked, poll, screen, failures, last>>

\* fetchData, up to its calls.
Begins == refreshing' = (refreshing \/ hasLoaded) /\ error' = FALSE

\* Mutant: the effect fetches once and sets no interval.
Tick_Once(p) ==
    /\ mounted /\ ~hasLoaded /\ UnderWay = {}
    /\ poll' = [poll EXCEPT ![p] = [NoPoll EXCEPT !.on = TRUE, !.left = Asked, !.began = version]]
    /\ Begins
    /\ UNCHANGED <<mounted, version, linked, shown, initialLoading, hasLoaded, failures, last>>

\* The effect's first fetch, and each tick of its interval.
Tick(p) ==
    /\ mounted /\ ~poll[p].on
    /\ poll' = [q \in Poll |->
                  IF q = p THEN [NoPoll EXCEPT !.on = TRUE, !.left = Asked, !.began = version,
                                              !.alone = (UnderWay = {})]
                  ELSE [poll[q] EXCEPT !.alone = @ /\ ~poll[q].on]]
    /\ Begins
    /\ UNCHANGED <<mounted, version, linked, shown, initialLoading, hasLoaded, failures, last>>

\* The backend reads what was asked for: of the status it knows itself.
Answer(p, a) ==
    /\ a \in poll[p].left
    /\ a = "status" \/ linked
    /\ poll' = [poll EXCEPT ![p].left = @ \ {a}, ![p].read[a] = version]
    /\ UNCHANGED <<mounted, version, linked, screen, failures, last>>

\* A call fails on its way, or the API server refuses it.
Lost(p, a) ==
    /\ a \in poll[p].left /\ failures < MaxFailures
    /\ failures' = failures + 1
    /\ poll' = [poll EXCEPT ![p].left = @ \ {a}]
    /\ UNCHANGED <<mounted, version, linked, screen, last>>

\* ensureInitialized refuses every list.
Unlinked(p, a) ==
    /\ a \in poll[p].left \ {"status"} /\ ~linked
    /\ poll' = [poll EXCEPT ![p].left = @ \ {a}]
    /\ UNCHANGED <<mounted, version, linked, screen, failures, last>>

\* Mutant: a poll in which one list failed shows none of them.
Shows_AllOrNone(p) == IF FailedLists(p) = {} THEN poll[p].read ELSE shown

\* A list that was read replaces the one on screen, the others stay.
Shows(p) == [a \in Asked |-> IF a \in FailedLists(p) THEN shown[a] ELSE poll[p].read[a]]

\* All calls of a poll are settled.
End(p) ==
    /\ poll[p].on /\ poll[p].left = {}
    /\ shown' = Shows(p)
    /\ error' = (error \/ FailedLists(p) # {})
    /\ hasLoaded' = TRUE /\ initialLoading' = FALSE /\ refreshing' = FALSE
    /\ last' = [poll[p] EXCEPT !.on = FALSE]
    /\ poll' = [poll EXCEPT ![p] = NoPoll]
    /\ UNCHANGED <<mounted, version, linked, failures>>

\* The page is left: the interval is cleared, and what is under way is nobody's.
Leave ==
    /\ mounted /\ mounted' = FALSE
    /\ poll' = [p \in Poll |-> NoPoll]
    /\ UNCHANGED <<version, linked, screen, failures, last>>

Settle(p) == End(p) \/ \E a \in Asked : Answer(p, a) \/ Lost(p, a) \/ Unlinked(p, a)

Next == Change \/ Leave \/ \E p \in Poll : Tick(p) \/ Settle(p)

Spec == Init /\ [][Next]_vars

\* The interval fires, and calls are answered.
Fairness == WF_vars(\E p \in Poll : Tick(p)) /\ \A p \in Poll : WF_vars(Settle(p))
FairSpec == Spec /\ Fairness
-----------------------------------------------------------------------------
(* Properties.                                                              *)

Readings == [Asked -> 0 .. MaxVersion]
Polls == [on : BOOLEAN, left : SUBSET Asked, read : Readings, began : 0 .. MaxVersion, alone : BOOLEAN]

\* The type of the state.
TypeOK ==
    /\ version \in 1 .. MaxVersion /\ failures \in 0 .. MaxFailures
    /\ shown \in Readings /\ poll \in [Poll -> Polls] /\ last \in Polls
    /\ {mounted, linked, initialLoading, refreshing, error, hasLoaded} \subseteq BOOLEAN

\* After a poll that met no other the screen shows it: every list it could read is at
\* least as recent as its beginning even when others failed, there is an error exactly
\* if some failed, and nothing turns.
PollIsShown ==
    mounted /\ UnderWay = {} /\ hasLoaded /\ last.alone =>
        /\ \A a \in Asked : last.read[a] > 0 => shown[a] >= last.began
        /\ error = (\E a \in Asked : last.read[a] = 0)
        /\ ~refreshing /\ ~initialLoading

\* Failures and overlapping polls do not stay: once the cluster is quiet and its
\* lists can be read, the tables of a linked cluster are shown on
\* a page that stays open, all of them true.
CatchesUp == <>[](mounted /\ linked => Tables /\ \A a \in Asked : shown[a] = version)
=============================================================================
