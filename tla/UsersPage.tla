----------------------------- MODULE UsersPage -----------------------------
(***************************************************************************)
(* The page of the users (app/dashboard/users/page.tsx): the table, one     *)
(* dialog at a time, the requests that its buttons send and the fetch that *)
(* follows each.  The requests are answered in any order.  AdminSafety has *)
(* what the backend does with them; here it applies one or refuses it, and  *)
(* an answer may be lost.  Other administrators change users meanwhile.    *)
(* A user is a role and a suspension: names, dates and bans are left out.  *)
(***************************************************************************)
EXTENDS Naturals, FiniteSets

CONSTANTS
    User,
    Self,      \* the administrator at the page
    Task,      \* bound: requests under way
    MaxTasks   \* bound: requests and changes by other administrators

Gone == [role |-> "none", suspended |-> FALSE]
Row == [role : {"admin", "user"}, suspended : BOOLEAN]
Table == [User -> Row \cup {Gone}]

VARIABLES
    db,       \* the users
    users,    \* the table
    session,  \* useSession has answered
    dialog,   \* the dialog and the row it was opened with
    pending,  \* pendingAction is set
    loading, error,
    sequence, \* fetchSequence
    task,     \* the handlers under way
    tasks, changes,
    behind,   \* history: somebody else changed a user since the table was read
    missed,   \* history: a change by others, or one whose answer or fetch failed, may not be
              \* in the table, the form or the request under way
    twice     \* history: a deletion was confirmed while a request was under way

vars == <<db, users, session, dialog, pending, loading, error, sequence, task, tasks, changes,
          behind, missed, twice>>
page == <<users, dialog, pending, loading, error, sequence>>

Kinds == {"edit", "suspend", "restore", "delete"}
Closed == [kind |-> "none", user |-> Self, row |-> Gone]
Idle == [at |-> "idle", kind |-> "fetch", user |-> Self, role |-> "none", kept |-> FALSE,
         known |-> FALSE, number |-> 0, answer |-> [u \in User |-> Gone]]
Active == {t \in Task : task[t].at # "idle"}
Acting == {t \in Active : task[t].kind # "fetch"}
IsSelf(u) == session /\ u = Self

\* A handler begins; each slot of Task stands for one that is under way.
Start(t, new) ==
    /\ task[t].at = "idle" /\ tasks + changes < MaxTasks
    /\ task' = [task EXCEPT ![t] = new]
    /\ tasks' = tasks + 1

\* fetchUsers, up to its call.
StartFetch ==
    /\ sequence' = sequence + 1
    /\ loading' = TRUE /\ error' = FALSE

Fetching(t) == [t EXCEPT !.at = "asking", !.number = sequence + 1]

\* The page is mounted, and its first effect has run.
Init ==
    /\ db \in [User -> Row] /\ db[Self] = [role |-> "admin", suspended |-> FALSE]
    /\ users = [u \in User |-> Gone]
    /\ session = FALSE /\ dialog = Closed /\ pending = FALSE
    /\ loading = TRUE /\ error = FALSE /\ sequence = 1
    /\ \E first \in Task :
        task = [t \in Task |-> IF t = first THEN [Idle EXCEPT !.at = "asking", !.number = 1] ELSE Idle]
    /\ tasks = 1 /\ changes = 0 /\ behind = FALSE /\ missed = FALSE /\ twice = FALSE

-----------------------------------------------------------------------------
(* The user.                                                                *)

SessionKnown ==
    /\ ~session /\ session' = TRUE
    /\ UNCHANGED <<db, page, task, tasks, changes, behind, missed, twice>>

\* The buttons of a row.
CanOpen(kind, u) ==
    CASE kind = "edit" -> TRUE
      [] kind = "suspend" -> ~users[u].suspended /\ ~IsSelf(u)
      [] OTHER -> ~IsSelf(u)

Open(kind, u) ==
    /\ ~loading /\ ~pending /\ dialog = Closed /\ users[u] # Gone
    /\ CanOpen(kind, u)
    /\ dialog' = [kind |-> kind, user |-> u, row |-> users[u]]
    /\ UNCHANGED <<db, users, session, pending, loading, error, sequence, task, tasks, changes,
                   behind, missed, twice>>

Cancel ==
    /\ dialog # Closed /\ dialog' = Closed
    /\ UNCHANGED <<db, users, session, pending, loading, error, sequence, task, tasks, changes,
                   behind, missed, twice>>

\* A handler sets pendingAction and sends its request.
Send(t, kind, u, role, kept) ==
    /\ Start(t, [Idle EXCEPT !.at = "sent", !.kind = kind, !.user = u, !.role = role,
                             !.kept = kept, !.known = session])
    /\ pending' = TRUE /\ error' = FALSE
    /\ UNCHANGED <<db, users, session, loading, sequence, changes, behind, missed>>

\* A handler returns before it sends anything.
RefuseSelf ==
    /\ error' = TRUE
    /\ UNCHANGED <<db, users, session, pending, loading, sequence, task, tasks, changes, behind, missed, twice>>

\* Mutant: the select does not begin with the row's role.
SavedRole_Default(pick) ==
    IF IsSelf(dialog.user) THEN dialog.row.role
    ELSE IF pick = "untouched" THEN "user" ELSE pick

\* Of one's own account the select is disabled and the role is the row's.
SavedRole(pick) ==
    IF IsSelf(dialog.user) \/ pick = "untouched" THEN dialog.row.role ELSE pick

SaveEdit(t, pick) ==
    /\ dialog.kind = "edit" /\ ~pending
    /\ IF IsSelf(dialog.user) /\ SavedRole(pick) # "admin"
       THEN RefuseSelf
       ELSE Send(t, "edit", dialog.user, SavedRole(pick), pick = "untouched") /\ UNCHANGED twice
    /\ UNCHANGED dialog

\* Mutant: only the button of the row looks at the session.
SaveSuspension_NoCheck(t) ==
    /\ dialog.kind = "suspend" /\ ~pending
    /\ Send(t, "suspend", dialog.user, "none", FALSE) /\ UNCHANGED twice
    /\ UNCHANGED dialog

SaveSuspension(t) ==
    /\ dialog.kind = "suspend" /\ ~pending
    /\ IF IsSelf(dialog.user)
       THEN RefuseSelf
       ELSE Send(t, "suspend", dialog.user, "none", FALSE) /\ UNCHANGED twice
    /\ UNCHANGED dialog

\* Nothing disables the button that confirms.
ConfirmDeletion(t) ==
    /\ dialog.kind = "delete"
    /\ IF IsSelf(dialog.user)
       THEN RefuseSelf /\ dialog' = Closed
       ELSE /\ Send(t, "delete", dialog.user, "none", FALSE) /\ UNCHANGED dialog
            /\ twice' = (twice \/ Acting # {})

Restore(t, u) ==
    /\ ~loading /\ ~pending /\ dialog = Closed /\ users[u] # Gone /\ users[u].suspended
    /\ Send(t, "restore", u, "none", FALSE)
    /\ UNCHANGED <<dialog, twice>>

Retry(t) ==
    /\ error /\ ~loading /\ dialog = Closed
    /\ Start(t, Fetching(Idle)) /\ StartFetch
    /\ UNCHANGED <<db, users, session, dialog, pending, changes, behind, missed, twice>>

-----------------------------------------------------------------------------
(* The backend.                                                             *)

Effect(row, new) ==
    CASE new.kind = "edit" -> [row EXCEPT !.role = new.role]
      [] new.kind = "suspend" -> [row EXCEPT !.suspended = TRUE]
      [] new.kind = "restore" -> [row EXCEPT !.suspended = FALSE]
      [] OTHER -> Gone

\* The rules of user.service.ts.
Allowed(t) ==
    LET new == task[t] IN
    /\ db[new.user] # Gone
    /\ new.user = Self => new.kind = "restore" \/ (new.kind = "edit" /\ new.role = "admin")

\* A request is applied or refused; the answer to one that is applied may be lost.
Handle(t) ==
    /\ task[t].at = "sent"
    /\ \E answer \in {"accepted", "refused"} : task' = [task EXCEPT ![t].at = answer]
    /\ LET u == task[t].user IN
        \/ /\ Allowed(t)
           /\ db' = [db EXCEPT ![u] = Effect(@, task[t])]
           /\ missed' = (missed \/ task'[t].at = "refused")
        \/ /\ task'[t].at = "refused"
           /\ UNCHANGED <<db, missed>>
    /\ UNCHANGED <<page, session, tasks, changes, behind, twice>>

ReadUsers(t) ==
    /\ task[t].at = "asking"
    /\ task' = [task EXCEPT ![t].at = "seen", ![t].answer = db]
    /\ behind' = (behind /\ task[t].number # sequence)
    /\ UNCHANGED <<db, page, session, tasks, changes, missed, twice>>

FailToRead(t) ==
    /\ task[t].at = "asking"
    /\ task' = [task EXCEPT ![t].at = "failed"]
    /\ missed' = TRUE
    /\ UNCHANGED <<db, page, session, tasks, changes, behind, twice>>

\* Another administrator changes a user.
Other(u, row) ==
    /\ tasks + changes < MaxTasks /\ db[u] # Gone /\ row # db[u]
    /\ changes' = changes + 1
    /\ db' = [db EXCEPT ![u] = row]
    /\ behind' = TRUE /\ missed' = TRUE
    /\ UNCHANGED <<page, session, task, tasks, twice>>

-----------------------------------------------------------------------------
(* The answers.                                                             *)

\* The dialog of the request's kind closes, and the handler goes on to fetch.
Accepted(t) ==
    /\ task[t].at = "accepted"
    /\ dialog' = IF dialog.kind = task[t].kind THEN Closed ELSE dialog
    /\ task' = [task EXCEPT ![t] = Fetching(@)] /\ StartFetch
    /\ UNCHANGED <<db, users, session, pending, tasks, changes, behind, missed, twice>>

\* The dialog stays, and the finally block ends the handler.
Refused(t) ==
    /\ task[t].at = "refused"
    /\ error' = TRUE /\ pending' = FALSE
    /\ task' = [task EXCEPT ![t] = Idle]
    /\ UNCHANGED <<db, users, session, dialog, loading, sequence, tasks, changes, behind, missed, twice>>

\* Mutant: every fetch fills the table.
Fill_Always(t) ==
    /\ users' = IF task[t].at = "seen" THEN task[t].answer ELSE users
    /\ error' = (error \/ task[t].at = "failed")
    /\ loading' = FALSE

\* What the fetch with the last number brings.
Fill(t) ==
    IF task[t].number = sequence
    THEN /\ users' = IF task[t].at = "seen" THEN task[t].answer ELSE users
         /\ error' = (error \/ task[t].at = "failed")
         /\ loading' = FALSE
    ELSE UNCHANGED <<users, error, loading>>

\* Mutant: the Retry button ends pendingAction as well.
EndsAction_Always(t) == TRUE

EndsAction(t) == task[t].kind # "fetch"

\* The table lacks nothing, and no form or request is older than it.
CaughtUp(t) ==
    /\ task[t].number = sequence /\ task[t].at = "seen" /\ task[t].answer = db
    /\ dialog = Closed /\ Acting \subseteq {t}

\* fetchUsers returns, and with it the handler that waits for it.
Fetched(t) ==
    /\ task[t].at \in {"seen", "failed"}
    /\ Fill(t)
    /\ pending' = (pending /\ ~EndsAction(t))
    /\ missed' = (missed /\ ~CaughtUp(t))
    /\ task' = [task EXCEPT ![t] = Idle]
    /\ UNCHANGED <<db, session, dialog, sequence, tasks, changes, behind, twice>>

Next ==
    \/ SessionKnown \/ Cancel
    \/ \E u \in User : \/ \E kind \in Kinds \ {"restore"} : Open(kind, u)
                       \/ \E row \in Row \cup {Gone} : Other(u, row)
    \/ \E t \in Task :
        \/ \E pick \in {"untouched", "admin", "user"} : SaveEdit(t, pick)
        \/ \E u \in User : Restore(t, u)
        \/ SaveSuspension(t) \/ ConfirmDeletion(t) \/ Retry(t)
        \/ Handle(t) \/ ReadUsers(t) \/ FailToRead(t)
        \/ Accepted(t) \/ Refused(t) \/ Fetched(t)

Spec == Init /\ [][Next]_vars
-----------------------------------------------------------------------------
(* Properties.                                                              *)

\* The type of the state.
TypeOK ==
    /\ db \in Table /\ users \in Table
    /\ dialog \in [kind : Kinds \cup {"none"}, user : User, row : Row \cup {Gone}]
    /\ {session, pending, loading, error, behind, missed, twice} \subseteq BOOLEAN
    /\ sequence \in 1 .. MaxTasks
    /\ task \in [Task -> [at : {"idle", "sent", "accepted", "refused", "asking", "seen", "failed"},
                          kind : Kinds \cup {"fetch"}, user : User,
                          role : {"admin", "user", "none"}, kept : BOOLEAN, known : BOOLEAN,
                          number : 0 .. MaxTasks, answer : Table]]
    /\ {tasks, changes} \subseteq 0 .. MaxTasks

\* When nothing is under way and no error is shown, the table is the directory, own
\* changes included; only what changes changed since may be missing.
TableIsTrue == Active = {} /\ ~error => users = db \/ behind

\* The buttons stay disabled from a request to the end of the fetch that follows,
\* unless a deletion was confirmed twice.
OneAtATime == Acting # {} => (pending /\ Cardinality(Acting) = 1) \/ twice

\* Once the session is known the page asks for nothing that would lock its own
\* user out, whenever its dialog was opened.
SparesItself ==
    \A t \in Acting : task[t].known /\ task[t].user = Self
                        => task[t].kind = "restore" \/ (task[t].kind = "edit" /\ task[t].role = "admin")

\* A save that leaves the role alone does not change it, unless a change is missing
\* from what the form was opened with: another administrator's, one whose answer was
\* lost or one whose fetch failed.  Such a change of the role is undone; once a fetch
\* has brought it, the next form keeps it.  Nor is it kept after a deletion
\* was confirmed twice: the end of one request enables the buttons of the dialog that
\* the other one's edit is still sent from.
KeptRoleStays ==
    [][\A t \in Task :
        task[t].at = "sent" /\ task[t].kept /\ task'[t].at # "sent"
          => db'[task[t].user].role = db[task[t].user].role \/ missed \/ twice]_vars

\* The three together (page.tsx, 72 to 204).
PageIsSound == TableIsTrue /\ OneAtATime /\ SparesItself
=============================================================================
