---------------------------- MODULE RegistryPage ----------------------------
(***************************************************************************)
(* The page of the plugin registry (components/plugin-registry.tsx): the    *)
(* catalogue, the releases of the selected project, the library of         *)
(* artifacts and the handlers that change it.  Requests are not numbered,   *)
(* so an answer counts whenever it comes.  `busy` disables some buttons and *)
(* not others: the Enter key, the cards and the upload stay.  What the     *)
(* backend does is in PluginRegistry; here the library is a version.       *)
(***************************************************************************)
EXTENDS Naturals, FiniteSets

CONSTANTS
    Project,      \* projects of the catalogue
    FirstLibrary, \* 1 if the library has had an artifact when the page is opened, else 0
    MaxRequests,  \* bound: requests, the page's first two included
    MaxUnderWay   \* bound: requests under way

VARIABLES
    library,   \* of the backend: its version, 0 if it has never had an artifact
    projects,  \* the catalogue on screen
    source,    \* the request it is from
    selected,  \* the selected project
    versions,  \* the project whose releases are listed
    artifacts, \* the library on screen
    target,    \* the dialog that deletes is open
    busy, error,
    request,   \* the requests, in the order in which they were sent
    requests,
    searched,  \* history: the last search
    stored,    \* history: the releases sent to be stored before a request failed or
               \* two overlapped, and as whose
    overlap,   \* history: a handler began during another, or during a first request
    failed,    \* history: a request failed
    nothing    \* history: a search found nothing

vars == <<library, projects, source, selected, versions, artifacts, target, busy, error,
          request, requests, searched, stored, overlap, failed, nothing>>
discover == <<projects, source, selected, versions>>
history == <<searched, stored, overlap, failed, nothing>>

None == "none"
Requests == 1 .. MaxRequests
Handlers == {"search", "versions", "store", "upload", "delete"}
NoRequest == [at |-> "none", kind |-> "top", project |-> None, read |-> 0]
Ended == [NoRequest EXCEPT !.at = "ended"]
New(kind, p) == [NoRequest EXCEPT !.at = "sent", !.kind = kind, !.project = p]
Active == {t \in Requests : request[t].at \notin {"none", "ended"}}
Handling == {t \in Active : request[t].kind \in Handlers}

\* The page is mounted; its two effects have sent their requests.
Init ==
    /\ library = FirstLibrary
    /\ projects = {} /\ source = 0 /\ selected = None /\ versions = None
    /\ artifacts = 0 /\ target = FALSE /\ busy = FALSE /\ error = FALSE
    /\ request = [t \in Requests |-> CASE t = 1 -> New("load", None)
                                       [] t = 2 -> New("top", None)
                                       [] OTHER -> NoRequest]
    /\ requests = 2
    /\ searched = 0 /\ stored = {} /\ overlap = FALSE /\ failed = FALSE /\ nothing = FALSE

-----------------------------------------------------------------------------
(* The handlers.                                                            *)

Start(kind, p) ==
    /\ requests < MaxRequests /\ Cardinality(Active) < MaxUnderWay
    /\ requests' = requests + 1
    /\ request' = [request EXCEPT ![requests + 1] = New(kind, p)]
    /\ overlap' = (overlap \/ Active # {})
    /\ busy' = TRUE /\ error' = FALSE

\* Mutant: the releases are fetched without a word to the buttons.
StartVersions_NotBusy(p) ==
    /\ requests < MaxRequests /\ Cardinality(Active) < MaxUnderWay
    /\ requests' = requests + 1
    /\ request' = [request EXCEPT ![requests + 1] = New("versions", p)]
    /\ overlap' = (overlap \/ Active # {})
    /\ busy' = busy /\ error' = FALSE

StartVersions(p) == Start("versions", p)

\* Something is typed in the box; the button needs ~busy, and the Enter key does not.
Search ==
    /\ Start("search", None)
    /\ selected' = None /\ versions' = None
    /\ searched' = requests + 1
    /\ UNCHANGED <<library, projects, source, artifacts, target, stored, failed, nothing>>

\* A card; the releases listed last stay until the answer.
SelectProject(p) ==
    /\ selected = None /\ p \in projects
    /\ StartVersions(p)
    /\ selected' = p
    /\ UNCHANGED <<library, projects, source, versions, artifacts, target,
                   searched, stored, failed, nothing>>

Back ==
    /\ selected # None /\ selected' = None
    /\ UNCHANGED <<library, projects, source, versions, artifacts, target, busy, error,
                   request, requests, history>>

\* The release is sent with the name and the description of the selected project.
Store ==
    /\ ~busy /\ selected # None /\ versions # None
    /\ Start("store", versions)
    /\ stored' = IF failed \/ overlap THEN stored
                 ELSE stored \cup {[release |-> versions, described |-> selected]}
    /\ UNCHANGED <<library, discover, artifacts, target, searched, failed, nothing>>

\* The button is a label, which `disabled` does not stop.
Upload ==
    /\ Start("upload", None)
    /\ UNCHANGED <<library, discover, artifacts, target, searched, stored, failed, nothing>>

AskToDelete ==
    /\ ~busy /\ ~target /\ artifacts > 0
    /\ target' = TRUE
    /\ UNCHANGED <<library, discover, artifacts, busy, error, request, requests, history>>

Cancel ==
    /\ target /\ target' = FALSE
    /\ UNCHANGED <<library, discover, artifacts, busy, error, request, requests, history>>

DeleteArtifact ==
    /\ target
    /\ Start("delete", None)
    /\ UNCHANGED <<library, discover, artifacts, target, searched, stored, failed, nothing>>

-----------------------------------------------------------------------------
(* The backend and the providers.                                           *)

Changes(t) == request[t].kind \in {"store", "upload", "delete"}

\* A request is handled.  One that changes the library may have done so although
\* its answer is an error.
Handle(t) ==
    /\ request[t].at = "sent"
    /\ \/ /\ library' = IF Changes(t) THEN library + 1 ELSE library
          /\ request' = [request EXCEPT ![t].at = "answered", ![t].read = library']
          /\ UNCHANGED failed
       \/ /\ library' \in {library, IF Changes(t) THEN library + 1 ELSE library}
          /\ request' = [request EXCEPT ![t].at = "refused"]
          /\ failed' = TRUE
    /\ UNCHANGED <<discover, artifacts, target, busy, error, requests, searched, stored, overlap,
                   nothing>>

-----------------------------------------------------------------------------
(* The answers.                                                             *)

\* Mutant: the buttons come back after a success only.
Finish_OnSuccess(t) == busy' = (busy /\ (request[t].kind \notin Handlers \/ request[t].at = "refused"))

\* The finally block of a handler; the effects have none.
Finish(t) == busy' = (busy /\ request[t].kind \notin Handlers)

Refused(t) ==
    /\ request[t].at = "refused"
    /\ error' = TRUE /\ Finish(t)
    /\ request' = [request EXCEPT ![t] = Ended]
    /\ UNCHANGED <<library, discover, artifacts, target, requests, history>>

\* Mutant: the effect fetches the most popular projects after every search.
AsksForTop_Always(found) == Cardinality(found) # Cardinality(projects)

\* The second effect runs when the number of projects changes, and does nothing
\* unless it is zero.
AsksForTop(found) == found = {} /\ projects # {}

\* The answer to a search, or the most popular projects, of which there are some.
Found(t) ==
    /\ request[t].at = "answered" /\ request[t].kind \in {"search", "top"}
    /\ \E found \in SUBSET Project :
        /\ request[t].kind = "top" => found # {}
        /\ projects' = found /\ source' = t
        /\ nothing' = (nothing \/ found = {})
        /\ IF AsksForTop(found) /\ requests < MaxRequests
           THEN /\ request' = [request EXCEPT ![t] = Ended, ![requests + 1] = New("top", None)]
                /\ requests' = requests + 1
           ELSE request' = [request EXCEPT ![t] = Ended] /\ UNCHANGED requests
    /\ Finish(t)
    /\ UNCHANGED <<library, selected, versions, artifacts, target, error,
                   searched, stored, overlap, failed>>

GotVersions(t) ==
    /\ request[t].at = "answered" /\ request[t].kind = "versions"
    /\ versions' = request[t].project
    /\ request' = [request EXCEPT ![t] = Ended]
    /\ Finish(t)
    /\ UNCHANGED <<library, projects, source, selected, artifacts, target, error, requests,
                   history>>

\* Mutant: the library is not loaded again.
Changed_NoLoad(t) ==
    /\ request[t].at = "answered" /\ Changes(t)
    /\ target' = (target /\ request[t].kind # "delete")
    /\ request' = [request EXCEPT ![t] = Ended]
    /\ Finish(t)
    /\ UNCHANGED <<library, discover, artifacts, error, requests, history>>

\* The handler goes on to load the library.
Changed(t) ==
    /\ request[t].at = "answered" /\ Changes(t)
    /\ target' = (target /\ request[t].kind # "delete")
    /\ request' = [request EXCEPT ![t].at = "loading"]
    /\ UNCHANGED <<library, discover, artifacts, busy, error, requests, history>>

\* The list is read, or cannot be.
ReadArtifacts(t) ==
    /\ request[t].at = "loading"
    /\ \/ request' = [request EXCEPT ![t].at = "loaded", ![t].read = library] /\ UNCHANGED failed
       \/ request' = [request EXCEPT ![t].at = "refused"] /\ failed' = TRUE
    /\ UNCHANGED <<library, discover, artifacts, target, busy, error, requests, searched, stored,
                   overlap, nothing>>

Loaded(t) ==
    /\ request[t].at = "loaded" \/ (request[t].at = "answered" /\ request[t].kind = "load")
    /\ artifacts' = request[t].read
    /\ request' = [request EXCEPT ![t] = Ended]
    /\ Finish(t)
    /\ UNCHANGED <<library, discover, target, error, requests, history>>

Next ==
    \/ Search \/ Back \/ Store \/ Upload \/ AskToDelete \/ Cancel \/ DeleteArtifact
    \/ \E p \in Project : SelectProject(p)
    \/ \E t \in Requests : \/ Handle(t) \/ Refused(t) \/ Found(t) \/ GotVersions(t)
                        \/ Changed(t) \/ ReadArtifacts(t) \/ Loaded(t)

Spec == Init /\ [][Next]_vars
-----------------------------------------------------------------------------
(* Properties.                                                              *)

\* The type of the state.
TypeOK ==
    /\ {library, artifacts} \subseteq 0 .. MaxRequests
    /\ {target, busy, error, overlap, failed, nothing} \subseteq BOOLEAN
    /\ projects \subseteq Project
    /\ {selected, versions} \subseteq Project \cup {None}
    /\ {source, searched, requests} \subseteq 0 .. MaxRequests
    /\ request \in [Requests -> [at : {"none", "sent", "answered", "refused", "loading", "loaded", "ended"},
                           kind : Handlers \cup {"load", "top"},
                           project : Project \cup {None}, read : 0 .. MaxRequests]]
    /\ stored \subseteq [release : Project, described : Project]

\* A release is stored under its own project's name and description, unless a
\* request had failed or two had overlapped: then the releases of one project are listed
\* below the name of another, and the button stores them as that.
StoredAsWhatItIs == \A s \in stored : s.release = s.described

\* The buttons come back when the handlers have ended, and while one runs they are
\* disabled unless it overlapped another request.
BusyIsTrue ==
    /\ busy => Handling # {}
    /\ Handling # {} => busy \/ overlap

\* What a search found stays on screen until the next one, unless it found nothing
\* (the popular projects take its place), failed, or overlapped another request.
ResultsStay ==
    searched # 0 /\ Active = {} => source = searched \/ nothing \/ failed \/ overlap

\* When no request is under way the library is shown as it is, own changes
\* included, unless one failed or two overlapped.
LibraryIsShown == Active = {} => artifacts = library \/ failed \/ overlap

\* The four together (plugin-registry.tsx, 75 to 200).
PanelIsSound == StoredAsWhatItIs /\ BusyIsTrue /\ ResultsStay /\ LibraryIsShown
=============================================================================
