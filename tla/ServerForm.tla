----------------------------- MODULE ServerForm -----------------------------
(***************************************************************************)
(* The pages that create and edit a server (server-form.tsx and its        *)
(* panels, servers/create, servers/edit): the form, the plugin list that    *)
(* arrives after it, and saves of two requests each.  Nothing disables the  *)
(* submit button while a save is under way, so several may be.              *)
(***************************************************************************)
EXTENDS ServerSettings, Naturals

CONSTANTS
    Artifact,   \* plugin artifacts of the library
    Varied,     \* fields and keys that users change in this instance
    Save,       \* saves
    MaxEdits,   \* bound: changes made in the form
    MaxOthers   \* bound: deployments by other administrators

ASSUME FormAssumption == MaxEdits \in Nat /\ MaxOthers \in Nat

VARIABLES
    kind,      \* "new", "server" or "proxy": the page and its resource
    exists,    \* the resource is in the database
    row,       \* its row
    installed, \* the artifacts installed on it
    page,      \* "closed" or "open"
    form,      \* the state of ServerForm
    picked,    \* its registryArtifactIds
    list,      \* the request for the installed plugins: "none", "asked", "seen", "failed"
    seen,      \* its answer
    saves,     \* the saves
    touched,   \* history: fields changed and artifacts unticked since the page was opened
    edits, others

vars == <<kind, exists, row, installed, page, form, picked, list, seen, saves, touched,
          edits, others>>
database == <<exists, row, installed>>
screen == <<page, form, picked, list, seen, touched>>

\* The component is unmounted and its state is gone; its saves go on.
Unmount ==
    /\ page' = "closed" /\ form' = Blank /\ picked' = {} /\ list' = "none"
    /\ seen' = {} /\ touched' = {}

NoSave == [at |-> "idle", form |-> Blank, picked |-> {}, seen |-> {}, touched |-> {}]
Over(end) == [NoSave EXCEPT !.at = end]

-----------------------------------------------------------------------------
(* The panels: which fields they let a user change.                         *)

BasicPanel == {"description", "memoryLimit", "memoryRequest", "cpuRequest", "cpuLimit", "eula"}
ServerPanel ==
    {"type", "motd", "mode", "difficulty", "maxPlayers", "viewDistance", "pvp", "onlineMode",
     "allowFlight", "enableCommandBlock", "hardcore"}
        \cup (IF Custom(form) THEN {"customJarUrl"} ELSE {"version"})
        \cup (IF form.set["type"] = "PAPER" THEN {"paperBuild"} ELSE {})
WorldPanel ==
    {"levelName", "levelSeed", "levelType", "generatorSettings", "spawnProtection",
     "simulationDistance", "spawnAnimals", "spawnMonsters", "spawnNpcs"}
PlayersPanel ==
    {"enableWhitelist", "ops", "opsFile"}
        \cup (IF form.set["enableWhitelist"] = "true" THEN {"whitelist", "whitelistFile"} ELSE {})
PerformancePanel == Tuning \cup {"enableJmx", "jvmOpts", "jvmXxOpts", "jvmDdOpts"}
ModsPanel == {"plugins", "spigetResources", "removeOldPlugins"}
ResourcesPanel == {"resourcePack", "resourcePackSha1", "resourcePackEnforce", "serverIcon"}
AutomationPanel ==
    {"enableRcon", "enableQuery", "enableAutopause", "enableAutostop"}
        \cup (IF form.set["enableRcon"] = "true"
              THEN {"rconPassword", "rconPort", "rconCmdsStartup", "rconCmdsOnConnect"} ELSE {})
        \cup (IF form.set["enableQuery"] = "true" THEN {"queryPort"} ELSE {})
        \cup (IF form.set["enableAutopause"] = "true"
              THEN {"autopauseTimeoutEst", "autopauseTimeoutInit", "autopauseKnockInterface"}
              ELSE {})
        \cup (IF form.set["enableAutostop"] = "true"
              THEN {"autostopTimeoutEst", "autostopTimeoutInit"} ELSE {})
NetworkPanel ==
    {"listenPort", "serviceType"}
        \cup (IF form.set["serviceType"] = "other" THEN {"nodePort"} ELSE {})
AdvancedPanel == {"timezone", "uid", "gid", "stopDuration"}

Editable ==
    BasicPanel \cup ServerPanel \cup WorldPanel \cup PlayersPanel \cup PerformancePanel
      \cup ModsPanel \cup ResourcesPanel \cup AutomationPanel \cup NetworkPanel \cup AdvancedPanel

Choices(f) ==
    CASE f = "type" -> {"VANILLA", "PAPER", "CUSTOM"}
      [] f \in Flag \cup Switch \cup Toggle \cup Tuning -> {"true", "false"}
      [] f \in {"mode", "difficulty", "serviceType"} -> {"default", "other"}
      [] OTHER -> {"", "other"}

-----------------------------------------------------------------------------
\* The fields that have a column.
Column == Field \ (Defaulted \cup Optional \cup Flag \cup Switch \cup {"customJarUrl"})

\* Rows the API accepts that differ from a fresh one in one column or variable.
Rows == {Fresh, Patched(Fresh, Blank)}
          \cup {[Fresh EXCEPT !.col[f] = "other"] : f \in (Column \cap Varied) \ (Toggle \cup Tuning)}
          \cup {[Fresh EXCEPT !.col[f] = v] :
                  f \in (Toggle \cup Tuning) \cap Varied, v \in {"true", "false"}}
          \cup {[Patched(Fresh, Blank) EXCEPT !.env[k] = "other"] : k \in Key \cap Varied}
          \cup {[Patched(Fresh, Blank) EXCEPT !.env[k] = v] :
                  k \in (Flag \cup Switch \cup Toggle \cup Tuning) \cap Varied,
                  v \in {"true", "false"}}

Init ==
    /\ kind \in {"new", "server", "proxy"}
    /\ exists = (kind # "new")
    /\ row \in IF kind = "server" THEN Rows ELSE {Fresh}
    /\ installed \in IF kind = "server" THEN SUBSET Artifact ELSE {{}}
    /\ page = "closed" /\ form = Blank /\ picked = {} /\ list = "none" /\ seen = {}
    /\ saves = [s \in Save |-> NoSave]
    /\ touched = {}
    /\ edits = 0 /\ others = 0

\* The page is mounted; with an id the installed plugins are asked for.
Open ==
    /\ page = "closed"
    /\ page' = "open"
    /\ form' = IF kind = "new" THEN Blank ELSE Form(row)
    /\ picked' = {} /\ seen' = {} /\ touched' = {}
    /\ list' = IF kind = "new" THEN "none" ELSE "asked"
    /\ UNCHANGED <<kind, database, saves, edits, others>>

\* Mutant: the answer is kept but its plugins are not ticked.
PluginsArrive_Unticked ==
    /\ page = "open" /\ list = "asked"
    /\ list' = "seen" /\ seen' = installed
    /\ UNCHANGED <<kind, database, page, form, picked, saves, touched, edits, others>>

\* The answer replaces what the user has ticked meanwhile.
PluginsArrive ==
    /\ page = "open" /\ list = "asked"
    /\ list' = "seen" /\ seen' = installed /\ picked' = installed
    /\ UNCHANGED <<kind, database, page, form, saves, touched, edits, others>>

PluginsFail ==
    /\ page = "open" /\ list = "asked"
    /\ list' = "failed"
    /\ UNCHANGED <<kind, database, page, form, picked, seen, saves, touched, edits, others>>

EditField(f, v) ==
    /\ page = "open" /\ edits < MaxEdits
    /\ f \in Editable /\ v # form.set[f]
    /\ form' = [form EXCEPT !.set[f] = v]
    /\ touched' = touched \cup {f}
    /\ edits' = edits + 1
    /\ UNCHANGED <<kind, database, page, picked, list, seen, saves, others>>

\* addEnvVar, updateEnvVar and removeEnvVar.
EditVariable(k, v) ==
    /\ page = "open" /\ edits < MaxEdits
    /\ v # form.extra[k]
    /\ form' = [form EXCEPT !.extra[k] = v]
    /\ touched' = touched \cup {k}
    /\ edits' = edits + 1
    /\ UNCHANGED <<kind, database, page, picked, list, seen, saves, others>>

\* The plugin library is shown for types that take plugins.
Tick(a) ==
    /\ page = "open" /\ edits < MaxEdits
    /\ form.set["type"] = "PAPER"
    /\ picked' = IF a \in picked THEN picked \ {a} ELSE picked \cup {a}
    /\ touched' = IF a \in picked THEN touched \cup {a} ELSE touched \ {a}
    /\ edits' = edits + 1
    /\ UNCHANGED <<kind, database, page, form, list, seen, saves, others>>

Submit(s) ==
    /\ page = "open" /\ saves[s].at \notin {"patch", "put"}
    /\ Submittable(form)
    /\ saves' = [saves EXCEPT ![s] = [at |-> "patch", form |-> form, picked |-> picked,
                                      seen |-> seen, touched |-> touched]]
    /\ UNCHANGED <<kind, database, screen, edits, others>>

\* The first request: POST of a new resource, PATCH of one that exists.  A
\* proxy has no second one, and success leads back to the list.
Stored(s) ==
    /\ saves[s].at = "patch"
    /\ Accepted(saves[s].form)
    /\ kind = "new" => ~exists
    /\ exists' = TRUE
    /\ row' = IF kind = "proxy" THEN ProxyPatched(row, saves[s].form)
              ELSE Patched(row, saves[s].form)
    /\ saves' = [saves EXCEPT ![s] = IF kind = "proxy" THEN Over("done") ELSE [@ EXCEPT !.at = "put"]]
    /\ IF kind = "proxy" THEN Unmount ELSE UNCHANGED screen
    /\ UNCHANGED <<kind, installed, edits, others>>

\* PUT /registry/servers/:id/plugins
Deployed(s) ==
    /\ saves[s].at = "put"
    /\ installed' = saves[s].picked
    /\ saves' = [saves EXCEPT ![s] = Over("done")]
    /\ Unmount
    /\ UNCHANGED <<kind, exists, row, edits, others>>

\* Either request is refused or fails; the form shows the error and stays.
SaveFails(s) ==
    /\ saves[s].at \in {"patch", "put"}
    /\ saves' = [saves EXCEPT ![s] = Over(IF @.at = "patch" THEN "failed" ELSE "half")]
    /\ UNCHANGED <<kind, database, screen, edits, others>>

\* onCancel, or any navigation.
Leave ==
    /\ page = "open"
    /\ Unmount
    /\ UNCHANGED <<kind, database, saves, edits, others>>

\* Another administrator deploys or removes a plugin.
AnotherDeploys(a) ==
    /\ kind = "server" /\ others < MaxOthers
    /\ installed' = IF a \in installed THEN installed \ {a} ELSE installed \cup {a}
    /\ others' = others + 1
    /\ UNCHANGED <<kind, exists, row, screen, saves, edits>>

Next ==
    \/ Open \/ PluginsArrive \/ PluginsFail \/ Leave
    \/ \E f \in Field \cap Varied : \E v \in Choices(f) : EditField(f, v)
    \/ \E k \in Key \cap Varied : \E v \in {"none", "other"} : EditVariable(k, v)
    \/ \E a \in Artifact : Tick(a) \/ AnotherDeploys(a)
    \/ \E s \in Save : Submit(s) \/ Stored(s) \/ Deployed(s) \/ SaveFails(s)

Spec == Init /\ [][Next]_vars
-----------------------------------------------------------------------------
(* Properties.                                                              *)

RowType == [col : [Field -> Value], env : [Key -> Value]]
FormType == [set : [Field -> Value], extra : [Key -> Value]]

\* The type of the state.
TypeOK ==
    /\ kind \in {"new", "server", "proxy"} /\ exists \in BOOLEAN
    /\ row \in RowType
    /\ installed \subseteq Artifact
    /\ page \in {"closed", "open"}
    /\ form \in FormType
    /\ picked \subseteq Artifact /\ seen \subseteq Artifact
    /\ list \in {"none", "asked", "seen", "failed"}
    /\ saves \in [Save -> [at : {"idle", "patch", "put", "done", "half", "failed"},
                           form : FormType, picked : SUBSET Artifact, seen : SUBSET Artifact,
                           touched : SUBSET (Field \cup Key \cup Artifact)]]
    /\ touched \subseteq Field \cup Key \cup Artifact
    /\ edits \in 0 .. MaxEdits /\ others \in 0 .. MaxOthers

\* A choice the form can store: not the empty one, which means the default, not
\* the other kind's version or JAR, and not one of the user's own variables.
\* The two tuning flags cannot be switched off: false is sent as undefined.
Storable(g, f) ==
    /\ f \notin Unrestored
    /\ Truthy(g.set[f])
    /\ f \in Key => ~Truthy(g.extra[f]) /\ ~Truthy(g.extra["type"])
    /\ f \in Tuning => g.set[f] = "true"
    /\ f = "version" => ~Custom(g)
    /\ f = "customJarUrl" => Custom(g)

\* What the form shows when it is saved is what it shows when it is opened
\* again, for every field in whichever column or variable it is kept.
WhatIsShownIsSaved ==
    [][\A s \in Save :
        saves[s].at = "patch" /\ saves'[s].at = "put" =>
            \A f \in Field : Storable(saves[s].form, f) => Shown(row', f) = saves[s].form.set[f]]_vars

\* A save uninstalls a plugin only if the user unticked it or the form had not
\* been told of it when it was submitted.
UninstallsOnPurpose ==
    [][\A s \in Save :
        saves[s].at = "put" /\ saves'[s].at = "done" =>
            installed \ installed' \subseteq saves[s].touched \cup (Artifact \ saves[s].seen)]_vars

\* What a save of one administrator should mean: it changes only what the user
\* changed.  (Violated: by the fields the form does not restore, and by plugins
\* whose list had not arrived.)
SaveKeepsTheRest ==
    [][\A s \in Save : kind = "server" =>
        /\ saves[s].at = "patch" /\ saves'[s].at = "put" =>
             \A f \in Field \ saves[s].touched : Loaded(row', f) = Loaded(row, f)
        /\ saves[s].at = "put" /\ saves'[s].at = "done" =>
             installed \ installed' \subseteq saves[s].touched]_vars
=============================================================================
