--------------------------- MODULE ServerSettings ---------------------------
(***************************************************************************)
(* The settings of a server as the web form sees them: what it shows of a  *)
(* row (toInitialServerFormData and the initial state of ServerForm), and   *)
(* what a save writes back (toCommonServerRequestFields and the PATCH).     *)
(* A setting lives in a column of the row, in an environment variable, or   *)
(* in both.  A field, its column and its variable have one name here; a     *)
(* value is a member of Value, whose "other" is any that is not the default.*)
(***************************************************************************)
CONSTANT CustomKey  \* environment variables that belong to no field

Value == {"none", "", "default", "other", "true", "false", "VANILLA", "PAPER", "CUSTOM"}

-----------------------------------------------------------------------------
(* The fields, by how they are stored.                                      *)

\* A variable, written unless empty; the form has a default.
Defaulted ==
    {"spawnProtection", "viewDistance", "simulationDistance", "levelName", "rconPort",
     "queryPort", "autopauseTimeoutEst", "autopauseTimeoutInit", "autopauseTimeoutKn",
     "autopausePeriod", "autopauseKnockInterface", "autostopTimeoutEst",
     "autostopTimeoutInit", "autostopPeriod", "timezone", "uid", "gid", "stopDuration"}
\* A variable, written unless empty; there is no default.
Optional ==
    {"generatorSettings", "whitelist", "whitelistFile", "ops", "opsFile", "jvmXxOpts",
     "jvmDdOpts", "resourcePack", "resourcePackSha1", "rconPassword", "rconCmdsStartup",
     "rconCmdsOnConnect", "rconCmdsFirstConnect", "rconCmdsOnDisconnect",
     "rconCmdsLastDisconnect", "plugins", "spigetResources", "paperBuild", "serverIcon"}
\* A variable, written when the box is ticked.
Flag ==
    {"allowFlight", "enableCommandBlock", "hardcore", "enableWhitelist", "enableJmx",
     "resourcePackEnforce", "enableAutopause", "enableAutostop", "removeOldPlugins"}
\* A variable that is always written; of these, the ones that are on unless "false".
Switch == {"spawnAnimals", "spawnMonsters", "spawnNpcs", "enableRcon", "enableQuery", "eula"}
OnUnlessFalse == {"spawnAnimals", "spawnMonsters", "spawnNpcs", "enableRcon"}
\* A column and a variable.
Mirrored == {"levelSeed", "levelType"}
\* A column without a default, that a variable of that name overrides when it is read.
Overridden == {"motd", "jvmOpts"}
\* Columns with a default; the variable overrides when read.
Choice == {"difficulty", "mode", "maxPlayers"}
Toggle == {"pvp", "onlineMode"}
Tuning == {"useAikarFlags", "useMeowiceFlags"}
\* Columns that have no variable.
Quantity == {"memoryLimit", "memoryRequest", "cpuRequest", "cpuLimit"}
Direct == {"description", "listenPort", "serviceType", "nodePort"}

Field == Defaulted \cup Optional \cup Flag \cup Switch \cup Mirrored \cup Overridden
           \cup Choice \cup Toggle \cup Tuning \cup Quantity \cup Direct
           \cup {"type", "version", "customJarUrl"}
Key == CustomKey \cup (Field \ (Quantity \cup Direct))

ASSUME CustomAssumption == CustomKey \cap Field = {}

\* The fields the form's initial state does not mention.
Unrestored == Optional \cup Mirrored \cup Overridden \cup {"nodePort"}

-----------------------------------------------------------------------------
(* Reading.                                                                 *)

Truthy(v) == v \notin {"none", ""}
Or(v, w) == IF Truthy(v) THEN v ELSE w
Bool(b) == IF b THEN "true" ELSE "false"
Env(row, k) == IF k \in Key THEN row.env[k] ELSE "none"

\* What toInitialServerFormData makes of a row.
Loaded(row, f) ==
    LET e == Env(row, f)  c == row.col[f] IN
    CASE f \in Defaulted -> Or(e, "default")
      [] f \in Optional \cup {"customJarUrl"} -> Or(e, "none")
      [] f \in Mirrored \cup Overridden -> Or(e, Or(c, "none"))
      [] f \in Flag -> Bool(e = "true")
      [] f \in Switch -> Bool(IF f \in OnUnlessFalse THEN e # "false" ELSE e = "true")
      [] f \in Choice -> Or(e, Or(c, "default"))
      [] f \in Toggle -> IF Truthy(e) THEN Bool(e = "true") ELSE Or(c, "true")
      [] f \in Tuning -> Bool(e = "true" \/ c = "true")
      [] f \in Quantity \cup {"listenPort", "serviceType"} -> Or(c, "default")
      [] f = "type" -> IF Or(e, c) \in {"VANILLA", "PAPER", "CUSTOM"} THEN Or(e, c) ELSE "PAPER"
      [] f = "version" -> Or(e, Or(c, ""))
      [] f = "description" -> Or(c, "")
      [] f = "nodePort" -> Or(c, "none")

\* What the form starts with: a field it does not restore is undefined.
Shown(row, f) ==
    IF f \in Unrestored THEN "none"
    ELSE IF f = "version"
         THEN IF Loaded(row, "type") = "CUSTOM" THEN "" ELSE Or(Loaded(row, f), "default")
    ELSE IF f = "customJarUrl" THEN Or(Loaded(row, f), "")
    ELSE Loaded(row, f)

\* The form: its fields, and the variables of the last panel by key.  Those of
\* managed keys are filtered out when a row is loaded.
Form(row) == [set |-> [f \in Field |-> Shown(row, f)],
              extra |-> [k \in Key |-> IF k \in CustomKey THEN row.env[k] ELSE "none"]]

\* A new form: the defaults of ServerForm without initial data.
Blank ==
    [set |-> [f \in Field |->
       CASE f \in Unrestored -> "none"
         [] f \in {"description", "customJarUrl"} -> ""
         [] f = "type" -> "PAPER"
         [] f \in Flag \cup Tuning \cup {"enableQuery"} -> "false"
         [] f \in Toggle \cup (Switch \ {"enableQuery"}) -> "true"
         [] OTHER -> "default"],
     extra |-> [k \in Key |-> "none"]]

-----------------------------------------------------------------------------
(* Writing.                                                                 *)

Custom(form) == form.set["type"] = "CUSTOM"

\* Mutant: a box that is not ticked leaves no trace of a switch that is on by default.
Managed_SwitchLikeFlag(form, k) ==
    LET v == form.set[k] IN
    CASE k \in Defaulted \cup Optional \cup Mirrored -> Or(v, "none")
      [] k \in Flag \cup Switch -> IF v = "true" THEN "true" ELSE "none"
      [] k = "type" -> v
      [] k = "version" -> IF Custom(form) THEN "" ELSE Or(v, "none")
      [] k = "customJarUrl" -> IF Custom(form) THEN v ELSE "none"
      [] OTHER -> "none"

\* toManagedEnvironmentVariables: the variable of field k, if it is written.
Managed(form, k) ==
    LET v == form.set[k] IN
    CASE k \in Defaulted \cup Optional \cup Mirrored -> Or(v, "none")
      [] k \in Flag -> IF v = "true" THEN "true" ELSE "none"
      [] k \in Switch \cup {"type"} -> v
      [] k = "version" -> IF Custom(form) THEN "" ELSE Or(v, "none")
      [] k = "customJarUrl" -> IF Custom(form) THEN v ELSE "none"
      [] OTHER -> "none"

\* The user's own variables win over the form's.
Environment(form) ==
    [k \in Key |-> IF Truthy(form.extra[k]) THEN form.extra[k]
                   ELSE IF k \in CustomKey THEN "none" ELSE Managed(form, k)]

Keep == "undefined"     \* a property JSON leaves out, so the column stays

\* toCommonServerRequestFields: what is sent for the column of field f.
Sent(form, f) ==
    LET v == form.set[f] IN
    CASE f \in {"listenPort", "serviceType", "difficulty", "mode"} \cup Toggle -> v
      [] f = "description" -> Or(v, "none")
      [] f = "nodePort" -> IF form.set["serviceType"] = "other" THEN Or(v, "none") ELSE "none"
      [] f \in Quantity \cup {"maxPlayers", "jvmOpts"} -> Or(v, Keep)
      [] f \in Tuning -> IF v = "true" THEN v ELSE Keep
      [] f \in Mirrored \cup {"motd"} -> IF v = "none" THEN Keep ELSE v
      [] f = "type" -> IF Custom(form) THEN "VANILLA" ELSE v
      [] f = "version" -> IF Custom(form) THEN Keep ELSE Or(v, "default")
      [] OTHER -> Keep

\* Mutant: a column that is not sent is written all the same.
Patched_Undefined(row, form) ==
    [col |-> [f \in Field |-> Sent(form, f)], env |-> Environment(form)]

\* PATCH /servers/:id replaces the variables and writes the columns sent.
Patched(row, form) ==
    [col |-> [f \in Field |-> IF Sent(form, f) = Keep THEN row.col[f] ELSE Sent(form, f)],
     env |-> Environment(form)]

\* PATCH /reverse-proxy/:id: the columns the two kinds share.
ProxyColumns == {"description", "listenPort", "serviceType", "nodePort",
                 "memoryLimit", "cpuRequest", "cpuLimit"}
ProxyPatched(row, form) ==
    [row EXCEPT !.col = [f \in Field |->
        IF f \in ProxyColumns /\ Sent(form, f) # Keep THEN Sent(form, f) ELSE @[f]]]

\* The columns of a row that is created without them.
FreshColumn(f) ==
    CASE f \in Choice \cup Quantity \cup {"serviceType", "version", "listenPort"} -> "default"
      [] f \in Toggle -> "true"
      [] f \in Tuning -> "false"
      [] f = "type" -> "VANILLA"
      [] OTHER -> "none"
Fresh == [col |-> [f \in Field |-> FreshColumn(f)], env |-> [k \in Key |-> "none"]]

\* The schemas refuse an empty port; the form itself the EULA and a custom
\* server without its JAR.
Accepted(form) == Truthy(form.set["listenPort"])
Submittable(form) ==
    /\ form.set["eula"] = "true"
    /\ Custom(form) => Truthy(form.set["customJarUrl"])
=============================================================================
