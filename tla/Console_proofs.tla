---------------------------- MODULE Console_proofs ----------------------------
(***************************************************************************)
(* Proofs about the parts of MCConsole, for any users, requests, plugins,   *)
(* lists and bounds: the variables of a pod (PodEnv_proofs), the form of a  *)
(* server, the page of the users, the page of the registry, the page of a   *)
(* server's operations, and the picture of the topology with its layout.    *)
(***************************************************************************)
EXTENDS MCConsole, PodEnv_proofs, FiniteSetTheorems, WellFoundedInduction

-----------------------------------------------------------------------------
(* The variables of a pod                                                  *)

LEMMA EnvConsoleStep ==
    ASSUME [ConsoleNext]_consoleVars
    PROVE  /\ part' = part
           /\ part = "env" => [EnvNext]_envVars
           /\ part # "env" => UNCHANGED envVars
  BY DEF ConsoleNext, consoleVars, envVars

\* The part of PodEnv, and the empty list of the others.
EnvPart ==
    /\ part = "env" => EnvInvariant /\ LastWins
    /\ part # "env" => env = << >>

LEMMA EnvPartStays == ConsoleSpec => []EnvPart
<1>1. ConsoleInit => EnvPart
  BY InvariantInit, WordsInit DEF ConsoleInit, EnvPart
<1>2. EnvPart /\ [ConsoleNext]_consoleVars => EnvPart'
  <2> SUFFICES ASSUME EnvPart, [ConsoleNext]_consoleVars PROVE EnvPart'
    OBVIOUS
  <2>1. CASE part = "env"
    BY <2>1, EnvConsoleStep, InvariantStep, WordsStep DEF EnvPart
  <2>2. CASE part # "env"
    BY <2>2, EnvConsoleStep DEF EnvPart, envVars
  <2> QED
    BY <2>1, <2>2
<1> QED
  BY <1>1, <1>2, PTL DEF ConsoleSpec

\* The list says what the user and the operator mean, and the heap fits.
THEOREM TheEnvironmentIsMeant == ConsoleSpec => []EnvironmentIsMeant
<1>1. EnvPart => EnvironmentIsMeant
  BY HeapStays DEF EnvPart, EnvironmentIsMeant, SaysWhatIsMeant
<1> QED
  BY <1>1, EnvPartStays, PTL

\* The list is one that Kubernetes accepts.
THEOREM TheEnvironmentIsWellFormed == ConsoleSpec => []WellFormed
<1>1. EnvPart => WellFormed
  BY DEF EnvPart, EnvInvariant, FromUser, WellFormed, NamesUnique, Distinct, OneSource, ProtectedKept
<1> QED
  BY <1>1, EnvPartStays, PTL

-----------------------------------------------------------------------------
(* The form of a server: a save uninstalls only what its user unticked or   *)
(* the form had not been told of.                                          *)

\* What a save under way remembers of the plugins it was told of: those that are
\* no longer picked were unticked.
SaveOK(j) ==
    /\ j = [at |-> j.at, form |-> j.form, picked |-> j.picked, seen |-> j.seen, touched |-> j.touched]
    /\ j.picked \subseteq Artifact
    /\ j.seen \subseteq j.picked \cup j.touched

\* The same for the form: before the list arrives it knows of no plugin.
FormOK ==
    /\ installed \subseteq Artifact /\ picked \subseteq Artifact
    /\ list # "seen" => seen = {}
    /\ seen \subseteq picked \cup touched

PluginInv ==
    /\ FormOK
    /\ DOMAIN saves = Save
    /\ \A s \in Save : SaveOK(saves[s])

\* What becomes of a save.
LEMMA SavesOver ==
    /\ SaveOK(NoSave)
    /\ \A end : SaveOK(Over(end)) /\ Over(end).at = end
  BY DEF NoSave, Over, SaveOK

LEMMA PluginInit == Init => PluginInv
  BY SavesOver DEF Init, PluginInv, FormOK

\* One save changes.
LEMMA OneSave ==
    ASSUME PluginInv, FormOK', NEW s \in Save, NEW j, SaveOK(j), saves' = [saves EXCEPT ![s] = j]
    PROVE  PluginInv'
  BY DEF PluginInv

\* The page is closed, or nothing of it changes.
LEMMA ScreenStays ==
    ASSUME FormOK, installed' \subseteq Artifact, Unmount \/ UNCHANGED screen
    PROVE  FormOK'
<1>1. CASE Unmount
  BY <1>1 DEF Unmount, FormOK
<1>2. CASE UNCHANGED screen
  BY <1>2 DEF screen, FormOK
<1> QED
  BY <1>1, <1>2

LEMMA PluginStep == PluginInv /\ [Next]_vars => PluginInv'
<1> SUFFICES ASSUME PluginInv, [Next]_vars PROVE PluginInv'
  OBVIOUS
<1> USE DEF database
<1>0. FormOK /\ installed \subseteq Artifact
  BY DEF PluginInv, FormOK
<1>1. CASE UNCHANGED vars
  BY <1>1 DEF vars, PluginInv, FormOK
<1>2. CASE Open \/ PluginsArrive \/ PluginsFail \/ Leave
  BY <1>2 DEF Open, PluginsArrive, PluginsFail, Leave, Unmount, PluginInv, FormOK
<1>3. ASSUME NEW f, NEW v, EditField(f, v) \/ EditVariable(f, v) PROVE PluginInv'
  BY <1>3 DEF EditField, EditVariable, PluginInv, FormOK
<1>4. ASSUME NEW a \in Artifact, Tick(a) PROVE PluginInv'
  BY <1>4 DEF Tick, PluginInv, FormOK
<1>5. ASSUME NEW a \in Artifact, AnotherDeploys(a) PROVE PluginInv'
  <2>1. FormOK'
    BY <1>0, <1>5, ScreenStays DEF AnotherDeploys
  <2> QED
    BY <1>5, <2>1 DEF AnotherDeploys, PluginInv
<1>6. ASSUME NEW s \in Save, Submit(s) PROVE PluginInv'
  <2> DEFINE j == [at |-> "patch", form |-> form, picked |-> picked, seen |-> seen, touched |-> touched]
  <2>1. SaveOK(j)
    BY <1>0 DEF SaveOK, FormOK
  <2>2. FormOK'
    BY <1>0, <1>6, ScreenStays DEF Submit
  <2> QED
    BY <1>6, <2>1, <2>2, OneSave DEF Submit
<1>7. ASSUME NEW s \in Save, Stored(s) PROVE PluginInv'
  <2>1. FormOK'
    BY <1>0, <1>7, ScreenStays DEF Stored
  <2>2. SaveOK([saves[s] EXCEPT !.at = "put"])
    <3> DEFINE j == saves[s]
    <3>1. SaveOK(j)
      BY DEF PluginInv
    <3>2. [j EXCEPT !.at = "put"] = [at |-> "put", form |-> j.form, picked |-> j.picked,
                                     seen |-> j.seen, touched |-> j.touched]
      <4> HIDE DEF j
      <4> QED
        BY <3>1 DEF SaveOK
    <3> QED
      BY <3>1, <3>2 DEF SaveOK
  <2>3. PICK j : SaveOK(j) /\ saves' = [saves EXCEPT ![s] = j]
    BY <1>7, <2>2, SavesOver DEF Stored
  <2> QED
    BY <2>1, <2>3, OneSave
<1>8. ASSUME NEW s \in Save, Deployed(s) PROVE PluginInv'
  <2>1. installed' \subseteq Artifact
    BY <1>8 DEF Deployed, PluginInv, SaveOK
  <2>2. FormOK'
    BY <1>0, <1>8, <2>1, ScreenStays DEF Deployed
  <2> QED
    BY <1>8, <2>2, SavesOver, OneSave DEF Deployed
<1>9. ASSUME NEW s \in Save, SaveFails(s) PROVE PluginInv'
  <2>1. FormOK'
    BY <1>0, <1>9, ScreenStays DEF SaveFails
  <2>2. PICK end : saves' = [saves EXCEPT ![s] = Over(end)]
    BY <1>9 DEF SaveFails
  <2> QED
    BY <2>1, <2>2, SavesOver, OneSave
<1> QED
  BY <1>1, <1>2, <1>3, <1>4, <1>5, <1>6, <1>7, <1>8, <1>9 DEF Next

\* Only the deployment of a save ends it well, and it installs what was picked.
LEMMA OnlyDeployedIsDone ==
    ASSUME PluginInv, [Next]_vars, NEW s \in Save, saves[s].at = "put", saves'[s].at = "done"
    PROVE  installed' = saves[s].picked
<1> USE DEF database
<1>1. saves'[s] # saves[s]
  OBVIOUS
<1>2. ASSUME UNCHANGED saves PROVE FALSE
  BY <1>1, <1>2
<1>3. PICK t \in Save : Submit(t) \/ Stored(t) \/ Deployed(t) \/ SaveFails(t)
  BY <1>2 DEF Next, vars, Open, PluginsArrive, PluginsFail, Leave, EditField, EditVariable, Tick,
     AnotherDeploys
<1>4. t = s
  BY <1>1, <1>3 DEF Submit, Stored, Deployed, SaveFails, PluginInv
<1>5. CASE Submit(t) \/ Stored(t)
  BY <1>4, <1>5 DEF Submit, Stored
<1>6. CASE SaveFails(t)
  <2>1. saves'[s] = Over("half")
    BY <1>4, <1>6 DEF SaveFails, PluginInv
  <2> QED
    BY <2>1, SavesOver
<1>7. CASE Deployed(t)
  BY <1>4, <1>7 DEF Deployed
<1> QED
  BY <1>3, <1>5, <1>6, <1>7

\* A save uninstalls a plugin only if its user unticked it or the form had not
\* been told of it when it was submitted, whatever others deploy meanwhile.
THEOREM UninstalledOnPurpose == Spec => UninstallsOnPurpose
<1> DEFINE OnPurpose ==
        \A s \in Save :
            saves[s].at = "put" /\ saves'[s].at = "done" =>
                installed \ installed' \subseteq saves[s].touched \cup (Artifact \ saves[s].seen)
<1>1. PluginInv /\ [Next]_vars => OnPurpose
  <2> SUFFICES ASSUME PluginInv, [Next]_vars, NEW s \in Save,
                      saves[s].at = "put", saves'[s].at = "done"
               PROVE  installed \ installed' \subseteq saves[s].touched \cup (Artifact \ saves[s].seen)
    OBVIOUS
  <2>1. installed' = saves[s].picked
    BY OnlyDeployedIsDone
  <2>2. installed \subseteq Artifact /\ saves[s].seen \subseteq saves[s].picked \cup saves[s].touched
    BY DEF PluginInv, FormOK, SaveOK
  <2> QED
    BY <2>1, <2>2
<1> QED
  BY <1>1, PluginInit, PluginStep, PTL DEF Spec, UninstallsOnPurpose

-----------------------------------------------------------------------------
(* The form of a server: its values have their types, and a save keeps what *)
(* the form shows.                                                         *)

Boxes == Flag \cup Switch \cup Toggle \cup Tuning

RowFits(r) == r \in RowType /\ \A f \in Toggle : r.col[f] \in {"true", "false"}

FormFits(g) ==
    /\ g \in FormType
    /\ \A f \in Boxes : g.set[f] \in {"true", "false"}
    /\ g.set["type"] \in {"VANILLA", "PAPER", "CUSTOM"}

\* A field is of one kind.
LEMMA KindsApart ==
    /\ \A f \in Defaulted : f \notin Optional \cup Boxes \cup Mirrored \cup Overridden \cup Choice
                              \cup Quantity \cup Direct \cup {"type", "version", "customJarUrl"}
    /\ \A f \in Optional : f \notin Boxes \cup Mirrored \cup Overridden \cup Choice
                              \cup Quantity \cup Direct \cup {"type", "version", "customJarUrl"}
    /\ \A f \in Flag : f \notin Switch \cup Toggle \cup Tuning
    /\ \A f \in Switch : f \notin Toggle \cup Tuning
    /\ Toggle \cap Tuning = {}
    /\ \A f \in Boxes : f \notin Mirrored \cup Overridden \cup Choice
                              \cup Quantity \cup Direct \cup {"type", "version", "customJarUrl"}
    /\ \A f \in Mirrored \cup Overridden \cup Choice \cup Quantity \cup Direct :
           f \notin {"type", "version", "customJarUrl"}
    /\ \A f \in Mirrored \cup Overridden \cup Choice : f \notin Quantity \cup Direct
    /\ Mirrored \cap Overridden = {} /\ Choice \cap (Mirrored \cup Overridden) = {}
    /\ Quantity \cap Direct = {}
<1> USE DEF Boxes
<1>1. \A f \in Defaulted : f \notin Optional \cup Boxes \cup Mirrored \cup Overridden \cup Choice
                              \cup Quantity \cup Direct \cup {"type", "version", "customJarUrl"}
  BY DEF Defaulted, Optional, Flag, Switch, Mirrored, Overridden, Choice, Toggle, Tuning, Quantity, Direct
<1>2. \A f \in Optional : f \notin Boxes \cup Mirrored \cup Overridden \cup Choice
                              \cup Quantity \cup Direct \cup {"type", "version", "customJarUrl"}
  BY DEF Optional, Flag, Switch, Mirrored, Overridden, Choice, Toggle, Tuning, Quantity, Direct
<1>3. /\ \A f \in Flag : f \notin Switch \cup Toggle \cup Tuning
      /\ \A f \in Switch : f \notin Toggle \cup Tuning
      /\ Toggle \cap Tuning = {}
  BY DEF Flag, Switch, Toggle, Tuning
<1>4. \A f \in Boxes : f \notin Mirrored \cup Overridden \cup Choice
                              \cup Quantity \cup Direct \cup {"type", "version", "customJarUrl"}
  BY DEF Flag, Switch, Mirrored, Overridden, Choice, Toggle, Tuning, Quantity, Direct
<1>5. /\ \A f \in Mirrored \cup Overridden \cup Choice \cup Quantity \cup Direct :
           f \notin {"type", "version", "customJarUrl"}
      /\ \A f \in Mirrored \cup Overridden \cup Choice : f \notin Quantity \cup Direct
      /\ Mirrored \cap Overridden = {} /\ Choice \cap (Mirrored \cup Overridden) = {}
      /\ Quantity \cap Direct = {}
  BY DEF Mirrored, Overridden, Choice, Quantity, Direct
<1> QED
  BY <1>1, <1>2, <1>3, <1>4, <1>5

LEMMA Words ==
    /\ \A b \in BOOLEAN : Bool(b) \in {"true", "false"}
    /\ \A v \in Value, w \in Value : Or(v, w) \in Value
    /\ Keep \notin Value
  BY DEF Bool, Or, Truthy, Value, Keep

\* What a row says, kind by kind.
LEMMA LoadedByKind ==
    ASSUME NEW r, NEW f
    PROVE  LET e == Env(r, f)  c == r.col[f] IN
      /\ f \in Defaulted => Loaded(r, f) = Or(e, "default")
      /\ f \in Optional \cup {"customJarUrl"} => Loaded(r, f) = Or(e, "none")
      /\ f \in Mirrored \cup Overridden => Loaded(r, f) = Or(e, Or(c, "none"))
      /\ f \in Flag => Loaded(r, f) = IF e = "true" THEN "true" ELSE "false"
      /\ f \in Switch => Loaded(r, f) = IF (f \in OnUnlessFalse /\ e # "false") \/ (f \notin OnUnlessFalse /\ e = "true")
                                        THEN "true" ELSE "false"
      /\ f \in Choice => Loaded(r, f) = Or(e, Or(c, "default"))
      /\ f \in Toggle => Loaded(r, f) = IF Truthy(e) THEN IF e = "true" THEN "true" ELSE "false"
                                        ELSE Or(c, "true")
      /\ f \in Tuning => Loaded(r, f) = IF e = "true" \/ c = "true" THEN "true" ELSE "false"
      /\ f \in Quantity \cup {"listenPort", "serviceType"} => Loaded(r, f) = Or(c, "default")
      /\ f = "type" => Loaded(r, f) = IF Or(e, c) \in {"VANILLA", "PAPER", "CUSTOM"} THEN Or(e, c) ELSE "PAPER"
      /\ f = "version" => Loaded(r, f) = Or(e, Or(c, ""))
      /\ f = "description" => Loaded(r, f) = Or(c, "")
      /\ f = "nodePort" => Loaded(r, f) = Or(c, "none")
<1> DEFINE e == Env(r, f)
           c == r.col[f]
           x1 == Or(e, "default")
           x2 == Or(e, "none")
           x3 == Or(e, Or(c, "none"))
           x4 == IF e = "true" THEN "true" ELSE "false"
           x5 == IF (f \in OnUnlessFalse /\ e # "false") \/ (f \notin OnUnlessFalse /\ e = "true")
                 THEN "true" ELSE "false"
           x6 == Or(e, Or(c, "default"))
           x7 == IF Truthy(e) THEN IF e = "true" THEN "true" ELSE "false" ELSE Or(c, "true")
           x8 == IF e = "true" \/ c = "true" THEN "true" ELSE "false"
           x9 == Or(c, "default")
           x10 == IF Or(e, c) \in {"VANILLA", "PAPER", "CUSTOM"} THEN Or(e, c) ELSE "PAPER"
           x11 == Or(e, Or(c, ""))
           x12 == Or(c, "")
           x13 == Or(c, "none")
<1>1. Loaded(r, f) =
    CASE f \in Defaulted -> x1
      [] f \in Optional \cup {"customJarUrl"} -> x2
      [] f \in Mirrored \cup Overridden -> x3
      [] f \in Flag -> x4
      [] f \in Switch -> x5
      [] f \in Choice -> x6
      [] f \in Toggle -> x7
      [] f \in Tuning -> x8
      [] f \in Quantity \cup {"listenPort", "serviceType"} -> x9
      [] f = "type" -> x10
      [] f = "version" -> x11
      [] f = "description" -> x12
      [] f = "nodePort" -> x13
  BY DEF Loaded, Bool
<1> HIDE DEF x1, x2, x3, x4, x5, x6, x7, x8, x9, x10, x11, x12, x13
<1>2. {"listenPort", "serviceType", "description", "nodePort"} \subseteq Direct
  BY DEF Direct
<1>3. /\ f \in Defaulted => Loaded(r, f) = x1
      /\ f \in Optional \cup {"customJarUrl"} => Loaded(r, f) = x2
      /\ f \in Mirrored \cup Overridden => Loaded(r, f) = x3
      /\ f \in Choice => Loaded(r, f) = x6
  BY <1>1, <1>2, KindsApart DEF Boxes
<1>4. /\ f \in Flag => Loaded(r, f) = x4
      /\ f \in Switch => Loaded(r, f) = x5
      /\ f \in Toggle => Loaded(r, f) = x7
      /\ f \in Tuning => Loaded(r, f) = x8
  BY <1>1, <1>2, KindsApart DEF Boxes
<1>5. /\ f \in Quantity \cup {"listenPort", "serviceType"} => Loaded(r, f) = x9
      /\ f = "type" => Loaded(r, f) = x10
      /\ f = "version" => Loaded(r, f) = x11
      /\ f = "description" => Loaded(r, f) = x12
      /\ f = "nodePort" => Loaded(r, f) = x13
  BY <1>1, <1>2, KindsApart DEF Boxes
<1> QED
  BY <1>3, <1>4, <1>5 DEF x1, x2, x3, x4, x5, x6, x7, x8, x9, x10, x11, x12, x13

LEMMA FieldsByKind ==
    ASSUME NEW f \in Field
    PROVE  \/ f \in Defaulted \/ f \in Optional \/ f \in Flag \/ f \in Switch
           \/ f \in Mirrored \cup Overridden \/ f \in Choice \/ f \in Toggle \/ f \in Tuning
           \/ f \in Quantity \/ f \in {"description", "listenPort", "serviceType", "nodePort"}
           \/ f \in {"type", "version", "customJarUrl"}
  BY DEF Field, Direct

LEMMA LoadedTyped ==
    ASSUME NEW r, RowFits(r), NEW f \in Field
    PROVE  /\ Loaded(r, f) \in Value
           /\ f \in Boxes => Loaded(r, f) \in {"true", "false"}
           /\ f = "type" => Loaded(r, f) \in {"VANILLA", "PAPER", "CUSTOM"}
<1> DEFINE e == Env(r, f)
           c == r.col[f]
           x == Loaded(r, f)
<1>1. e \in Value /\ c \in Value /\ (f \in Toggle => c \in {"true", "false"})
  BY DEF Env, RowFits, RowType, Value
<1>2. {"none", "", "default", "true", "false", "VANILLA", "PAPER", "CUSTOM"} \subseteq Value
  BY DEF Value
<1>3. /\ f \in Defaulted => x = Or(e, "default")
      /\ f \in Optional \cup {"customJarUrl"} => x = Or(e, "none")
      /\ f \in Mirrored \cup Overridden => x = Or(e, Or(c, "none"))
      /\ f \in Flag \cup Switch \cup Tuning => x \in {"true", "false"}
      /\ f \in Choice => x = Or(e, Or(c, "default"))
      /\ f \in Toggle => x \in {"true", "false"} \/ x = Or(c, "true")
      /\ f \in Quantity \cup {"listenPort", "serviceType"} => x = Or(c, "default")
      /\ f = "type" => x \in {"VANILLA", "PAPER", "CUSTOM"}
      /\ f = "version" => x = Or(e, Or(c, ""))
      /\ f = "description" => x = Or(c, "")
      /\ f = "nodePort" => x = Or(c, "none")
  BY LoadedByKind, ZenonT(30)
<1> HIDE DEF e, c, x
<1>4. x \in Value
  BY <1>1, <1>2, <1>3, FieldsByKind, Words DEF Or
<1>5. f \in Boxes => x \in {"true", "false"}
  BY <1>1, <1>3 DEF Or, Boxes
<1> QED
  BY <1>3, <1>4, <1>5 DEF x

LEMMA FormOfRow ==
    ASSUME NEW r, RowFits(r)
    PROVE  FormFits(Form(r)) /\ FormFits(Blank)
<1>0. {"none", "", "default", "true", "false", "PAPER"} \subseteq Value
  BY DEF Value
<1>1. ASSUME NEW f \in Field PROVE Shown(r, f) \in Value
  BY <1>0, LoadedTyped DEF Shown, Or
<1>2. ASSUME NEW f \in Boxes PROVE Shown(r, f) \in {"true", "false"} /\ f \in Field
  <2>1. f \in Field
    BY DEF Boxes, Field
  <2>2. f \notin Unrestored /\ f \notin {"version", "customJarUrl"}
    BY KindsApart DEF Unrestored, Direct
  <2> QED
    BY <2>1, <2>2, LoadedTyped DEF Shown
<1>3. "type" \in Field /\ "type" \notin Unrestored
  BY KindsApart DEF Field, Unrestored
<1>4. Shown(r, "type") \in {"VANILLA", "PAPER", "CUSTOM"}
  BY <1>3, LoadedTyped DEF Shown
<1>5. \A k \in Key : r.env[k] \in Value
  BY DEF RowFits, RowType
<1>6. FormFits(Form(r))
  <2>1. Form(r) \in FormType
    BY <1>0, <1>1, <1>5 DEF Form, FormType
  <2>2. \A f \in Boxes : Form(r).set[f] \in {"true", "false"}
    BY <1>2 DEF Form
  <2>3. Form(r).set["type"] \in {"VANILLA", "PAPER", "CUSTOM"}
    BY <1>3, <1>4 DEF Form
  <2> QED
    BY <2>1, <2>2, <2>3 DEF FormFits
<1>7. FormFits(Blank)
  <2> DEFINE b(f) == CASE f \in Unrestored -> "none"
                       [] f \in {"description", "customJarUrl"} -> ""
                       [] f = "type" -> "PAPER"
                       [] f \in Flag \cup Tuning \cup {"enableQuery"} -> "false"
                       [] f \in Toggle \cup (Switch \ {"enableQuery"}) -> "true"
                       [] OTHER -> "default"
  <2>1. \A f \in Field : b(f) \in Value
    BY <1>0
  <2>2. \A f \in Boxes : b(f) \in {"true", "false"}
    <3>1. \A f \in Boxes : f \notin Unrestored /\ f \notin {"description", "customJarUrl"} /\ f # "type"
      BY KindsApart DEF Unrestored, Direct
    <3> QED
      BY <3>1 DEF Boxes
  <2>3. b("type") = "PAPER"
    <3>1. "type" \notin Boxes /\ "type" # "enableQuery"
      BY KindsApart
    <3> QED
      BY <1>3, <3>1 DEF Boxes
  <2>4. Blank = [set |-> [f \in Field |-> b(f)], extra |-> [k \in Key |-> "none"]]
    BY DEF Blank
  <2> HIDE DEF b
  <2>5. Blank \in FormType
    BY <1>0, <2>1, <2>4 DEF FormType
  <2>6. Boxes \subseteq Field
    BY DEF Boxes, Field
  <2> QED
    BY <1>3, <2>2, <2>3, <2>4, <2>5, <2>6 DEF FormFits
<1> QED
  BY <1>6, <1>7

\* What is written, kind by kind.
LEMMA ManagedByKind ==
    ASSUME NEW g, NEW k
    PROVE  LET v == g.set[k] IN
      /\ k \in Defaulted \cup Optional \cup Mirrored => Managed(g, k) = Or(v, "none")
      /\ k \in Flag => Managed(g, k) = IF v = "true" THEN "true" ELSE "none"
      /\ k \in Switch \cup {"type"} => Managed(g, k) = v
      /\ k = "version" => Managed(g, k) = IF Custom(g) THEN "" ELSE Or(v, "none")
      /\ k = "customJarUrl" => Managed(g, k) = IF Custom(g) THEN v ELSE "none"
      /\ k \in Overridden \cup Choice \cup Toggle \cup Tuning \cup Quantity \cup Direct
            => Managed(g, k) = "none"
      /\ Managed(g, k) \in {Or(v, "none"), "true", "none", v, ""}
<1> DEFINE v == g.set[k]
           w == Or(v, "none")
<1>1. Managed(g, k) =
    CASE k \in Defaulted \cup Optional \cup Mirrored -> w
      [] k \in Flag -> IF v = "true" THEN "true" ELSE "none"
      [] k \in Switch \cup {"type"} -> v
      [] k = "version" -> IF Custom(g) THEN "" ELSE w
      [] k = "customJarUrl" -> IF Custom(g) THEN v ELSE "none"
      [] OTHER -> "none"
  BY DEF Managed
<1> HIDE DEF v, w
<1>2. /\ k \in Defaulted \cup Optional \cup Mirrored => Managed(g, k) = w
      /\ k \in Flag => Managed(g, k) = IF v = "true" THEN "true" ELSE "none"
      /\ k \in Switch \cup {"type"} => Managed(g, k) = v
  BY <1>1, KindsApart DEF Boxes
<1>3. /\ k = "version" => Managed(g, k) = IF Custom(g) THEN "" ELSE w
      /\ k = "customJarUrl" => Managed(g, k) = IF Custom(g) THEN v ELSE "none"
  BY <1>1, KindsApart DEF Boxes
<1>4. k \in Overridden \cup Choice \cup Toggle \cup Tuning \cup Quantity \cup Direct
         => Managed(g, k) = "none"
  BY <1>1, KindsApart DEF Boxes
<1>5. Managed(g, k) \in {w, "true", "none", v, ""}
  BY <1>1
<1> QED
  BY <1>2, <1>3, <1>4, <1>5 DEF v, w

LEMMA SentByKind ==
    ASSUME NEW g, NEW f
    PROVE  LET v == g.set[f] IN
      /\ f \in {"listenPort", "serviceType", "difficulty", "mode"} \cup Toggle => Sent(g, f) = v
      /\ f = "description" => Sent(g, f) = Or(v, "none")
      /\ f \in Quantity \cup {"maxPlayers"} => Sent(g, f) = Or(v, Keep)
      /\ f \in Tuning => Sent(g, f) = IF v = "true" THEN v ELSE Keep
      /\ Sent(g, f) \in {v, Or(v, "none"), "none", Or(v, Keep), Keep, "VANILLA", Or(v, "default")}
<1> DEFINE v == g.set[f]
           x1 == Or(v, "none")
           x2 == Or(v, Keep)
           x3 == Or(v, "default")
           y1 == IF g.set["serviceType"] = "other" THEN x1 ELSE "none"
           y2 == IF v = "true" THEN v ELSE Keep
           y3 == IF v = "none" THEN Keep ELSE v
           y4 == IF Custom(g) THEN "VANILLA" ELSE v
           y5 == IF Custom(g) THEN Keep ELSE x3
<1>1. Sent(g, f) =
    CASE f \in {"listenPort", "serviceType", "difficulty", "mode"} \cup Toggle -> v
      [] f = "description" -> x1
      [] f = "nodePort" -> y1
      [] f \in Quantity \cup {"maxPlayers", "jvmOpts"} -> x2
      [] f \in Tuning -> y2
      [] f \in Mirrored \cup {"motd"} -> y3
      [] f = "type" -> y4
      [] f = "version" -> y5
      [] OTHER -> Keep
  BY DEF Sent
<1>8. /\ y1 \in {x1, "none"} /\ y3 \in {Keep, v} /\ y4 \in {"VANILLA", v} /\ y5 \in {Keep, x3}
      /\ y2 \in {v, Keep}
  OBVIOUS
<1> HIDE DEF v, x1, x2, x3, y1, y2, y3, y4, y5
<1>2. /\ {"description", "listenPort", "serviceType", "nodePort"} = Direct
      /\ {"difficulty", "mode", "maxPlayers"} = Choice
      /\ {"motd", "jvmOpts"} = Overridden
  BY DEF Direct, Choice, Overridden
<1>3. f \in {"listenPort", "serviceType", "difficulty", "mode"} \cup Toggle => Sent(g, f) = v
  BY <1>1, <1>2, KindsApart DEF Boxes
<1>4. f = "description" => Sent(g, f) = x1
  BY <1>1, <1>2, KindsApart DEF Boxes
<1>5. f \in Quantity \cup {"maxPlayers"} => Sent(g, f) = x2
  BY <1>1, <1>2, KindsApart DEF Boxes
<1>6. f \in Tuning => Sent(g, f) = y2
  BY <1>1, <1>2, KindsApart DEF Boxes
<1>7. Sent(g, f) \in {v, x1, "none", x2, Keep, "VANILLA", x3}
  BY <1>1, <1>8
<1> QED
  BY <1>3, <1>4, <1>5, <1>6, <1>7 DEF v, x1, x2, x3, y2

\* What a save makes of a row.
LEMMA PatchedFits ==
    ASSUME NEW r, RowFits(r), NEW g, FormFits(g)
    PROVE  RowFits(Patched(r, g)) /\ RowFits(ProxyPatched(r, g))
<1>0. {"none", "", "default", "true", "false", "VANILLA"} \subseteq Value /\ Keep \notin Value
  BY Words DEF Value
<1>1. \A f \in Field : r.col[f] \in Value /\ g.set[f] \in Value
  BY DEF RowFits, RowType, FormFits, FormType
<1>2. /\ r = [col |-> r.col, env |-> r.env] /\ r.env \in [Key -> Value] /\ r.col \in [Field -> Value]
      /\ \A k \in Key : g.extra[k] \in Value
      /\ \A f \in Toggle : r.col[f] \in {"true", "false"} /\ f \in Field
  BY DEF RowFits, RowType, FormFits, FormType, Field
<1>3. ASSUME NEW f \in Field PROVE Sent(g, f) = Keep \/ Sent(g, f) \in Value
  <2> DEFINE v == g.set[f]
  <2>1. Sent(g, f) \in {v, Or(v, "none"), "none", Or(v, Keep), Keep, "VANILLA", Or(v, "default")}
    BY SentByKind
  <2>2. v \in Value
    BY <1>1
  <2> HIDE DEF v
  <2> QED
    BY <1>0, <2>1, <2>2 DEF Or
<1>4. ASSUME NEW k \in Key PROVE Environment(g)[k] \in Value
  <2>1. CASE Truthy(g.extra[k]) \/ k \in CustomKey
    BY <1>0, <1>2, <2>1 DEF Environment
  <2>2. CASE ~Truthy(g.extra[k]) /\ k \notin CustomKey
    <3>1. Environment(g)[k] = Managed(g, k)
      BY <2>2 DEF Environment
    <3>2. k \in Field
      BY <2>2 DEF Key
    <3> DEFINE v == g.set[k]
    <3>3. Managed(g, k) \in {Or(v, "none"), "true", "none", v, ""}
      BY ManagedByKind
    <3>4. v \in Value
      BY <1>1, <3>2
    <3> HIDE DEF v
    <3> QED
      BY <1>0, <3>1, <3>3, <3>4 DEF Or
  <2> QED
    BY <2>1, <2>2
<1>5. Environment(g) \in [Key -> Value]
  <2>1. Environment(g) = [k \in Key |-> Environment(g)[k]]
    BY DEF Environment
  <2> QED
    BY <1>4, <2>1
<1>6. ASSUME NEW f \in Toggle PROVE Sent(g, f) \in {"true", "false"}
  BY SentByKind DEF FormFits, Boxes
<1>7. RowFits(Patched(r, g))
  <2> DEFINE p(f) == IF Sent(g, f) = Keep THEN r.col[f] ELSE Sent(g, f)
  <2>1. Patched(r, g) = [col |-> [f \in Field |-> p(f)], env |-> Environment(g)]
    BY DEF Patched
  <2>2. \A f \in Field : p(f) \in Value
    BY <1>1, <1>3
  <2>3. \A f \in Toggle : p(f) \in {"true", "false"} /\ f \in Field
    BY <1>2, <1>6
  <2> HIDE DEF p
  <2> QED
    BY <1>5, <2>1, <2>2, <2>3 DEF RowFits, RowType
<1>8. RowFits(ProxyPatched(r, g))
  <2> DEFINE p(f) == IF f \in ProxyColumns /\ Sent(g, f) # Keep THEN Sent(g, f) ELSE r.col[f]
  <2>1. ProxyPatched(r, g) = [r EXCEPT !.col = [f \in Field |-> p(f)]]
    BY DEF ProxyPatched
  <2>2. \A f \in Field : p(f) \in Value
    BY <1>1, <1>3
  <2>3. \A f \in Toggle : p(f) \in {"true", "false"} /\ f \in Field
    BY <1>2, <1>6
  <2> HIDE DEF p
  <2>4. ProxyPatched(r, g) = [col |-> [f \in Field |-> p(f)], env |-> r.env]
    BY <1>2, <2>1
  <2> QED
    BY <1>2, <2>2, <2>3, <2>4 DEF RowFits, RowType
<1> QED
  BY <1>7, <1>8

\* What the form shows when it is saved is what it shows when it is opened again.
LEMMA ShownIsSaved ==
    ASSUME NEW r, RowFits(r), NEW g, FormFits(g), NEW f \in Field, Storable(g, f)
    PROVE  Shown(Patched(r, g), f) = g.set[f]
<1> DEFINE v == g.set[f]
           s == Patched(r, g)
           e == Env(s, f)
           c == s.col[f]
           x == Loaded(s, f)
           m == Managed(g, f)
           z == Sent(g, f)
<1>0. Keep \notin Value /\ Keep \notin {"none", ""}
  BY Words DEF Keep
<1>1. v \in Value /\ Truthy(v) /\ f \notin Unrestored /\ v # Keep /\ v \notin {"none", ""}
  BY <1>0 DEF FormFits, FormType, Storable, Truthy
<1>2. f \notin Optional \cup Mirrored \cup Overridden \cup {"nodePort"}
  BY <1>1 DEF Unrestored
<1>3. f \in Key => e = m
  BY CustomAssumption DEF Env, Patched, Environment, Storable, Key
<1>4. c = IF z = Keep THEN r.col[f] ELSE z
  BY DEF Patched
<1>5. f \in Key <=> f \notin Quantity \cup Direct
  BY CustomAssumption DEF Key
<1>6. f \notin Key => e = "none"
  BY DEF Env
<1>7. f \notin {"version", "customJarUrl"} => Shown(s, f) = x
  BY <1>1 DEF Shown
<1>8. /\ f \in Defaulted => x = Or(e, "default")
      /\ f \in Flag => x = IF e = "true" THEN "true" ELSE "false"
      /\ f \in Switch => x = IF (f \in OnUnlessFalse /\ e # "false") \/ (f \notin OnUnlessFalse /\ e = "true")
                             THEN "true" ELSE "false"
      /\ f \in Choice => x = Or(e, Or(c, "default"))
      /\ f \in Toggle => x = IF Truthy(e) THEN IF e = "true" THEN "true" ELSE "false" ELSE Or(c, "true")
      /\ f \in Tuning => x = IF e = "true" \/ c = "true" THEN "true" ELSE "false"
      /\ f \in Quantity \cup {"listenPort", "serviceType"} => x = Or(c, "default")
      /\ f = "type" => x = IF Or(e, c) \in {"VANILLA", "PAPER", "CUSTOM"} THEN Or(e, c) ELSE "PAPER"
      /\ f = "version" => x = Or(e, Or(c, ""))
      /\ f = "description" => x = Or(c, "")
      /\ f = "customJarUrl" => x = Or(e, "none")
  BY LoadedByKind, ZenonT(30)
<1>9. /\ f \in Defaulted => m = Or(v, "none")
      /\ f \in Flag => m = IF v = "true" THEN "true" ELSE "none"
      /\ f \in Switch \cup {"type"} => m = v
      /\ f = "version" => m = IF Custom(g) THEN "" ELSE Or(v, "none")
      /\ f = "customJarUrl" => m = IF Custom(g) THEN v ELSE "none"
      /\ f \in Choice \cup Toggle \cup Tuning => m = "none"
  BY ManagedByKind
<1>10. /\ f \in {"listenPort", "serviceType", "difficulty", "mode"} \cup Toggle => z = v
       /\ f = "description" => z = Or(v, "none")
       /\ f \in Quantity \cup {"maxPlayers"} => z = Or(v, Keep)
       /\ f \in Tuning => z = IF v = "true" THEN v ELSE Keep
  BY SentByKind
<1>11. /\ f \in Boxes => v \in {"true", "false"}
       /\ f = "type" => v \in {"VANILLA", "PAPER", "CUSTOM"}
       /\ f \in Tuning => v = "true"
       /\ f = "version" => ~Custom(g)
       /\ f = "customJarUrl" => Custom(g)
  BY DEF FormFits, Storable
<1>12. f = "version" => Loaded(s, "type") # "CUSTOM"
  <2> SUFFICES ASSUME f = "version" PROVE Loaded(s, "type") # "CUSTOM"
    OBVIOUS
  <2>1. "type" \in Field /\ "type" \notin Quantity \cup Direct
    BY KindsApart DEF Field
  <2>2. "type" \in Key /\ "type" \notin CustomKey /\ f \in Key
    BY <1>5, <2>1, KindsApart, CustomAssumption DEF Key
  <2>3. Env(s, "type") = g.set["type"]
    <3>1. Env(s, "type") = Managed(g, "type")
      BY <2>2 DEF Env, Patched, Environment, Storable
    <3> QED
      BY <3>1, ManagedByKind
  <2>4. g.set["type"] \in {"VANILLA", "PAPER"}
    BY <1>11 DEF FormFits, Custom
  <2>5. Loaded(s, "type") = IF Or(Env(s, "type"), s.col["type"]) \in {"VANILLA", "PAPER", "CUSTOM"}
                            THEN Or(Env(s, "type"), s.col["type"]) ELSE "PAPER"
    BY LoadedByKind
  <2> QED
    BY <2>3, <2>4, <2>5 DEF Or, Truthy
<1>13. /\ f = "version" /\ Loaded(s, "type") # "CUSTOM" => Shown(s, f) = Or(x, "default")
       /\ f = "customJarUrl" => Shown(s, f) = Or(x, "")
  BY <1>1 DEF Shown
<1>14. \A w : Or(v, w) = v /\ Or("none", w) = w
  BY <1>1 DEF Or, Truthy
<1>15. {"difficulty", "mode", "maxPlayers"} = Choice
       /\ {"description", "listenPort", "serviceType", "nodePort"} = Direct
  BY DEF Direct, Choice
<1> HIDE DEF v, s, e, c, x, m, z
<1>16. ~Truthy("none")
  BY DEF Truthy
<1>17. Shown(s, f) = v
  <2>1. CASE f \in Defaulted
    <3>1. f \notin Quantity \cup Direct /\ f \notin {"version", "customJarUrl"}
      BY <2>1, KindsApart
    <3> QED
      BY <1>3, <1>5, <1>7, <1>8, <1>9, <1>14, <2>1, <3>1
  <2>2. CASE f \in Boxes
    <3>1. f \notin Quantity \cup Direct /\ f \notin {"version", "customJarUrl"}
      BY <2>2, KindsApart
    <3>2. e = m /\ Shown(s, f) = x /\ v \in {"true", "false"}
      BY <1>3, <1>5, <1>7, <1>11, <2>2, <3>1
    <3>3. CASE f \in Flag
      <4>1. m = IF v = "true" THEN "true" ELSE "none"
        BY <1>9, <3>3
      <4>2. x = IF e = "true" THEN "true" ELSE "false"
        BY <1>8, <3>3
      <4> QED
        BY <3>2, <4>1, <4>2
    <3>4. CASE f \in Switch
      <4>1. m = v
        BY <1>9, <3>4
      <4>2. x = IF (f \in OnUnlessFalse /\ e # "false") \/ (f \notin OnUnlessFalse /\ e = "true")
                THEN "true" ELSE "false"
        BY <1>8, <3>4
      <4> QED
        BY <3>2, <4>1, <4>2
    <3>5. CASE f \in Toggle
      <4>1. e = "none" /\ c = v
        BY <1>1, <1>4, <1>9, <1>10, <3>2, <3>5
      <4>2. x = Or(c, "true")
        BY <1>8, <1>16, <3>5, <4>1
      <4> QED
        BY <1>14, <3>2, <4>1, <4>2
    <3>6. CASE f \in Tuning
      <4>1. v = "true" /\ c = v
        BY <1>1, <1>4, <1>10, <1>11, <3>6
      <4>2. x = IF e = "true" \/ c = "true" THEN "true" ELSE "false"
        BY <1>8, <3>6
      <4> QED
        BY <3>2, <4>1, <4>2
    <3> QED
      BY <2>2, <3>3, <3>4, <3>5, <3>6 DEF Boxes
  <2>3. CASE f \in Choice
    <3>1. f \notin Quantity \cup Direct /\ f \notin {"version", "customJarUrl"}
      BY <2>3, KindsApart
    <3>2. c = v
      BY <1>1, <1>4, <1>10, <1>14, <1>15, <2>3
    <3>3. e = "none" /\ Shown(s, f) = x
      BY <1>3, <1>5, <1>7, <1>9, <2>3, <3>1
    <3>4. x = Or(e, Or(c, "default"))
      BY <1>8, <2>3
    <3> QED
      BY <1>14, <3>2, <3>3, <3>4
  <2>4. CASE f \in Quantity \cup {"description", "listenPort", "serviceType"}
    <3>1. f \notin {"version", "customJarUrl"}
      BY <1>15, <2>4, KindsApart
    <3>2. c = v
      BY <1>1, <1>4, <1>10, <1>14, <2>4
    <3> QED
      BY <1>7, <1>8, <1>14, <2>4, <3>1, <3>2
  <2>5. CASE f \in {"type", "version", "customJarUrl"}
    <3>1. f \notin Quantity \cup Direct
      BY <2>5, KindsApart
    <3>2. e = m
      BY <1>3, <1>5, <3>1
    <3>3. CASE f = "type"
      <4>1. e = v /\ Shown(s, f) = x /\ v \in {"VANILLA", "PAPER", "CUSTOM"}
        BY <1>7, <1>9, <1>11, <3>2, <3>3
      <4>2. x = IF Or(e, c) \in {"VANILLA", "PAPER", "CUSTOM"} THEN Or(e, c) ELSE "PAPER"
        BY <1>8, <3>3
      <4> QED
        BY <1>14, <4>1, <4>2
    <3>4. CASE f = "version"
      <4>1. m = v
        <5>1. m = IF Custom(g) THEN "" ELSE Or(v, "none")
          BY <1>9, <3>4
        <5> QED
          BY <1>11, <1>14, <3>4, <5>1
      <4>2. x = Or(e, Or(c, "")) /\ Shown(s, f) = Or(x, "default")
        BY <1>8, <1>12, <1>13, <3>4
      <4> QED
        BY <1>14, <3>2, <4>1, <4>2
    <3>5. CASE f = "customJarUrl"
      <4>1. m = v
        <5>1. m = IF Custom(g) THEN v ELSE "none"
          BY <1>9, <3>5
        <5> QED
          BY <1>11, <3>5, <5>1
      <4>2. x = Or(e, "none") /\ Shown(s, f) = Or(x, "")
        BY <1>8, <1>13, <3>5
      <4> QED
        BY <1>14, <3>2, <4>1, <4>2
    <3> QED
      BY <2>5, <3>3, <3>4, <3>5
  <2> QED
    BY <1>2, <2>1, <2>2, <2>3, <2>4, <2>5, FieldsByKind DEF Boxes
<1> QED
  BY <1>17 DEF s, v

SaveType == [at : {"idle", "patch", "put", "done", "half", "failed"},
             form : FormType, picked : SUBSET Artifact, seen : SUBSET Artifact,
             touched : SUBSET (Field \cup Key \cup Artifact)]

FormInv ==
    /\ kind \in {"new", "server", "proxy"} /\ exists \in BOOLEAN
    /\ RowFits(row) /\ FormFits(form)
    /\ installed \subseteq Artifact /\ picked \subseteq Artifact /\ seen \subseteq Artifact
    /\ page \in {"closed", "open"} /\ list \in {"none", "asked", "seen", "failed"}
    /\ saves \in [Save -> SaveType]
    /\ \A s \in Save : FormFits(saves[s].form)
    /\ touched \subseteq Field \cup Key \cup Artifact
    /\ edits \in 0 .. MaxEdits /\ others \in 0 .. MaxOthers

LEMMA RowsFit == RowFits(Fresh) /\ \A r \in Rows : RowFits(r)
<1>0. {"none", "default", "other", "true", "false", "VANILLA"} \subseteq Value
  BY DEF Value
<1>1. ASSUME NEW f \in Toggle PROVE f \in Field /\ FreshColumn(f) = "true"
  <2>1. f \in Field /\ f \notin Choice \cup Quantity /\ f \notin {"serviceType", "version", "listenPort"}
        /\ f \notin Tuning /\ f # "type"
    BY KindsApart DEF Field, Boxes, Direct
  <2> QED
    BY <2>1 DEF FreshColumn
<1>2. ASSUME NEW f PROVE FreshColumn(f) \in Value
  BY <1>0 DEF FreshColumn
<1>3. RowFits(Fresh)
  BY <1>0, <1>1, <1>2 DEF Fresh, RowFits, RowType
<1>4. RowFits(Patched(Fresh, Blank))
  BY <1>3, FormOfRow, PatchedFits
<1>5. ASSUME NEW r, RowFits(r), NEW f \in Field, NEW v \in Value,
             f \in Toggle => v \in {"true", "false"}
      PROVE  RowFits([r EXCEPT !.col[f] = v])
  BY <1>5 DEF RowFits, RowType
<1>6. ASSUME NEW r, RowFits(r), NEW k \in Key, NEW v \in Value
      PROVE  RowFits([r EXCEPT !.env[k] = v])
  BY <1>6 DEF RowFits, RowType
<1>7. ASSUME NEW f \in (Column \cap Varied) \ (Toggle \cup Tuning)
      PROVE  RowFits([Fresh EXCEPT !.col[f] = "other"])
  BY <1>0, <1>3, <1>5 DEF Column
<1>8. ASSUME NEW f \in (Toggle \cup Tuning) \cap Varied, NEW v \in {"true", "false"}
      PROVE  RowFits([Fresh EXCEPT !.col[f] = v])
  BY <1>0, <1>3, <1>5 DEF Field
<1>9. ASSUME NEW k \in Key \cap Varied PROVE RowFits([Patched(Fresh, Blank) EXCEPT !.env[k] = "other"])
  BY <1>0, <1>4, <1>6
<1>10. ASSUME NEW k \in (Flag \cup Switch \cup Toggle \cup Tuning) \cap Varied, NEW v \in {"true", "false"}
       PROVE  RowFits([Patched(Fresh, Blank) EXCEPT !.env[k] = v])
  <2>1. k \in Key
    BY KindsApart DEF Key, Field, Boxes
  <2> QED
    BY <1>0, <1>4, <1>6, <2>1
<1> QED
  <2> SUFFICES ASSUME NEW r \in Rows PROVE RowFits(r)
    BY <1>3
  <2>1. \/ r \in {Fresh, Patched(Fresh, Blank)}
        \/ \E f \in (Column \cap Varied) \ (Toggle \cup Tuning) : r = [Fresh EXCEPT !.col[f] = "other"]
        \/ \E f \in (Toggle \cup Tuning) \cap Varied, v \in {"true", "false"} :
              r = [Fresh EXCEPT !.col[f] = v]
        \/ \E k \in Key \cap Varied : r = [Patched(Fresh, Blank) EXCEPT !.env[k] = "other"]
        \/ \E k \in (Flag \cup Switch \cup Toggle \cup Tuning) \cap Varied, v \in {"true", "false"} :
              r = [Patched(Fresh, Blank) EXCEPT !.env[k] = v]
    BY DEF Rows
  <2>2. CASE r \in {Fresh, Patched(Fresh, Blank)}
    BY <1>3, <1>4, <2>2
  <2>3. CASE \E f \in (Column \cap Varied) \ (Toggle \cup Tuning) : r = [Fresh EXCEPT !.col[f] = "other"]
    BY <1>7, <2>3
  <2>4. CASE \E f \in (Toggle \cup Tuning) \cap Varied, v \in {"true", "false"} :
                r = [Fresh EXCEPT !.col[f] = v]
    BY <1>8, <2>4
  <2>5. CASE \E k \in Key \cap Varied : r = [Patched(Fresh, Blank) EXCEPT !.env[k] = "other"]
    BY <1>9, <2>5
  <2>6. CASE \E k \in (Flag \cup Switch \cup Toggle \cup Tuning) \cap Varied, v \in {"true", "false"} :
                r = [Patched(Fresh, Blank) EXCEPT !.env[k] = v]
    BY <1>10, <2>6
  <2> QED
    BY <2>1, <2>2, <2>3, <2>4, <2>5, <2>6

LEMMA IdleSave ==
    /\ FormFits(Blank) /\ NoSave \in SaveType /\ NoSave.form = Blank
    /\ \A end \in {"done", "half", "failed"} : Over(end) \in SaveType /\ Over(end).form = Blank
<1>1. FormFits(Blank) /\ Blank \in FormType
  BY RowsFit, FormOfRow DEF FormFits
<1>2. NoSave \in SaveType /\ NoSave.form = Blank
  BY <1>1 DEF NoSave, SaveType
<1>3. ASSUME NEW end \in {"done", "half", "failed"} PROVE Over(end) \in SaveType /\ Over(end).form = Blank
  BY <1>2 DEF Over, SaveType
<1> QED
  BY <1>1, <1>2, <1>3

LEMMA FormBegins == Init => FormInv
<1> SUFFICES ASSUME Init PROVE FormInv
  OBVIOUS
<1>1. RowFits(row)
  BY RowsFit DEF Init
<1>2. installed \subseteq Artifact /\ exists \in BOOLEAN /\ kind \in {"new", "server", "proxy"}
  BY DEF Init
<1>3. saves = [s \in Save |-> NoSave] /\ form = Blank
  BY DEF Init
<1> QED
  BY <1>1, <1>2, <1>3, IdleSave, FormAssumption DEF Init, FormInv

LEMMA ChangedFieldFits ==
    ASSUME FormFits(form), NEW f \in Field, NEW v \in Choices(f)
    PROVE  FormFits([form EXCEPT !.set[f] = v])
<1>1. /\ v \in Value
      /\ f \in Boxes => v \in {"true", "false"}
      /\ f = "type" => v \in {"VANILLA", "PAPER", "CUSTOM"}
  <2>1. Choices(f) = CASE f = "type" -> {"VANILLA", "PAPER", "CUSTOM"}
                       [] f \in Boxes -> {"true", "false"}
                       [] f \in {"mode", "difficulty", "serviceType"} -> {"default", "other"}
                       [] OTHER -> {"", "other"}
    BY DEF Choices, Boxes
  <2>2. "type" \notin Boxes /\ "type" \notin {"mode", "difficulty", "serviceType"}
        /\ {"mode", "difficulty"} \subseteq Choice /\ "serviceType" \in Direct
    BY KindsApart DEF Choice, Direct
  <2>3. f \in Boxes => f \notin {"mode", "difficulty", "serviceType"} /\ f # "type"
    BY <2>2, KindsApart
  <2> QED
    BY <2>1, <2>2, <2>3 DEF Value
<1> QED
  BY <1>1 DEF FormFits, FormType

LEMMA FormStep == FormInv /\ [Next]_vars => FormInv'
<1> SUFFICES ASSUME FormInv, [Next]_vars PROVE FormInv'
  OBVIOUS
<1> USE DEF database, screen
<1>1. CASE UNCHANGED vars
  BY <1>1 DEF vars, FormInv
<1>2. CASE Open
  <2>1. FormFits(form')
    BY <1>2, FormOfRow DEF Open, FormInv
  <2> QED
    BY <1>2, <2>1 DEF Open, FormInv
<1>3. CASE PluginsArrive \/ PluginsFail
  BY <1>3 DEF PluginsArrive, PluginsFail, FormInv
<1>4. CASE Leave
  BY <1>4, IdleSave DEF Leave, Unmount, FormInv
<1>5. ASSUME NEW f \in Field \cap Varied, NEW v \in Choices(f), EditField(f, v) PROVE FormInv'
  <2>1. FormFits(form')
    BY <1>5, ChangedFieldFits DEF EditField, FormInv
  <2> QED
    BY <1>5, <2>1, FormAssumption DEF EditField, FormInv
<1>6. ASSUME NEW k \in Key \cap Varied, NEW v \in {"none", "other"}, EditVariable(k, v) PROVE FormInv'
  <2>1. FormFits(form')
    <3>1. v \in Value
      BY DEF Value
    <3> QED
      BY <1>6, <3>1 DEF EditVariable, FormInv, FormFits, FormType
  <2> QED
    BY <1>6, <2>1, FormAssumption DEF EditVariable, FormInv
<1>7. ASSUME NEW a \in Artifact, Tick(a) PROVE FormInv'
  BY <1>7, FormAssumption DEF Tick, FormInv
<1>8. ASSUME NEW a \in Artifact, AnotherDeploys(a) PROVE FormInv'
  BY <1>8, FormAssumption DEF AnotherDeploys, FormInv
<1>9. ASSUME NEW s \in Save, NEW j \in SaveType, FormFits(j.form), saves' = [saves EXCEPT ![s] = j]
      PROVE  saves' \in [Save -> SaveType] /\ \A q \in Save : FormFits(saves'[q].form)
  BY <1>9 DEF FormInv
<1>10. ASSUME NEW s \in Save, Submit(s) PROVE FormInv'
  <2> DEFINE j == [at |-> "patch", form |-> form, picked |-> picked, seen |-> seen, touched |-> touched]
  <2>1. j \in SaveType /\ FormFits(j.form) /\ saves' = [saves EXCEPT ![s] = j]
    BY <1>10 DEF Submit, SaveType, FormInv, FormFits
  <2>2. saves' \in [Save -> SaveType] /\ \A q \in Save : FormFits(saves'[q].form)
    BY <1>9, <2>1
  <2> QED
    BY <1>10, <2>2 DEF Submit, FormInv
<1>11. ASSUME NEW s \in Save, Stored(s) PROVE FormInv'
  <2>1. RowFits(row')
    BY <1>11, PatchedFits DEF Stored, FormInv
  <2>2. saves' \in [Save -> SaveType] /\ \A q \in Save : FormFits(saves'[q].form)
    <3> DEFINE j == [saves[s] EXCEPT !.at = "put"]
    <3>1. j \in SaveType /\ j.form = saves[s].form
      BY DEF FormInv, SaveType
    <3>2. PICK i \in SaveType : FormFits(i.form) /\ saves' = [saves EXCEPT ![s] = i]
      BY <1>11, <3>1, IdleSave DEF Stored, FormInv
    <3> QED
      BY <1>9, <3>2
  <2>3. CASE kind = "proxy"
    BY <1>11, <2>1, <2>2, <2>3, IdleSave DEF Stored, Unmount, FormInv
  <2>4. CASE kind # "proxy"
    BY <1>11, <2>1, <2>2, <2>4 DEF Stored, FormInv
  <2> QED
    BY <2>3, <2>4
<1>12. ASSUME NEW s \in Save, Deployed(s) PROVE FormInv'
  <2>1. saves' \in [Save -> SaveType] /\ \A q \in Save : FormFits(saves'[q].form)
    BY <1>9, <1>12, IdleSave DEF Deployed
  <2>2. installed' \subseteq Artifact
    BY <1>12 DEF Deployed, FormInv, SaveType
  <2> QED
    BY <1>12, <2>1, <2>2, IdleSave DEF Deployed, Unmount, FormInv
<1>13. ASSUME NEW s \in Save, SaveFails(s) PROVE FormInv'
  <2>1. PICK i \in SaveType : FormFits(i.form) /\ saves' = [saves EXCEPT ![s] = i]
    BY <1>13, IdleSave DEF SaveFails
  <2>2. saves' \in [Save -> SaveType] /\ \A q \in Save : FormFits(saves'[q].form)
    BY <1>9, <2>1
  <2> QED
    BY <1>13, <2>2 DEF SaveFails, FormInv
<1> QED
  BY <1>1, <1>2, <1>3, <1>4, <1>5, <1>6, <1>7, <1>8, <1>10, <1>11, <1>12, <1>13 DEF Next

\* What the form shows when it is saved is what it shows when it is opened again, whatever
\* the row was before, whatever variables the user has of their own, and whoever saved meanwhile.
THEOREM TheFormIsSaved == Spec => WhatIsShownIsSaved
<1> DEFINE Saved ==
        \A s \in Save :
            saves[s].at = "patch" /\ saves'[s].at = "put" =>
                \A f \in Field : Storable(saves[s].form, f) => Shown(row', f) = saves[s].form.set[f]
<1>1. FormInv /\ [Next]_vars => Saved
  <2> SUFFICES ASSUME FormInv, [Next]_vars, NEW s \in Save, saves[s].at = "patch", saves'[s].at = "put"
               PROVE  row' = Patched(row, saves[s].form)
    BY ShownIsSaved DEF FormInv
  <2> USE DEF database
  <2>1. saves'[s] # saves[s]
    OBVIOUS
  <2>2. ASSUME UNCHANGED saves PROVE FALSE
    BY <2>1, <2>2
  <2>3. PICK t \in Save : Submit(t) \/ Stored(t) \/ Deployed(t) \/ SaveFails(t)
    BY <2>2 DEF Next, vars, Open, PluginsArrive, PluginsFail, Leave, EditField, EditVariable, Tick,
       AnotherDeploys
  <2>4. t = s
    BY <2>1, <2>3 DEF Submit, Stored, Deployed, SaveFails, FormInv
  <2>5. CASE Submit(t) \/ Deployed(t)
    BY <2>4, <2>5 DEF Submit, Deployed
  <2>6. CASE SaveFails(t)
    <3>1. saves'[s] = Over("failed")
      BY <2>4, <2>6 DEF SaveFails, FormInv
    <3> QED
      BY <3>1, SavesOver
  <2>7. CASE Stored(t)
    <3>1. CASE kind = "proxy"
      <4>1. saves'[s] = Over("done")
        BY <2>4, <2>7, <3>1 DEF Stored, FormInv
      <4> QED
        BY <4>1, SavesOver
    <3>2. CASE kind # "proxy"
      BY <2>4, <2>7, <3>2 DEF Stored
    <3> QED
      BY <3>1, <3>2
  <2> QED
    BY <2>3, <2>5, <2>6, <2>7
<1> QED
  BY <1>1, FormBegins, FormStep, PTL DEF Spec, WhatIsShownIsSaved

-----------------------------------------------------------------------------
(* The page of the users                                                   *)

Sending == {"sent", "accepted", "refused"}
Reading == {"asking", "seen", "failed"}

TaskType ==
    [at : {"idle", "sent", "accepted", "refused", "asking", "seen", "failed"},
     kind : Users!Kinds \cup {"fetch"}, user : User,
     role : {"admin", "user", "none"}, kept : BOOLEAN, known : BOOLEAN,
     number : 0 .. MaxTasks, answer : Users!Table]

\* The handlers that have not begun their fetch; each task fetches once.
Waiting == {t \in Task : task[t].at \in {"sent", "accepted"}}

UsersTyped ==
    /\ Users!TypeOK
    /\ tasks + changes <= MaxTasks
    /\ sequence + Cardinality(Waiting) <= tasks

\* The two halves of the type.
Flags == {session, pending, loading, error, behind, missed, twice} \subseteq BOOLEAN
UsersTables ==
    /\ db \in Users!Table /\ users \in Users!Table
    /\ dialog \in [kind : Users!Kinds \cup {"none"}, user : User, row : Users!Row \cup {Users!Gone}]
    /\ sequence \in 1 .. MaxTasks /\ {tasks, changes} \subseteq 0 .. MaxTasks
    /\ task \in [Task -> TaskType]
    /\ tasks + changes <= MaxTasks
    /\ sequence + Cardinality(Waiting) <= tasks

LEMMA UsersTypedParts ==
    /\ UsersTyped <=> Flags /\ UsersTables
    /\ UsersTyped' <=> Flags' /\ UsersTables'
  BY DEF UsersTyped, Users!TypeOK, Flags, UsersTables, TaskType

\* The fetch with the last number.
Latest(t) == task[t].at \in Reading /\ task[t].number = sequence

\* Numbers are handed out once, and the last fetch keeps the page loading.
UsersOrder ==
    /\ \A t \in Task : task[t].at \in Sending => task[t].kind # "fetch"
    /\ \A t \in Task : task[t].at \in Reading => task[t].number <= sequence
    /\ \A t, q \in Task : Latest(t) /\ Latest(q) => t = q
    /\ \A t \in Task : Latest(t) => loading
    /\ \A t \in Task : Latest(t) /\ task[t].at = "failed" => missed

\* The table is the directory, or the last fetch will bring it.
UpToDate ==
    \/ \E t \in Task : Latest(t) /\ (task[t].at = "seen" => task[t].answer = db)
    \/ users = db /\ \A t \in Task : ~Latest(t)

\* What the table may lack.
TableFollows ==
    error \/ behind \/ UpToDate \/ \E t \in Task : task[t].at \in Sending

TableIsRead ==
    missed \/ UpToDate \/ \E t \in Task : task[t].at = "accepted"

OneActs ==
    twice \/ /\ \A t, q \in Task : t \in Users!Acting /\ q \in Users!Acting => t = q
             /\ \A t \in Users!Acting : pending

\* The user's role is r, unless there is no such user any more.
RoleIs(u, r) == db[u].role = r \/ db[u] = Users!Gone

\* The dialog's role is the directory's until its own save has changed it.
DialogIsRead ==
    dialog.kind = "edit" /\ ~missed /\ ~twice =>
        \/ RoleIs(dialog.user, dialog.row.role)
        \/ \E t \in Task : task[t].at = "accepted" /\ task[t].kind = "edit"

\* A role that is sent to be kept is still the directory's.
KeptAreRead ==
    \A t \in Task : task[t].at = "sent" /\ task[t].kept /\ ~missed /\ ~twice =>
        task[t].kind = "edit" /\ RoleIs(task[t].user, task[t].role)

\* A form is opened with the row of a user, and sends one of the two roles.
RolesTyped ==
    /\ dialog.kind = "edit" => dialog.row \in Users!Row
    /\ \A t \in Task : task[t].at = "sent" /\ task[t].kind = "edit" => task[t].role \in {"admin", "user"}

UsersInv ==
    /\ UsersTyped /\ RolesTyped /\ UsersOrder /\ TableFollows /\ TableIsRead /\ OneActs
    /\ Users!SparesItself /\ DialogIsRead /\ KeptAreRead

\* One task changes.
OnlyTask(t) == \A q \in Task \ {t} : task'[q] = task[q]

LEMMA IdleTyped == Users!Idle \in TaskType
<1>1. Users!Gone \in Users!Row \cup {Users!Gone}
  OBVIOUS
<1>2. [u \in User |-> Users!Gone] \in Users!Table
  BY DEF Users!Table
<1> QED
  BY <1>2, PagesAssumption DEF Users!Idle, TaskType

LEMMA TasksTyped == UsersTyped => task \in [Task -> TaskType]
  BY DEF UsersTyped, Users!TypeOK, TaskType

\* What a handler's beginning does.
SentTask(t, k, u, r, h) ==
    /\ task[t].at = "idle" /\ OnlyTask(t) /\ task' \in [Task -> TaskType]
    /\ task'[t].at = "sent" /\ task'[t].kind = k /\ task'[t].user = u
    /\ task'[t].role = r /\ task'[t].kept = h /\ task'[t].known = session
    /\ task'[t].number = 0
    /\ tasks' = tasks + 1 /\ tasks + changes < MaxTasks
    /\ pending' = TRUE /\ error' = FALSE
    /\ UNCHANGED <<db, users, session, loading, sequence, changes, behind, missed>>

LEMMA SendStep ==
    ASSUME UsersTyped, NEW t \in Task, NEW k \in Users!Kinds, NEW u \in User,
           NEW r \in {"admin", "user", "none"}, NEW h \in BOOLEAN, Users!Send(t, k, u, r, h)
    PROVE  SentTask(t, k, u, r, h)
<1> DEFINE new == [Users!Idle EXCEPT !.at = "sent", !.kind = k, !.user = u, !.role = r,
                                     !.kept = h, !.known = session]
<1>1. /\ task[t].at = "idle" /\ tasks + changes < MaxTasks /\ tasks' = tasks + 1
      /\ task' = [task EXCEPT ![t] = new]
      /\ pending' = TRUE /\ error' = FALSE
      /\ UNCHANGED <<db, users, session, loading, sequence, changes, behind, missed>>
  BY DEF Users!Send, Users!Start
<1>2. session \in BOOLEAN
  BY DEF UsersTyped, Users!TypeOK
<1>3. new \in TaskType
  BY <1>2, IdleTyped DEF TaskType
<1>4. /\ new.at = "sent" /\ new.kind = k /\ new.user = u /\ new.role = r /\ new.kept = h
      /\ new.known = session /\ new.number = 0
  BY IdleTyped DEF TaskType, Users!Idle
<1> HIDE DEF new
<1> QED
  BY <1>1, <1>3, <1>4, TasksTyped DEF OnlyTask, SentTask

\* A task goes on to another stage.
Moved(t, a, n, b) ==
    /\ OnlyTask(t) /\ task' \in [Task -> TaskType]
    /\ task'[t].at = a /\ task'[t].number = n /\ task'[t].answer = b
    /\ task'[t].kind = task[t].kind /\ task'[t].user = task[t].user
    /\ task'[t].role = task[t].role /\ task'[t].kept = task[t].kept
    /\ task'[t].known = task[t].known

LEMMA AtStep ==
    ASSUME UsersTyped, NEW t \in Task,
           NEW a \in {"idle", "sent", "accepted", "refused", "asking", "seen", "failed"},
           NEW n \in 0 .. MaxTasks, NEW b \in Users!Table,
           task' = [task EXCEPT ![t] = [@ EXCEPT !.at = a, !.number = n, !.answer = b]]
    PROVE  Moved(t, a, n, b)
<1> DEFINE old == task[t]
           new == [old EXCEPT !.at = a, !.number = n, !.answer = b]
<1>1. old \in TaskType
  BY TasksTyped
<1> HIDE DEF old
<1>2. /\ new \in TaskType
      /\ new.at = a /\ new.number = n /\ new.answer = b
      /\ new.kind = old.kind /\ new.user = old.user /\ new.role = old.role
      /\ new.kept = old.kept /\ new.known = old.known
  BY <1>1 DEF TaskType
<1>3. task' = [task EXCEPT ![t] = new]
  BY DEF old
<1> HIDE DEF new
<1>4. OnlyTask(t) /\ task' \in [Task -> TaskType] /\ task'[t] = new
  BY <1>2, <1>3, TasksTyped DEF OnlyTask
<1> QED
  BY <1>2, <1>4 DEF old, Moved

\* A task moves and keeps what the stage does not change.
LEMMA MoveSteps ==
    ASSUME UsersTyped, NEW t \in Task,
           NEW a \in {"idle", "sent", "accepted", "refused", "asking", "seen", "failed"}
    PROVE  /\ task' = [task EXCEPT ![t].at = a] => Moved(t, a, task[t].number, task[t].answer)
           /\ \A b \in Users!Table :
                 task' = [task EXCEPT ![t].at = a, ![t].answer = b] => Moved(t, a, task[t].number, b)
           /\ \A n \in 0 .. MaxTasks :
                 task' = [task EXCEPT ![t] = [@ EXCEPT !.at = a, !.number = n]]
                     => Moved(t, a, n, task[t].answer)
<1>1. task[t] \in TaskType /\ task \in [Task -> TaskType]
  BY TasksTyped
<1> DEFINE x == task[t]
<1>2. x.number \in 0 .. MaxTasks /\ x.answer \in Users!Table
  BY <1>1 DEF TaskType
<1>3. ASSUME task' = [task EXCEPT ![t].at = a] PROVE Moved(t, a, x.number, x.answer)
  <2>1. [x EXCEPT !.at = a] = [x EXCEPT !.at = a, !.number = x.number, !.answer = x.answer]
    BY <1>1 DEF TaskType
  <2> QED
    BY <1>1, <1>2, <1>3, <2>1, AtStep
<1>4. ASSUME NEW b \in Users!Table, task' = [task EXCEPT ![t].at = a, ![t].answer = b]
      PROVE  Moved(t, a, x.number, b)
  <2>1. [x EXCEPT !.at = a, !.answer = b] = [x EXCEPT !.at = a, !.number = x.number, !.answer = b]
    BY <1>1 DEF TaskType
  <2> QED
    BY <1>1, <1>2, <1>4, <2>1, AtStep
<1>5. ASSUME NEW n \in 0 .. MaxTasks, task' = [task EXCEPT ![t] = [@ EXCEPT !.at = a, !.number = n]]
      PROVE  Moved(t, a, n, x.answer)
  <2>1. [x EXCEPT !.at = a, !.number = n] = [x EXCEPT !.at = a, !.number = n, !.answer = x.answer]
    BY <1>1 DEF TaskType
  <2> QED
    BY <1>1, <1>2, <1>5, <2>1, AtStep
<1> QED
  BY <1>3, <1>4, <1>5

\* Where the tasks are that have not begun their fetch.
LEMMA WaitingMoves ==
    ASSUME NEW t \in Task, OnlyTask(t)
    PROVE  /\ Cardinality(Waiting) \in Nat /\ Cardinality(Waiting') \in Nat
           /\ task[t].at \notin {"sent", "accepted"} /\ task'[t].at \in {"sent", "accepted"}
                => Cardinality(Waiting') = Cardinality(Waiting) + 1
           /\ task[t].at \in {"sent", "accepted"} /\ task'[t].at \notin {"sent", "accepted"}
                => Cardinality(Waiting') = Cardinality(Waiting) - 1
           /\ (task[t].at \in {"sent", "accepted"} <=> task'[t].at \in {"sent", "accepted"})
                => Cardinality(Waiting') = Cardinality(Waiting)
<1>1. IsFiniteSet(Waiting) /\ IsFiniteSet(Waiting')
  <2>1. Waiting \subseteq Task /\ Waiting' \subseteq Task
    BY DEF Waiting
  <2> QED
    BY <2>1, PagesAssumption, FS_Subset
<1>2. Cardinality(Waiting) \in Nat /\ Cardinality(Waiting') \in Nat
  BY <1>1, FS_CardinalityType
<1>3. ASSUME task[t].at \notin {"sent", "accepted"}, task'[t].at \in {"sent", "accepted"}
      PROVE  Cardinality(Waiting') = Cardinality(Waiting) + 1
  <2>1. Waiting' = Waiting \cup {t} /\ t \notin Waiting
    BY <1>3 DEF OnlyTask, Waiting
  <2> QED
    BY <1>1, <2>1, FS_AddElement
<1>4. ASSUME task[t].at \in {"sent", "accepted"}, task'[t].at \notin {"sent", "accepted"}
      PROVE  Cardinality(Waiting') = Cardinality(Waiting) - 1
  <2>1. Waiting' = Waiting \ {t} /\ t \in Waiting
    BY <1>4 DEF OnlyTask, Waiting
  <2> QED
    BY <1>1, <2>1, FS_RemoveElement
<1>5. ASSUME task[t].at \in {"sent", "accepted"} <=> task'[t].at \in {"sent", "accepted"}
      PROVE  Cardinality(Waiting') = Cardinality(Waiting)
  <2>1. Waiting' = Waiting
    BY <1>5 DEF OnlyTask, Waiting
  <2> QED
    BY <2>1
<1> QED
  BY <1>2, <1>3, <1>4, <1>5

LEMMA UsersBounds ==
    ASSUME UsersTyped
    PROVE  /\ sequence \in Nat /\ tasks \in Nat /\ changes \in Nat /\ sequence >= 1
           /\ sequence <= MaxTasks /\ MaxTasks \in Nat
           /\ db \in Users!Table /\ users \in Users!Table
           /\ dialog.user \in User /\ dialog.row \in Users!Row \cup {Users!Gone}
           /\ dialog.kind \in Users!Kinds \cup {"none"}
           /\ \A t \in Task : task[t] \in TaskType
  BY PagesAssumption, TasksTyped DEF UsersTyped, Users!TypeOK

\* A request is sent; `twice` may become true, never false.
LEMMA SentKeeps ==
    ASSUME UsersInv, NEW t \in Task, NEW k \in Users!Kinds, NEW u \in User,
           NEW r \in {"admin", "user", "none"}, NEW h, SentTask(t, k, u, r, h),
           twice' \in BOOLEAN, twice => twice', dialog' = dialog,
           twice' \/ \A q \in Task : q \notin Users!Acting,
           h /\ ~missed /\ ~twice' => k = "edit" /\ RoleIs(u, r),
           k = "edit" => r \in {"admin", "user"},
           session /\ u = Self => k = "restore" \/ (k = "edit" /\ r = "admin")
    PROVE  UsersInv'
<1> USE DEF SentTask
<1>2. \A q \in Task : q # t => task'[q] = task[q]
  BY DEF OnlyTask, SentTask
<1>3. UsersTyped'
  <2>1. Cardinality(Waiting') = Cardinality(Waiting) + 1 /\ Cardinality(Waiting) \in Nat
    BY WaitingMoves
  <2>2. Flags'
    BY DEF UsersInv, UsersTyped, Flags, Users!TypeOK
  <2>3. UsersTables'
    BY <2>1, UsersBounds, UsersTypedParts DEF UsersInv, UsersTables
  <2> QED
    BY <2>2, <2>3, UsersTypedParts
<1>4. \A q \in Task : Latest(q)' <=> Latest(q)
  BY <1>2 DEF Latest, Reading
<1>5. UsersOrder'
  BY <1>2, <1>4 DEF UsersInv, UsersOrder, Sending, Reading, Users!Kinds
<1>6. UpToDate => UpToDate'
  BY <1>2, <1>4 DEF UpToDate, Latest, Reading
<1>7. TableFollows'
  BY DEF TableFollows, Sending
<1>8. TableIsRead'
  BY <1>2, <1>6 DEF UsersInv, TableIsRead
<1>9. OneActs'
  BY <1>2 DEF UsersInv, OneActs, Users!Acting, Users!Active
<1>10. Users!SparesItself'
  BY <1>2 DEF UsersInv, Users!SparesItself, Users!Acting, Users!Active
<1>11. DialogIsRead'
  BY <1>2 DEF UsersInv, DialogIsRead, RoleIs
<1>12. KeptAreRead'
  BY <1>2 DEF UsersInv, KeptAreRead, RoleIs
<1>13. RolesTyped'
  BY <1>2 DEF UsersInv, RolesTyped
<1> QED
  BY <1>3, <1>13, <1>5, <1>7, <1>8, <1>9, <1>10, <1>11, <1>12 DEF UsersInv

\* The tasks stay as they are; the dialog may change to one whose row is the directory's.
LEMMA TasksStay ==
    ASSUME UsersInv,
           UNCHANGED <<db, users, pending, loading, sequence, task, tasks, changes, behind, missed,
                       twice>>,
           session' \in BOOLEAN, error' \in BOOLEAN, error => error',
           dialog' \in [kind : Users!Kinds \cup {"none"}, user : User,
                        row : Users!Row \cup {Users!Gone}],
           dialog'.kind = "edit" => dialog'.row \in Users!Row,
           dialog'.kind = "edit" /\ ~missed /\ ~twice =>
               dialog' = dialog \/ RoleIs(dialog'.user, dialog'.row.role)
    PROVE  UsersInv'
<1>1. UsersTyped'
  <2>1. Flags'
    BY DEF UsersInv, UsersTyped, Flags, Users!TypeOK
  <2>2. UsersTables'
    BY UsersTypedParts DEF UsersInv, UsersTables, Waiting
  <2> QED
    BY <2>1, <2>2, UsersTypedParts
<1>2. UsersOrder'
  BY DEF UsersInv, UsersOrder, Latest
<1>3. TableFollows' /\ TableIsRead'
  BY DEF UsersInv, TableFollows, TableIsRead, UpToDate, Latest
<1>4. OneActs' /\ Users!SparesItself' /\ KeptAreRead'
  BY DEF UsersInv, OneActs, Users!SparesItself, Users!Acting, Users!Active, KeptAreRead, RoleIs
<1>5. DialogIsRead'
  BY DEF UsersInv, DialogIsRead, RoleIs
<1>6. RolesTyped'
  BY DEF UsersInv, RolesTyped
<1> QED
  BY <1>1, <1>2, <1>3, <1>4, <1>5, <1>6 DEF UsersInv

\* The buttons come back when nothing of one's own is under way and the table has been
\* read: a dialog that opens has the directory's row, unless a change is missing.
LEMMA OpenKeeps ==
    ASSUME UsersInv, NEW u \in User, NEW kind2 \in Users!Kinds, Users!Open(kind2, u)
    PROVE  UsersInv'
<1>1. /\ ~loading /\ ~pending /\ users[u] # Users!Gone
      /\ dialog' = [kind |-> kind2, user |-> u, row |-> users[u]]
      /\ UNCHANGED <<db, users, session, pending, loading, error, sequence, task, tasks, changes,
                     behind, missed, twice>>
  BY DEF Users!Open
<1>2. \A t \in Task : ~Latest(t)
  BY <1>1 DEF UsersInv, UsersOrder
<1>3. ~twice => \A t \in Task : task[t].at # "accepted"
  BY <1>1 DEF UsersInv, OneActs, UsersOrder, Sending, Users!Acting, Users!Active
<1>4. ~missed /\ ~twice => users = db
  BY <1>2, <1>3 DEF UsersInv, TableIsRead, UpToDate
<1>5. users[u] \in Users!Row \cup {Users!Gone}
  BY UsersBounds DEF UsersInv, Users!Table
<1>6. /\ dialog' \in [kind : Users!Kinds \cup {"none"}, user : User,
                      row : Users!Row \cup {Users!Gone}]
      /\ dialog'.user = u /\ dialog'.row = users[u] /\ users[u] \in Users!Row
  BY <1>1, <1>5
<1>7. session' \in BOOLEAN /\ error' \in BOOLEAN
  BY <1>1 DEF UsersInv, UsersTyped, Users!TypeOK
<1> QED
  BY <1>1, <1>4, <1>6, <1>7, TasksStay DEF RoleIs

\* What a click on Cancel or a refusal on the spot leaves.
LEMMA ClosedTyped ==
    Users!Closed \in [kind : Users!Kinds \cup {"none"}, user : User,
                      row : Users!Row \cup {Users!Gone}]
  BY PagesAssumption DEF Users!Closed

LEMMA CloseKeeps ==
    ASSUME UsersInv, dialog' = dialog \/ dialog' = Users!Closed,
           session' \in BOOLEAN, error' \in BOOLEAN, error => error',
           UNCHANGED <<db, users, pending, loading, sequence, task, tasks, changes, behind, missed,
                       twice>>
    PROVE  UsersInv'
<1>1. dialog' \in [kind : Users!Kinds \cup {"none"}, user : User, row : Users!Row \cup {Users!Gone}]
  BY ClosedTyped DEF UsersInv, UsersTyped, Users!TypeOK
<1>2. dialog'.kind = "edit" => dialog' = dialog
  BY DEF Users!Closed
<1> QED
  BY <1>1, <1>2, TasksStay DEF UsersInv, RolesTyped

\* The buttons that send.
LEMMA NothingActs ==
    ASSUME UsersInv, ~pending
    PROVE  twice \/ \A q \in Task : q \notin Users!Acting
  BY DEF UsersInv, OneActs

LEMMA SaveEditKeeps ==
    ASSUME UsersInv, NEW t \in Task, NEW pick \in {"untouched", "admin", "user"},
           Users!SaveEdit(t, pick)
    PROVE  UsersInv'
<1>1. dialog.kind = "edit" /\ ~pending /\ dialog' = dialog
  BY DEF Users!SaveEdit
<1>2. dialog.user \in User /\ Users!SavedRole(pick) \in {"admin", "user"}
  <2>1. dialog.row.role \in {"admin", "user"}
    BY <1>1 DEF UsersInv, RolesTyped, Users!Row
  <2> QED
    BY <2>1, UsersBounds DEF UsersInv, Users!SavedRole
<1>3. CASE Users!IsSelf(dialog.user) /\ Users!SavedRole(pick) # "admin"
  <2>1. Users!RefuseSelf
    BY <1>3 DEF Users!SaveEdit
  <2>2. session' \in BOOLEAN /\ error' \in BOOLEAN
    BY <2>1 DEF Users!RefuseSelf, UsersInv, UsersTyped, Users!TypeOK
  <2> QED
    BY <1>1, <2>1, <2>2, CloseKeeps DEF Users!RefuseSelf
<1>4. CASE ~(Users!IsSelf(dialog.user) /\ Users!SavedRole(pick) # "admin")
  <2> DEFINE role == Users!SavedRole(pick)
             kept == pick = "untouched"
  <2>1. Users!Send(t, "edit", dialog.user, role, kept) /\ twice' = twice
    BY <1>4 DEF Users!SaveEdit
  <2>2. kept \in BOOLEAN /\ twice' \in BOOLEAN
    BY <2>1 DEF UsersInv, UsersTyped, Users!TypeOK
  <2>3. twice' \/ \A q \in Task : q \notin Users!Acting
    BY <1>1, <2>1, NothingActs
  <2>4. kept => role = dialog.row.role
    BY DEF Users!SavedRole
  <2>5. ~missed /\ ~twice => RoleIs(dialog.user, dialog.row.role)
    BY <1>1, <2>1, <2>3 DEF UsersInv, DialogIsRead, Users!Acting, Users!Active
  <2>6. session /\ dialog.user = Self => role = "admin"
    BY <1>4 DEF Users!IsSelf
  <2>7. "edit" \in Users!Kinds
    BY DEF Users!Kinds
  <2>8. UsersTyped
    BY DEF UsersInv
  <2> HIDE DEF role, kept
  <2>9. SentTask(t, "edit", dialog.user, role, kept)
    <3>1. role \in {"admin", "user", "none"}
      BY <1>2 DEF role
    <3> QED
      BY <1>2, <2>1, <2>2, <2>7, <2>8, <3>1, SendStep, Zenon
  <2> QED
    BY <1>1, <1>2, <2>1, <2>2, <2>3, <2>4, <2>5, <2>6, <2>7, <2>9, SentKeeps DEF role
<1> QED
  BY <1>3, <1>4

\* What the other buttons send.
LEMMA PlainSend ==
    ASSUME UsersInv, NEW t \in Task, NEW k \in Users!Kinds, NEW u \in User,
           Users!Send(t, k, u, "none", FALSE), dialog' = dialog,
           twice' \in BOOLEAN, twice => twice',
           twice' \/ \A q \in Task : q \notin Users!Acting,
           session /\ u = Self => k = "restore", k # "edit"
    PROVE  UsersInv'
<1>1. SentTask(t, k, u, "none", FALSE)
  <2>1. UsersTyped /\ "none" \in {"admin", "user", "none"} /\ FALSE \in BOOLEAN
    BY DEF UsersInv
  <2> QED
    BY <2>1, SendStep, Zenon
<1> DEFINE h == FALSE
<1>2. SentTask(t, k, u, "none", h) /\ ~h
  BY <1>1
<1> HIDE DEF h
<1> QED
  BY <1>2, SentKeeps

LEMMA SaveSuspensionKeeps ==
    ASSUME UsersInv, NEW t \in Task, Users!SaveSuspension(t)
    PROVE  UsersInv'
<1>1. dialog.kind = "suspend" /\ ~pending /\ dialog' = dialog /\ dialog.user \in User
  BY UsersBounds DEF Users!SaveSuspension, UsersInv
<1>2. CASE Users!IsSelf(dialog.user)
  <2>1. Users!RefuseSelf
    BY <1>2 DEF Users!SaveSuspension
  <2>2. session' \in BOOLEAN /\ error' \in BOOLEAN
    BY <2>1 DEF Users!RefuseSelf, UsersInv, UsersTyped, Users!TypeOK
  <2> QED
    BY <1>1, <2>1, <2>2, CloseKeeps DEF Users!RefuseSelf
<1>3. CASE ~Users!IsSelf(dialog.user)
  <2>1. Users!Send(t, "suspend", dialog.user, "none", FALSE) /\ twice' = twice
    BY <1>3 DEF Users!SaveSuspension
  <2>2. twice' \in BOOLEAN /\ "suspend" \in Users!Kinds
    BY <2>1 DEF UsersInv, UsersTyped, Users!TypeOK, Users!Kinds
  <2>3. twice' \/ \A q \in Task : q \notin Users!Acting
    BY <1>1, <2>1, NothingActs
  <2>4. ~(session /\ dialog.user = Self)
    BY <1>3 DEF Users!IsSelf
  <2> QED
    BY <1>1, <2>1, <2>2, <2>3, <2>4, PlainSend, Zenon
<1> QED
  BY <1>2, <1>3

LEMMA ConfirmDeletionKeeps ==
    ASSUME UsersInv, NEW t \in Task, Users!ConfirmDeletion(t)
    PROVE  UsersInv'
<1>1. dialog.kind = "delete" /\ dialog.user \in User
  BY UsersBounds DEF Users!ConfirmDeletion, UsersInv
<1>2. CASE Users!IsSelf(dialog.user)
  <2>1. Users!RefuseSelf /\ dialog' = Users!Closed
    BY <1>2 DEF Users!ConfirmDeletion
  <2>2. session' \in BOOLEAN /\ error' \in BOOLEAN
    BY <2>1 DEF Users!RefuseSelf, UsersInv, UsersTyped, Users!TypeOK
  <2> QED
    BY <2>1, <2>2, CloseKeeps DEF Users!RefuseSelf
<1>3. CASE ~Users!IsSelf(dialog.user)
  <2>1. /\ Users!Send(t, "delete", dialog.user, "none", FALSE) /\ dialog' = dialog
        /\ twice' = (twice \/ Users!Acting # {})
    BY <1>3 DEF Users!ConfirmDeletion
  <2>2. twice' \in BOOLEAN /\ "delete" \in Users!Kinds /\ (twice => twice')
    BY <2>1 DEF Users!Kinds
  <2>3. twice' \/ \A q \in Task : q \notin Users!Acting
    BY <2>1
  <2>4. ~(session /\ dialog.user = Self)
    BY <1>3 DEF Users!IsSelf
  <2> QED
    BY <1>1, <2>1, <2>2, <2>3, <2>4, PlainSend, Zenon
<1> QED
  BY <1>2, <1>3

LEMMA RestoreKeeps ==
    ASSUME UsersInv, NEW t \in Task, NEW u \in User, Users!Restore(t, u)
    PROVE  UsersInv'
<1>1. /\ ~pending /\ Users!Send(t, "restore", u, "none", FALSE)
      /\ dialog' = dialog /\ twice' = twice
  BY DEF Users!Restore
<1>2. twice' \in BOOLEAN /\ "restore" \in Users!Kinds
  BY <1>1 DEF UsersInv, UsersTyped, Users!TypeOK, Users!Kinds
<1>3. twice' \/ \A q \in Task : q \notin Users!Acting
  BY <1>1, NothingActs
<1> QED
  BY <1>1, <1>2, <1>3, PlainSend, Zenon

-----------------------------------------------------------------------------
(* The backend and the answers                                             *)

\* A request moves on: the task does not become the last fetch, nor cease to be it.
LEMMA LatestStays ==
    ASSUME NEW t \in Task, NEW a, NEW b, Moved(t, a, task[t].number, b), sequence' = sequence,
           a \in Reading <=> task[t].at \in Reading
    PROVE  \A q \in Task : Latest(q)' <=> Latest(q)
<1> SUFFICES ASSUME NEW q \in Task PROVE Latest(q)' <=> Latest(q)
  OBVIOUS
<1>1. CASE q = t
  BY <1>1 DEF Latest, Moved
<1>2. CASE q # t
  BY <1>2 DEF Latest, Moved, OnlyTask
<1> QED
  BY <1>1, <1>2

\* Of a request that is handled only the role, the suspension or the row changes.
LEMMA EffectTyped ==
    ASSUME NEW t \in Task, db \in Users!Table, task \in [Task -> TaskType], Users!Allowed(t),
           task[t].kind # "fetch", task[t].kind = "edit" => task[t].role \in {"admin", "user"}
    PROVE  /\ Users!Effect(db[task[t].user], task[t]) \in Users!Row \cup {Users!Gone}
           /\ task[t].kind # "edit" =>
                 \/ Users!Effect(db[task[t].user], task[t]).role = db[task[t].user].role
                 \/ Users!Effect(db[task[t].user], task[t]) = Users!Gone
           /\ task[t].kind = "edit" => Users!Effect(db[task[t].user], task[t]).role = task[t].role
<1> DEFINE x == task[t]
           old == db[x.user]
<1>1. x.kind \in {"edit", "suspend", "restore", "delete"} /\ x.user \in User
  BY DEF TaskType, Users!Kinds
<1>2. old \in Users!Row
  BY <1>1 DEF Users!Allowed, Users!Table
<1> HIDE DEF x, old
<1>3. CASE x.kind = "edit"
  <2>1. x.role \in {"admin", "user"}
    BY <1>3 DEF x
  <2>2. Users!Effect(old, x) = [old EXCEPT !.role = x.role]
    BY <1>3 DEF Users!Effect
  <2>3. Users!Effect(old, x) \in Users!Row /\ Users!Effect(old, x).role = x.role
    BY <1>2, <2>1, <2>2 DEF Users!Row
  <2> QED
    BY <1>3, <2>3 DEF x, old
<1>4. CASE x.kind \in {"suspend", "restore"}
  <2>1. PICK b \in BOOLEAN : Users!Effect(old, x) = [old EXCEPT !.suspended = b]
    BY <1>4 DEF Users!Effect
  <2>2. Users!Effect(old, x) \in Users!Row /\ Users!Effect(old, x).role = old.role
    BY <1>2, <2>1 DEF Users!Row
  <2> QED
    BY <1>4, <2>2 DEF x, old
<1>5. CASE x.kind = "delete"
  <2>1. Users!Effect(old, x) = Users!Gone
    BY <1>5 DEF Users!Effect
  <2> QED
    BY <1>5, <2>1 DEF x, old
<1> QED
  BY <1>1, <1>3, <1>4, <1>5 DEF x

\* A request is handled.
LEMMA HandleKeeps ==
    ASSUME UsersInv, NEW t \in Task, Users!Handle(t)
    PROVE  UsersInv'
<1>1. PICK answer \in {"accepted", "refused"} : task' = [task EXCEPT ![t].at = answer]
  BY DEF Users!Handle
<1> DEFINE u == task[t].user
<1>2. /\ task[t].at = "sent"
      /\ UNCHANGED <<users, dialog, pending, loading, error, sequence, session, tasks, changes,
                     behind, twice>>
      /\ \/ /\ Users!Allowed(t)
            /\ db' = [db EXCEPT ![u] = Users!Effect(@, task[t])]
            /\ missed' = (missed \/ task'[t].at = "refused")
         \/ task'[t].at = "refused" /\ UNCHANGED <<db, missed>>
  BY DEF Users!Handle, Users!page
<1>3. Moved(t, answer, task[t].number, task[t].answer)
  BY <1>1, MoveSteps DEF UsersInv
<1>4. /\ \A q \in Task : q # t => task'[q] = task[q]
      /\ task' \in [Task -> TaskType] /\ task'[t].at = answer
      /\ task'[t].kind = task[t].kind /\ task'[t].user = task[t].user
      /\ task'[t].role = task[t].role /\ task'[t].kept = task[t].kept
      /\ task'[t].known = task[t].known
  BY <1>3 DEF Moved, OnlyTask
<1>5. \A q \in Task : Latest(q)' <=> Latest(q)
  BY <1>2, <1>3, LatestStays DEF Reading
<1>6. task[t].kind # "fetch" /\ u \in User
  BY <1>2, UsersBounds DEF UsersInv, UsersOrder, Sending, TaskType
<1>7. /\ db' \in Users!Table
      /\ \A q \in User : q # u => db'[q] = db[q]
      /\ db' # db => db'[u] = Users!Effect(db[u], task[t]) /\ Users!Allowed(t)
  <2>1. CASE UNCHANGED db
    BY <2>1, UsersBounds DEF UsersInv
  <2>2. CASE Users!Allowed(t) /\ db' = [db EXCEPT ![u] = Users!Effect(@, task[t])]
    BY <1>2, <1>6, <2>2, UsersBounds, TasksTyped, EffectTyped DEF UsersInv, Users!Table, RolesTyped
  <2> QED
    BY <1>2, <2>1, <2>2
<1>8. /\ missed => missed'
      /\ ~missed' /\ db' # db => task'[t].at = "accepted" /\ Users!Allowed(t)
  <2>1. task'[t].at = "accepted" \/ task'[t].at = "refused"
    BY <1>4
  <2>2. CASE Users!Allowed(t) /\ missed' = (missed \/ task'[t].at = "refused")
    <3>1. missed => missed'
      BY <2>2
    <3>2. task'[t].at = "refused" => missed'
      BY <2>2
    <3> QED
      BY <2>1, <2>2, <3>1, <3>2
  <2>3. CASE UNCHANGED <<db, missed>>
    BY <2>3
  <2> QED
    BY <1>2, <2>2, <2>3
<1>9. UsersTyped'
  <2>1. Cardinality(Waiting') <= Cardinality(Waiting) /\ Cardinality(Waiting) \in Nat
        /\ Cardinality(Waiting') \in Nat
    BY <1>2, <1>3, WaitingMoves DEF Moved
  <2>2. missed' \in BOOLEAN
    BY <1>2 DEF UsersInv, UsersTyped, Users!TypeOK
  <2>3. Flags'
    BY <1>2, <2>2 DEF UsersInv, UsersTyped, Flags, Users!TypeOK
  <2>4. UsersTables'
    BY <1>2, <1>4, <1>7, <2>1, UsersBounds, UsersTypedParts DEF UsersInv, UsersTables
  <2> QED
    BY <2>3, <2>4, UsersTypedParts
<1>10. RolesTyped'
  BY <1>2, <1>4 DEF UsersInv, RolesTyped
<1>11. UsersOrder'
  BY <1>2, <1>4, <1>5, <1>6, <1>8 DEF UsersInv, UsersOrder, Sending, Reading
<1>12. TableFollows'
  BY <1>4 DEF TableFollows, Sending
<1>13. TableIsRead'
  <2>1. CASE db' = db
    <3>1. UpToDate => UpToDate'
      BY <1>2, <1>4, <1>5, <2>1 DEF UpToDate, Latest, Reading
    <3> QED
      BY <1>2, <1>4, <1>8, <3>1 DEF UsersInv, TableIsRead
  <2>2. CASE db' # db
    BY <1>8, <2>2 DEF TableIsRead
  <2> QED
    BY <2>1, <2>2
<1>14. OneActs' /\ Users!SparesItself'
  BY <1>2, <1>4 DEF UsersInv, OneActs, Users!SparesItself, Users!Acting, Users!Active
<1>15. DialogIsRead'
  <2> SUFFICES ASSUME dialog.kind = "edit", ~missed', ~twice
               PROVE  \/ RoleIs(dialog.user, dialog.row.role)'
                      \/ \E q \in Task : task'[q].at = "accepted" /\ task'[q].kind = "edit"
    BY <1>2 DEF DialogIsRead, RoleIs
  <2>1. \/ RoleIs(dialog.user, dialog.row.role)
        \/ \E q \in Task : task[q].at = "accepted" /\ task[q].kind = "edit"
    BY <1>8 DEF UsersInv, DialogIsRead
  <2>2. CASE \E q \in Task : task[q].at = "accepted" /\ task[q].kind = "edit"
    BY <1>2, <1>4, <2>2
  <2>3. CASE RoleIs(dialog.user, dialog.row.role) /\ (db' = db \/ dialog.user # u)
    BY <1>2, <1>7, <2>3, UsersBounds DEF RoleIs, UsersInv
  <2>4. CASE RoleIs(dialog.user, dialog.row.role) /\ db' # db /\ dialog.user = u
    <3>1. CASE task[t].kind = "edit"
      BY <1>4, <1>8, <2>4, <3>1
    <3>2. CASE task[t].kind # "edit"
      <4>1. \/ db'[u].role = db[u].role
            \/ db'[u] = Users!Gone
        BY <1>2, <1>6, <1>7, <2>4, <3>2, EffectTyped, UsersBounds, TasksTyped
           DEF UsersInv, RolesTyped
      <4>2. db[u] # Users!Gone
        BY <1>8, <2>4 DEF Users!Allowed
      <4> QED
        BY <1>2, <2>4, <4>1, <4>2 DEF RoleIs
    <3> QED
      BY <3>1, <3>2
  <2> QED
    BY <2>1, <2>2, <2>3, <2>4
<1>16. KeptAreRead'
  <2> SUFFICES ASSUME NEW q \in Task, task'[q].at = "sent", ~missed', ~twice PROVE FALSE
    BY <1>2 DEF KeptAreRead
  <2>1. q # t /\ task[q].at = "sent"
    BY <1>4
  <2>2. q \in Users!Acting /\ t \in Users!Acting
    BY <1>2, <1>6, <2>1 DEF UsersInv, UsersOrder, Sending, Users!Acting, Users!Active
  <2> QED
    BY <2>1, <2>2 DEF UsersInv, OneActs
<1> QED
  BY <1>9, <1>10, <1>11, <1>12, <1>13, <1>14, <1>15, <1>16 DEF UsersInv

\* The directory is read, or cannot be.
LEMMA ReadKeeps ==
    ASSUME UsersInv, NEW t \in Task, Users!ReadUsers(t) \/ Users!FailToRead(t)
    PROVE  UsersInv'
<1>1. /\ task[t].at = "asking"
      /\ UNCHANGED <<db, users, dialog, pending, loading, error, sequence, session, tasks, changes,
                     twice>>
  BY DEF Users!ReadUsers, Users!FailToRead, Users!page
<1>2. db \in Users!Table /\ UsersTyped
  BY UsersBounds DEF UsersInv
<1>3. \/ /\ Moved(t, "seen", task[t].number, db)
         /\ behind' = (behind /\ task[t].number # sequence) /\ missed' = missed
      \/ /\ Moved(t, "failed", task[t].number, task[t].answer)
         /\ behind' = behind /\ missed' = TRUE
  <2>1. CASE Users!ReadUsers(t)
    BY <1>2, <2>1, MoveSteps DEF Users!ReadUsers
  <2>2. CASE Users!FailToRead(t)
    BY <1>2, <2>2, MoveSteps DEF Users!FailToRead
  <2> QED
    BY <2>1, <2>2
<1>4. /\ OnlyTask(t) /\ \A q \in Task : q # t => task'[q] = task[q]
      /\ task' \in [Task -> TaskType] /\ task'[t].at \in {"seen", "failed"}
      /\ task'[t].kind = task[t].kind /\ task'[t].user = task[t].user
      /\ task'[t].role = task[t].role /\ task'[t].kept = task[t].kept
      /\ task'[t].known = task[t].known /\ task'[t].number = task[t].number
      /\ task'[t].at = "failed" => missed'
      /\ task'[t].at = "seen" => task'[t].answer = db
      /\ task[t].number # sequence => (behind => behind')
      /\ missed => missed'
  <2>1. CASE /\ Moved(t, "seen", task[t].number, db)
             /\ behind' = (behind /\ task[t].number # sequence) /\ missed' = missed
    <3>1. task[t].number # sequence => (behind => behind')
      BY <2>1
    <3>2. (missed => missed') /\ Moved(t, "seen", task[t].number, db)
      BY <2>1
    <3> QED
      BY <3>1, <3>2 DEF Moved, OnlyTask
  <2>2. CASE /\ Moved(t, "failed", task[t].number, task[t].answer)
             /\ behind' = behind /\ missed' = TRUE
    BY <2>2 DEF Moved, OnlyTask
  <2> QED
    BY <1>3, <2>1, <2>2
<1>5. \A q \in Task : Latest(q)' <=> Latest(q)
  BY <1>1, <1>3, LatestStays DEF Reading
<1>6. UsersTyped'
  <2>1. Cardinality(Waiting') = Cardinality(Waiting)
    BY <1>1, <1>4, WaitingMoves
  <2>2. behind' \in BOOLEAN /\ missed' \in BOOLEAN
    BY <1>3 DEF UsersInv, UsersTyped, Users!TypeOK
  <2>3. Flags'
    BY <1>1, <2>2 DEF UsersInv, UsersTyped, Flags, Users!TypeOK
  <2>4. UsersTables'
    BY <1>1, <1>4, <2>1, UsersTypedParts DEF UsersInv, UsersTables
  <2> QED
    BY <2>3, <2>4, UsersTypedParts
<1>7. RolesTyped'
  BY <1>1, <1>4 DEF UsersInv, RolesTyped
<1>8. UsersOrder'
  BY <1>1, <1>4, <1>5 DEF UsersInv, UsersOrder, Sending, Reading
<1>9. UpToDate => UpToDate'
  <2>1. CASE Latest(t)
    BY <1>1, <1>4, <1>5, <2>1 DEF UpToDate
  <2>2. CASE ~Latest(t)
    BY <1>1, <1>4, <1>5, <2>2 DEF UpToDate
  <2> QED
    BY <2>1, <2>2
<1>10. TableFollows'
  <2>1. CASE task[t].number = sequence
    <3>1. Latest(t)'
      BY <1>1, <1>5, <2>1 DEF Latest, Reading
    <3> QED
      BY <1>1, <1>4, <3>1 DEF TableFollows, UpToDate
  <2>2. CASE task[t].number # sequence
    BY <1>1, <1>4, <1>9, <2>2 DEF UsersInv, TableFollows, Sending
  <2> QED
    BY <2>1, <2>2
<1>11. TableIsRead'
  BY <1>1, <1>4, <1>9 DEF UsersInv, TableIsRead
<1>12. OneActs' /\ Users!SparesItself'
  BY <1>1, <1>4 DEF UsersInv, OneActs, Users!SparesItself, Users!Acting, Users!Active
<1>13. DialogIsRead' /\ KeptAreRead'
  BY <1>1, <1>4 DEF UsersInv, DialogIsRead, KeptAreRead, RoleIs
<1> QED
  BY <1>6, <1>7, <1>8, <1>10, <1>11, <1>12, <1>13 DEF UsersInv

\* Another administrator changes a user: behind and missed are set.
LEMMA OtherKeeps ==
    ASSUME UsersInv, NEW u \in User, NEW new \in Users!Row \cup {Users!Gone}, Users!Other(u, new)
    PROVE  UsersInv'
<1>1. /\ tasks + changes < MaxTasks /\ changes' = changes + 1
      /\ db' = [db EXCEPT ![u] = new] /\ behind' = TRUE /\ missed' = TRUE
      /\ UNCHANGED <<users, dialog, pending, loading, error, sequence, session, task, tasks, twice>>
  BY DEF Users!Other, Users!page
<1>2. db' \in Users!Table
  BY <1>1, UsersBounds DEF UsersInv, Users!Table
<1>3. UsersTyped'
  <2>1. Flags'
    BY <1>1 DEF UsersInv, UsersTyped, Flags, Users!TypeOK
  <2>2. Waiting' = Waiting
    BY <1>1 DEF Waiting
  <2>3. UsersTables'
    BY <1>1, <1>2, <2>2, UsersBounds, UsersTypedParts DEF UsersInv, UsersTables
  <2> QED
    BY <2>1, <2>3, UsersTypedParts
<1>4. RolesTyped' /\ UsersOrder'
  BY <1>1 DEF UsersInv, RolesTyped, UsersOrder, Latest
<1>5. OneActs' /\ Users!SparesItself'
  BY <1>1 DEF UsersInv, OneActs, Users!SparesItself, Users!Acting, Users!Active
<1> QED
  BY <1>1, <1>3, <1>4, <1>5 DEF UsersInv, TableFollows, TableIsRead, DialogIsRead, KeptAreRead

\* A fetch begins, with a number of its own.
LEMMA FetchBegins ==
    ASSUME UsersInv, NEW t \in Task, OnlyTask(t), task' \in [Task -> TaskType],
           task'[t].at = "asking", task'[t].number = sequence + 1, sequence' = sequence + 1,
           loading' = TRUE, missed' = missed, \A q \in Task \ {t} : ~(task[q].at \in Reading
               /\ task[q].number > sequence)
    PROVE  UsersOrder' /\ TableFollows' /\ TableIsRead'
<1>1. \A q \in Task : q # t => task'[q] = task[q]
  BY DEF OnlyTask
<1>2. sequence \in Nat
  BY UsersBounds DEF UsersInv
<1>3. Latest(t)'
  BY DEF Latest, Reading
<1>4. \A q \in Task : q # t => ~Latest(q)'
  BY <1>1, <1>2 DEF UsersInv, UsersOrder, Latest
<1>5. UsersOrder'
  <2>1. \A q \in Task : task'[q].at \in Reading => task'[q].number <= sequence + 1
    <3> SUFFICES ASSUME NEW q \in Task, task'[q].at \in Reading
                 PROVE  task'[q].number <= sequence + 1
      OBVIOUS
    <3>1. task'[q].number \in Int
      BY PagesAssumption DEF TaskType
    <3>2. CASE q = t
      BY <1>2, <3>2
    <3>3. CASE q # t
      BY <1>1, <1>2, <3>1, <3>3 DEF UsersInv, UsersOrder
    <3> QED
      BY <3>2, <3>3
  <2> QED
    BY <1>1, <1>3, <1>4, <2>1 DEF UsersInv, UsersOrder, Sending
<1>6. UpToDate'
  BY <1>3 DEF UpToDate
<1> QED
  BY <1>5, <1>6 DEF TableFollows, TableIsRead

LEMMA RetryKeeps ==
    ASSUME UsersInv, NEW t \in Task, Users!Retry(t)
    PROVE  UsersInv'
<1> DEFINE new == [Users!Idle EXCEPT !.at = "asking", !.number = sequence + 1]
<1>1. /\ task[t].at = "idle" /\ tasks + changes < MaxTasks /\ tasks' = tasks + 1
      /\ task' = [task EXCEPT ![t] = new]
      /\ sequence' = sequence + 1 /\ loading' = TRUE /\ error' = FALSE
      /\ UNCHANGED <<db, users, session, dialog, pending, changes, behind, missed, twice>>
  BY DEF Users!Retry, Users!Start, Users!StartFetch, Users!Fetching
<1>2. /\ Cardinality(Waiting) \in Nat /\ sequence \in Nat /\ tasks \in Nat /\ changes \in Nat
      /\ MaxTasks \in Nat /\ sequence + Cardinality(Waiting) <= tasks
  <2>1. IsFiniteSet(Waiting)
    <3>1. Waiting \subseteq Task
      BY DEF Waiting
    <3> QED
      BY <3>1, PagesAssumption, FS_Subset
  <2> QED
    BY <2>1, FS_CardinalityType, UsersBounds, UsersTypedParts DEF UsersInv, UsersTables
<1>3. sequence + 1 <= MaxTasks
  BY <1>1, <1>2
<1>4. new \in TaskType /\ new.at = "asking" /\ new.number = sequence + 1 /\ new.kind = "fetch"
  <2> DEFINE n == sequence + 1
  <2>1. n \in 0 .. MaxTasks
    BY <1>2, <1>3
  <2> HIDE DEF n
  <2>2. /\ [Users!Idle EXCEPT !.at = "asking", !.number = n] \in TaskType
        /\ [Users!Idle EXCEPT !.at = "asking", !.number = n].at = "asking"
        /\ [Users!Idle EXCEPT !.at = "asking", !.number = n].number = n
        /\ [Users!Idle EXCEPT !.at = "asking", !.number = n].kind = Users!Idle.kind
    BY <2>1, IdleTyped DEF TaskType
  <2>3. Users!Idle.kind = "fetch"
    BY DEF Users!Idle
  <2> QED
    BY <2>2, <2>3 DEF n
<1> HIDE DEF new
<1>5. /\ OnlyTask(t) /\ task' \in [Task -> TaskType] /\ task'[t] = new
      /\ \A q \in Task : q # t => task'[q] = task[q]
  BY <1>1, <1>4, TasksTyped DEF OnlyTask, UsersInv
<1>6. UsersOrder' /\ TableFollows' /\ TableIsRead'
  <2>1. \A q \in Task \ {t} : ~(task[q].at \in Reading /\ task[q].number > sequence)
    <3> SUFFICES ASSUME NEW q \in Task, task[q].at \in Reading PROVE ~(task[q].number > sequence)
      OBVIOUS
    <3>1. task[q].number \in Int
      BY PagesAssumption, UsersBounds DEF UsersInv, TaskType
    <3> QED
      BY <1>2, <3>1 DEF UsersInv, UsersOrder
  <2> QED
    BY <1>1, <1>4, <1>5, <2>1, FetchBegins
<1>7. UsersTyped'
  <2>1. Cardinality(Waiting') = Cardinality(Waiting)
    BY <1>1, <1>4, <1>5, WaitingMoves
  <2>2. Flags'
    BY <1>1 DEF UsersInv, UsersTyped, Flags, Users!TypeOK
  <2>3. UsersTables'
    BY <1>1, <1>2, <1>3, <1>5, <2>1, UsersTypedParts DEF UsersInv, UsersTables
  <2> QED
    BY <2>2, <2>3, UsersTypedParts
<1>8. RolesTyped'
  BY <1>1, <1>4, <1>5 DEF UsersInv, RolesTyped
<1>9. OneActs' /\ Users!SparesItself'
  BY <1>1, <1>4, <1>5 DEF UsersInv, OneActs, Users!SparesItself, Users!Acting, Users!Active
<1>10. DialogIsRead' /\ KeptAreRead'
  BY <1>1, <1>4, <1>5 DEF UsersInv, DialogIsRead, KeptAreRead, RoleIs
<1> QED
  BY <1>6, <1>7, <1>8, <1>9, <1>10 DEF UsersInv

\* An accepted request: its dialog closes and its fetch begins.
LEMMA AcceptedKeeps ==
    ASSUME UsersInv, NEW t \in Task, Users!Accepted(t)
    PROVE  UsersInv'
<1>1. /\ task[t].at = "accepted"
      /\ dialog' = IF dialog.kind = task[t].kind THEN Users!Closed ELSE dialog
      /\ task' = [task EXCEPT ![t] = [@ EXCEPT !.at = "asking", !.number = sequence + 1]]
      /\ sequence' = sequence + 1 /\ loading' = TRUE /\ error' = FALSE
      /\ UNCHANGED <<db, users, session, pending, tasks, changes, behind, missed, twice>>
  BY DEF Users!Accepted, Users!StartFetch, Users!Fetching
<1>2. /\ sequence \in Nat /\ tasks \in Nat /\ changes \in Nat /\ MaxTasks \in Nat
      /\ sequence + Cardinality(Waiting) <= tasks /\ tasks <= MaxTasks
      /\ \A q \in Task : task[q] \in TaskType
  BY UsersBounds, UsersTypedParts DEF UsersInv, UsersTables
<1>3. sequence + 1 \in 0 .. MaxTasks
  <2>1. IsFiniteSet(Waiting) /\ t \in Waiting
    <3>1. Waiting \subseteq Task
      BY DEF Waiting
    <3> QED
      BY <1>1, <3>1, PagesAssumption, FS_Subset DEF Waiting
  <2>2. Cardinality(Waiting) \in Nat /\ Cardinality(Waiting) # 0
    BY <2>1, FS_CardinalityType, FS_EmptySet
  <2> QED
    BY <1>2, <2>2
<1>4. Moved(t, "asking", sequence + 1, task[t].answer)
  BY <1>1, <1>3, MoveSteps DEF UsersInv
<1>5. /\ OnlyTask(t) /\ task' \in [Task -> TaskType]
      /\ \A q \in Task : q # t => task'[q] = task[q]
      /\ task'[t].at = "asking" /\ task'[t].number = sequence + 1
      /\ task'[t].kind = task[t].kind /\ task'[t].user = task[t].user
      /\ task'[t].role = task[t].role /\ task'[t].kept = task[t].kept
      /\ task'[t].known = task[t].known
  BY <1>4 DEF Moved, OnlyTask
<1>6. UsersOrder' /\ TableFollows' /\ TableIsRead'
  <2>1. \A q \in Task \ {t} : ~(task[q].at \in Reading /\ task[q].number > sequence)
    <3> SUFFICES ASSUME NEW q \in Task, task[q].at \in Reading PROVE ~(task[q].number > sequence)
      OBVIOUS
    <3>1. task[q].number \in Int
      BY PagesAssumption, <1>2 DEF TaskType
    <3> QED
      BY <1>2, <3>1 DEF UsersInv, UsersOrder
  <2> QED
    BY <1>1, <1>5, <2>1, FetchBegins
<1>7. dialog' \in [kind : Users!Kinds \cup {"none"}, user : User, row : Users!Row \cup {Users!Gone}]
  BY <1>1, ClosedTyped DEF UsersInv, UsersTyped, Users!TypeOK
<1>8. dialog'.kind = "edit" => dialog' = dialog /\ task[t].kind # "edit"
  <2>1. Users!Closed.kind = "none"
    BY DEF Users!Closed
  <2> QED
    BY <1>1, <2>1
<1>9. UsersTyped'
  <2>1. Cardinality(Waiting') = Cardinality(Waiting) - 1 /\ Cardinality(Waiting) \in Nat
    BY <1>1, <1>5, WaitingMoves
  <2>2. Flags'
    BY <1>1 DEF UsersInv, UsersTyped, Flags, Users!TypeOK
  <2>3. UsersTables'
    BY <1>1, <1>2, <1>3, <1>5, <1>7, <2>1, UsersTypedParts DEF UsersInv, UsersTables
  <2> QED
    BY <2>2, <2>3, UsersTypedParts
<1>10. RolesTyped'
  BY <1>5, <1>8 DEF UsersInv, RolesTyped
<1>11. OneActs' /\ Users!SparesItself'
  BY <1>1, <1>5 DEF UsersInv, OneActs, Users!SparesItself, Users!Acting, Users!Active
<1>12. DialogIsRead'
  BY <1>1, <1>5, <1>8 DEF UsersInv, DialogIsRead, RoleIs
<1>13. KeptAreRead'
  BY <1>1, <1>5 DEF UsersInv, KeptAreRead, RoleIs
<1> QED
  BY <1>6, <1>9, <1>10, <1>11, <1>12, <1>13 DEF UsersInv

\* A task ends.
Ends(t) ==
    /\ OnlyTask(t) /\ task' \in [Task -> TaskType] /\ task'[t] = Users!Idle
    /\ \A q \in Task : q # t => task'[q] = task[q]
    /\ task'[t].at = "idle"

LEMMA TaskEnds ==
    ASSUME UsersTyped, NEW t \in Task, task' = [task EXCEPT ![t] = Users!Idle]
    PROVE  Ends(t)
  BY IdleTyped, TasksTyped DEF Ends, OnlyTask, Users!Idle

\* A refused request ends with an error.
LEMMA RefusedKeeps ==
    ASSUME UsersInv, NEW t \in Task, Users!Refused(t)
    PROVE  UsersInv'
<1>1. /\ task[t].at = "refused" /\ error' = TRUE /\ pending' = FALSE
      /\ task' = [task EXCEPT ![t] = Users!Idle]
      /\ UNCHANGED <<db, users, session, dialog, loading, sequence, tasks, changes, behind, missed,
                     twice>>
  BY DEF Users!Refused
<1>2. Ends(t)
  BY <1>1, TaskEnds DEF UsersInv
<1>3. t \in Users!Acting
  BY <1>1 DEF UsersInv, UsersOrder, Sending, Users!Acting, Users!Active
<1>4. UsersTyped'
  <2>1. Cardinality(Waiting') = Cardinality(Waiting)
    BY <1>1, <1>2, WaitingMoves DEF Ends
  <2>2. Flags'
    BY <1>1 DEF UsersInv, UsersTyped, Flags, Users!TypeOK
  <2>3. UsersTables'
    BY <1>1, <1>2, <2>1, UsersTypedParts DEF UsersInv, UsersTables, Ends
  <2> QED
    BY <2>2, <2>3, UsersTypedParts
<1>5. RolesTyped'
  BY <1>1, <1>2 DEF UsersInv, RolesTyped, Ends
<1>6. \A q \in Task : Latest(q)' <=> Latest(q)
  BY <1>1, <1>2 DEF Latest, Reading, Ends
<1>7. UsersOrder'
  BY <1>1, <1>2, <1>6 DEF UsersInv, UsersOrder, Sending, Reading, Ends
<1>8. TableFollows' /\ TableIsRead'
  <2>1. UpToDate => UpToDate'
    BY <1>1, <1>2, <1>6 DEF UpToDate, Ends, Latest, Reading
  <2> QED
    BY <1>1, <1>2, <2>1 DEF UsersInv, TableFollows, TableIsRead, Ends
<1>9. OneActs'
  BY <1>1, <1>2, <1>3 DEF UsersInv, OneActs, Users!Acting, Users!Active, Ends
<1>10. Users!SparesItself' /\ DialogIsRead' /\ KeptAreRead'
  BY <1>1, <1>2 DEF UsersInv, Users!SparesItself, Users!Acting, Users!Active, Ends, DialogIsRead,
     KeptAreRead, RoleIs
<1> QED
  BY <1>4, <1>5, <1>7, <1>8, <1>9, <1>10 DEF UsersInv

\* A fetch ends: the last one fills the table.
LEMMA FetchedKeeps ==
    ASSUME UsersInv, NEW t \in Task, Users!Fetched(t)
    PROVE  UsersInv'
<1>1. /\ task[t].at \in {"seen", "failed"} /\ Users!Fill(t)
      /\ pending' = (pending /\ task[t].kind = "fetch")
      /\ task' = [task EXCEPT ![t] = Users!Idle]
      /\ missed' = (missed /\ ~Users!CaughtUp(t))
      /\ UNCHANGED <<db, session, dialog, sequence, tasks, changes, behind, twice>>
  BY DEF Users!Fetched, Users!EndsAction
<1>2. Ends(t)
  BY <1>1, TaskEnds DEF UsersInv
<1>9. missed' \in BOOLEAN /\ (missed' => missed) /\ (Users!CaughtUp(t) => Latest(t))
  BY <1>1 DEF UsersInv, UsersTyped, Users!TypeOK, Users!CaughtUp, Latest, Reading
<1>10. ~Users!CaughtUp(t) => missed' = missed
  BY <1>1 DEF UsersInv, UsersTyped, Users!TypeOK
<1>3. ASSUME Latest(t)
      PROVE  /\ users' \in Users!Table /\ loading' \in BOOLEAN /\ error' \in BOOLEAN
             /\ UsersOrder' /\ TableFollows' /\ TableIsRead'
  <2>1. /\ users' = IF task[t].at = "seen" THEN task[t].answer ELSE users
        /\ error' = (error \/ task[t].at = "failed") /\ loading' = FALSE
    BY <1>1, <1>3 DEF Users!Fill, Latest
  <2>2. \A q \in Task : ~Latest(q)'
    BY <1>1, <1>2, <1>3 DEF UsersInv, UsersOrder, Ends, Latest, Reading
  <2>3. users' \in Users!Table
    BY <1>1, <2>1, UsersBounds DEF UsersInv, TaskType
  <2>4. loading' \in BOOLEAN /\ error' \in BOOLEAN
    BY <2>1
  <2>5. UsersOrder'
    <3>1. \A q \in Task : task'[q].at \in Sending \cup Reading => q # t
      BY <1>2 DEF Ends, Sending, Reading
    <3> QED
      BY <1>1, <1>2, <2>2, <3>1 DEF UsersInv, UsersOrder, Ends, Reading
  <2>6. UpToDate /\ task[t].at = "seen" => UpToDate'
    <3> SUFFICES ASSUME UpToDate, task[t].at = "seen" PROVE users' = db
      BY <1>1, <2>2 DEF UpToDate
    <3>1. task[t].answer = db
      BY <1>3 DEF UpToDate, UsersInv, UsersOrder
    <3> QED
      BY <2>1, <3>1
  <2>7. TableFollows'
    <3>1. (error \/ task[t].at = "failed") => error'
      BY <2>1
    <3>2. (\E q \in Task : task[q].at \in Sending) => \E q \in Task : task'[q].at \in Sending
      BY <1>1, <1>2 DEF Ends, Sending
    <3> QED
      BY <1>1, <2>6, <3>1, <3>2 DEF UsersInv, TableFollows
  <2>8. TableIsRead'
    <3>1. CASE Users!CaughtUp(t)
      BY <1>1, <2>1, <2>2, <3>1 DEF Users!CaughtUp, TableIsRead, UpToDate
    <3>2. CASE ~Users!CaughtUp(t) /\ missed
      BY <1>10, <3>2 DEF TableIsRead
    <3>3. CASE ~missed
      <4>1. task[t].at = "seen"
        BY <1>1, <1>3, <3>3 DEF UsersInv, UsersOrder
      <4>2. (\E q \in Task : task[q].at = "accepted") => \E q \in Task : task'[q].at = "accepted"
        BY <1>1, <1>2 DEF Ends
      <4> QED
        BY <2>6, <3>3, <4>1, <4>2 DEF UsersInv, TableIsRead
    <3> QED
      BY <3>1, <3>2, <3>3
  <2> QED
    BY <2>3, <2>4, <2>5, <2>7, <2>8
<1>4. ASSUME ~Latest(t)
      PROVE  /\ users' \in Users!Table /\ loading' \in BOOLEAN /\ error' \in BOOLEAN
             /\ UsersOrder' /\ TableFollows' /\ TableIsRead'
  <2>1. UNCHANGED <<users, error, loading>>
    BY <1>1, <1>4 DEF Users!Fill, Latest, Reading
  <2>2. \A q \in Task : Latest(q)' <=> Latest(q)
    BY <1>1, <1>2, <1>4 DEF Ends, Latest, Reading
  <2>3. users' \in Users!Table /\ loading' \in BOOLEAN /\ error' \in BOOLEAN
    BY <2>1, UsersBounds DEF UsersInv, UsersTyped, Users!TypeOK
  <2>7. missed' = missed
    BY <1>4, <1>9, <1>10
  <2>4. UsersOrder'
    BY <1>1, <1>2, <2>1, <2>2, <2>7 DEF UsersInv, UsersOrder, Ends, Sending, Reading
  <2>5. UpToDate => UpToDate'
    BY <1>1, <1>2, <1>4, <2>1, <2>2 DEF UpToDate, Ends
  <2>6. TableFollows' /\ TableIsRead'
    BY <1>1, <1>2, <2>1, <2>5, <2>7 DEF UsersInv, TableFollows, TableIsRead, Ends, Sending
  <2> QED
    BY <2>3, <2>4, <2>6
<1>5. UsersTyped'
  <2>1. Cardinality(Waiting') = Cardinality(Waiting)
    BY <1>1, <1>2, WaitingMoves DEF Ends
  <2>2. pending' \in BOOLEAN /\ loading' \in BOOLEAN /\ error' \in BOOLEAN
    BY <1>1, <1>3, <1>4
  <2>3. Flags'
    BY <1>1, <1>9, <2>2 DEF UsersInv, UsersTyped, Flags, Users!TypeOK
  <2>4. UsersTables'
    BY <1>1, <1>2, <1>3, <1>4, <2>1, UsersTypedParts DEF UsersInv, UsersTables, Ends
  <2> QED
    BY <2>3, <2>4, UsersTypedParts
<1>6. RolesTyped'
  BY <1>1, <1>2 DEF UsersInv, RolesTyped, Ends
<1>7. OneActs'
  <2>1. CASE task[t].kind = "fetch"
    <3>1. pending => pending'
      BY <1>1, <2>1
    <3> QED
      BY <1>1, <1>2, <3>1 DEF UsersInv, OneActs, Users!Acting, Users!Active, Ends
  <2>2. CASE task[t].kind # "fetch"
    <3>1. t \in Users!Acting
      BY <1>1, <2>2 DEF Users!Acting, Users!Active
    <3> QED
      BY <1>1, <1>2, <3>1 DEF UsersInv, OneActs, Users!Acting, Users!Active, Ends
  <2> QED
    BY <2>1, <2>2
<1>8. Users!SparesItself' /\ DialogIsRead' /\ KeptAreRead'
  <2>1. Users!SparesItself'
    BY <1>1, <1>2 DEF UsersInv, Users!SparesItself, Users!Acting, Users!Active, Ends
  <2>2. CASE Users!CaughtUp(t)
    <3>1. dialog'.kind # "edit"
      BY <1>1, <2>2 DEF Users!CaughtUp, Users!Closed
    <3>2. \A q \in Task : task'[q].at # "sent"
      <4> SUFFICES ASSUME NEW q \in Task, task'[q].at = "sent" PROVE FALSE
        OBVIOUS
      <4>1. q # t /\ task[q].at = "sent" /\ task[q].kind # "fetch"
        BY <1>1, <1>2 DEF UsersInv, UsersOrder, Sending, Ends
      <4> QED
        BY <2>2, <4>1 DEF Users!CaughtUp, Users!Acting, Users!Active
    <3> QED
      BY <2>1, <3>1, <3>2 DEF DialogIsRead, KeptAreRead
  <2>3. CASE ~Users!CaughtUp(t)
    <3>1. missed' = missed
      BY <1>10, <2>3
    <3>2. DialogIsRead'
      BY <1>1, <1>2, <3>1 DEF UsersInv, Ends, DialogIsRead, RoleIs
    <3>3. KeptAreRead'
      BY <1>1, <1>2, <3>1 DEF UsersInv, Ends, KeptAreRead, RoleIs
    <3> QED
      BY <2>1, <3>2, <3>3
  <2> QED
    BY <2>2, <2>3
<1> QED
  BY <1>3, <1>4, <1>5, <1>6, <1>7, <1>8 DEF UsersInv

-----------------------------------------------------------------------------
(* The page of the users: what it keeps                                    *)

LEMMA UsersBegin == Users!Init => UsersInv
<1> SUFFICES ASSUME Users!Init PROVE UsersInv
  OBVIOUS
<1>1. PICK first \in Task :
         task = [t \in Task |-> IF t = first THEN [Users!Idle EXCEPT !.at = "asking", !.number = 1]
                                ELSE Users!Idle]
  BY DEF Users!Init
<1>2. /\ db \in [User -> Users!Row] /\ users = [u \in User |-> Users!Gone]
      /\ session = FALSE /\ dialog = Users!Closed /\ pending = FALSE
      /\ loading = TRUE /\ error = FALSE /\ sequence = 1
      /\ tasks = 1 /\ changes = 0 /\ behind = FALSE /\ missed = FALSE /\ twice = FALSE
  BY DEF Users!Init
<1> DEFINE new == [Users!Idle EXCEPT !.at = "asking", !.number = 1]
<1>3. new \in TaskType /\ new.at = "asking" /\ new.number = 1 /\ new.kind = "fetch"
  <2>1. 1 \in 0 .. MaxTasks
    BY PagesAssumption
  <2>2. new \in TaskType /\ new.at = "asking" /\ new.number = 1 /\ new.kind = Users!Idle.kind
    BY <2>1, IdleTyped DEF TaskType
  <2> QED
    BY <2>2 DEF Users!Idle
<1>4. task[first] = new /\ \A t \in Task : t # first => task[t] = Users!Idle
  BY <1>1
<1> HIDE DEF new
<1>5. task \in [Task -> TaskType]
  BY <1>1, <1>3, IdleTyped DEF new
<1>6. Users!Idle.at = "idle"
  BY DEF Users!Idle
<1>7. UsersTyped
  <2>1. Waiting = {}
    BY <1>3, <1>4, <1>6 DEF Waiting
  <2>2. Cardinality(Waiting) = 0
    BY <2>1, FS_EmptySet
  <2>3. Flags
    BY <1>2 DEF Flags
  <2>4. db \in Users!Table /\ users \in Users!Table
    BY <1>2 DEF Users!Table
  <2>5. UsersTables
    BY <1>2, <1>5, <2>2, <2>4, ClosedTyped, PagesAssumption DEF UsersTables
  <2> QED
    BY <2>3, <2>5, UsersTypedParts
<1>8. dialog.kind # "edit"
  BY <1>2 DEF Users!Closed
<1>9. RolesTyped /\ DialogIsRead /\ KeptAreRead
  BY <1>3, <1>4, <1>6, <1>8 DEF RolesTyped, DialogIsRead, KeptAreRead
<1>10. Latest(first) /\ \A t \in Task : t # first => ~Latest(t)
  BY <1>2, <1>3, <1>4, <1>6 DEF Latest, Reading
<1>11. UsersOrder
  BY <1>2, <1>3, <1>4, <1>6, <1>10 DEF UsersOrder, Sending, Reading
<1>12. TableFollows /\ TableIsRead
  BY <1>3, <1>4, <1>10 DEF TableFollows, TableIsRead, UpToDate
<1>13. OneActs /\ Users!SparesItself
  BY <1>3, <1>4, <1>6 DEF OneActs, Users!SparesItself, Users!Acting, Users!Active
<1> QED
  BY <1>7, <1>9, <1>11, <1>12, <1>13 DEF UsersInv

LEMMA UsersStep == UsersInv /\ (Users!Next \/ UNCHANGED Users!vars) => UsersInv'
<1> SUFFICES ASSUME UsersInv, Users!Next \/ UNCHANGED Users!vars PROVE UsersInv'
  OBVIOUS
<1>0. session \in BOOLEAN /\ error \in BOOLEAN
  BY DEF UsersInv, UsersTyped, Users!TypeOK
<1>1. CASE Users!SessionKnown
  <2>1. session' \in BOOLEAN
    BY <1>1 DEF Users!SessionKnown
  <2> QED
    BY <1>0, <1>1, <2>1, CloseKeeps DEF Users!SessionKnown, Users!page
<1>2. CASE Users!Cancel
  BY <1>0, <1>2, CloseKeeps DEF Users!Cancel
<1>3. ASSUME NEW u \in User, NEW k \in Users!Kinds \ {"restore"}, Users!Open(k, u) PROVE UsersInv'
  BY <1>3, OpenKeeps
<1>4. ASSUME NEW u \in User, NEW new \in Users!Row \cup {Users!Gone}, Users!Other(u, new)
      PROVE  UsersInv'
  BY <1>4, OtherKeeps
<1>5. ASSUME NEW t \in Task, NEW pick \in {"untouched", "admin", "user"}, Users!SaveEdit(t, pick)
      PROVE  UsersInv'
  BY <1>5, SaveEditKeeps
<1>6. ASSUME NEW t \in Task, NEW u \in User, Users!Restore(t, u) PROVE UsersInv'
  BY <1>6, RestoreKeeps
<1>7. ASSUME NEW t \in Task,
             \/ Users!SaveSuspension(t) \/ Users!ConfirmDeletion(t) \/ Users!Retry(t)
             \/ Users!Handle(t) \/ Users!ReadUsers(t) \/ Users!FailToRead(t)
             \/ Users!Accepted(t) \/ Users!Refused(t) \/ Users!Fetched(t)
      PROVE  UsersInv'
  BY <1>7, SaveSuspensionKeeps, ConfirmDeletionKeeps, RetryKeeps, HandleKeeps, ReadKeeps,
     AcceptedKeeps, RefusedKeeps, FetchedKeeps
<1>8. CASE UNCHANGED Users!vars
  BY <1>0, <1>8, CloseKeeps DEF Users!vars
<1> QED
  BY <1>1, <1>2, <1>3, <1>4, <1>5, <1>6, <1>7, <1>8 DEF Users!Next

\* A step of the instance is one of the page or leaves it alone.
LEMMA UsersConsoleStep ==
    ASSUME [ConsoleNext]_consoleVars
    PROVE  /\ part' = part
           /\ part = "users" => Users!Next \/ UNCHANGED Users!vars
           /\ part # "users" => UNCHANGED usersVars
  BY DEF ConsoleNext, consoleVars, usersVars, Users!vars

\* The invariant of the page: numbers, the last fetch, and what the table and an open
\* dialog may lack.
THEOREM UsersPageInvariant == ConsoleSpec => [](part = "users" => UsersInv)
<1>1. ConsoleInit => (part = "users" => UsersInv)
  BY UsersBegin DEF ConsoleInit
<1>2. (part = "users" => UsersInv) /\ [ConsoleNext]_consoleVars => (part = "users" => UsersInv)'
  BY UsersConsoleStep, UsersStep
<1> QED
  BY <1>1, <1>2, PTL DEF ConsoleSpec

\* At rest the table is the directory; one request at a time; and the page spares its own
\* user, for any number of users, requests and changes.
THEOREM UsersPageIsSound == ConsoleSpec => []PageIsSound
<1>1. ASSUME UsersInv PROVE Users!PageIsSound
  <2>1. Users!TableIsTrue
    <3> SUFFICES ASSUME Users!Active = {}, ~error PROVE users = db \/ behind
      BY DEF Users!TableIsTrue
    <3>1. \A t \in Task : task[t].at = "idle"
      BY DEF Users!Active
    <3>2. \A t \in Task : ~Latest(t) /\ task[t].at \notin Sending
      BY <3>1 DEF Latest, Reading, Sending
    <3> QED
      BY <1>1, <3>2 DEF UsersInv, TableFollows, UpToDate
  <2>2. Users!OneAtATime
    <3> SUFFICES ASSUME Users!Acting # {}, ~twice
                 PROVE  pending /\ Users!Cardinality(Users!Acting) = 1
      BY DEF Users!OneAtATime
    <3>1. PICK t \in Users!Acting : TRUE
      OBVIOUS
    <3>2. Users!Acting \subseteq Task
      BY DEF Users!Acting, Users!Active
    <3>3. pending /\ Users!Acting = {t}
      BY <1>1, <3>1, <3>2 DEF UsersInv, OneActs
    <3>4. Cardinality({t}) = 1
      BY FS_Singleton
    <3> QED
      BY <3>3, <3>4 DEF Cardinality, Users!Cardinality
  <2>3. Users!SparesItself
    BY <1>1 DEF UsersInv
  <2> QED
    BY <2>1, <2>2, <2>3 DEF Users!PageIsSound
<1>2. (part = "users" => UsersInv) => PageIsSound
  BY <1>1 DEF PageIsSound
<1> QED
  BY <1>2, UsersPageInvariant, PTL

\* Only the backend takes a request out of the stage in which it is sent.
LEMMA OnlyHandled ==
    ASSUME UsersInv, Users!Next, NEW t \in Task, task[t].at = "sent", task'[t].at # "sent"
    PROVE  Users!Handle(t)
<1>0. task \in [Task -> TaskType] /\ task'[t] # task[t]
  BY TasksTyped DEF UsersInv
<1>1. ASSUME Users!SessionKnown \/ Users!Cancel PROVE FALSE
  BY <1>0, <1>1 DEF Users!SessionKnown, Users!Cancel
<1>2. ASSUME NEW u \in User, NEW k \in Users!Kinds, Users!Open(k, u) PROVE FALSE
  BY <1>0, <1>2 DEF Users!Open
<1>3. ASSUME NEW u \in User, NEW new \in Users!Row \cup {Users!Gone}, Users!Other(u, new) PROVE FALSE
  BY <1>0, <1>3 DEF Users!Other
<1>4. ASSUME NEW q \in Task, NEW new, Users!Start(q, new) PROVE FALSE
  BY <1>0, <1>4 DEF Users!Start
<1>5. ASSUME Users!RefuseSelf PROVE FALSE
  BY <1>0, <1>5 DEF Users!RefuseSelf
<1>6. ASSUME NEW q \in Task, NEW pick \in {"untouched", "admin", "user"}, Users!SaveEdit(q, pick)
      PROVE  FALSE
  BY <1>4, <1>5, <1>6 DEF Users!SaveEdit, Users!Send
<1>7. ASSUME NEW q \in Task, NEW u \in User,
             Users!Restore(q, u) \/ Users!SaveSuspension(q) \/ Users!ConfirmDeletion(q) \/ Users!Retry(q)
      PROVE  FALSE
  BY <1>4, <1>5, <1>7
     DEF Users!Restore, Users!SaveSuspension, Users!ConfirmDeletion, Users!Retry, Users!Send
<1>8. ASSUME NEW q \in Task, Users!Handle(q) PROVE q = t
  BY <1>0, <1>8 DEF Users!Handle
<1>9. ASSUME NEW q \in Task,
             \/ Users!ReadUsers(q) \/ Users!FailToRead(q)
             \/ Users!Accepted(q) \/ Users!Refused(q) \/ Users!Fetched(q)
      PROVE  FALSE
  BY <1>0, <1>9
     DEF Users!ReadUsers, Users!FailToRead, Users!Accepted, Users!Refused, Users!Fetched
<1>10. Self \in User
  BY PagesAssumption
<1> QED
  BY <1>1, <1>2, <1>3, <1>6, <1>7, <1>8, <1>9, <1>10 DEF Users!Next

\* A role that is left alone is kept, whatever is answered when, unless the table lacked a
\* change or a deletion was confirmed twice.
THEOREM TheKeptRoleStays == ConsoleSpec => KeptRoleStays
<1> DEFINE Kept ==
        \A t \in Task :
            task[t].at = "sent" /\ task[t].kept /\ task'[t].at # "sent"
              => db'[task[t].user].role = db[task[t].user].role \/ missed \/ twice
<1>1. (part = "users" => UsersInv) /\ [ConsoleNext]_consoleVars => Kept
  <2> SUFFICES ASSUME part = "users" => UsersInv, [ConsoleNext]_consoleVars, NEW t \in Task,
                      task[t].at = "sent", task[t].kept, task'[t].at # "sent", ~missed, ~twice
               PROVE  db'[task[t].user].role = db[task[t].user].role
    OBVIOUS
  <2>1. UsersInv /\ Users!Next
    BY UsersConsoleStep DEF usersVars, Users!vars
  <2>3. Users!Handle(t)
    BY <2>1, OnlyHandled
  <2>4. task[t].kind = "edit" /\ RoleIs(task[t].user, task[t].role)
    BY <2>1 DEF UsersInv, KeptAreRead
  <2> DEFINE u == task[t].user
  <2>5. CASE UNCHANGED db
    BY <2>5
  <2>6. CASE Users!Allowed(t) /\ db' = [db EXCEPT ![u] = Users!Effect(@, task[t])]
    <3>1. /\ u \in User /\ db \in Users!Table /\ task \in [Task -> TaskType]
          /\ task[t].role \in {"admin", "user"}
      BY <2>1, <2>4, UsersBounds, TasksTyped DEF UsersInv, RolesTyped, TaskType
    <3>2. db'[u] = Users!Effect(db[u], task[t])
      BY <2>6, <3>1 DEF Users!Table
    <3>3. db[u].role = task[t].role
      BY <2>4, <2>6 DEF RoleIs, Users!Allowed
    <3> QED
      BY <2>4, <2>6, <3>1, <3>2, <3>3, EffectTyped
  <2> QED
    BY <2>3, <2>5, <2>6 DEF Users!Handle
<1> QED
  BY <1>1, UsersPageInvariant, PTL DEF ConsoleSpec, KeptRoleStays, Users!KeptRoleStays

-----------------------------------------------------------------------------
(* The page of the plugin registry                                         *)

RequestType ==
    [at : {"none", "sent", "answered", "refused", "loading", "loaded", "ended"},
     kind : Registry!Handlers \cup {"load", "top"},
     project : Project \cup {Registry!None}, read : 0 .. MaxRequests]

\* The requests that may still change the library, once each.
Unhandled == {t \in Registry!Requests : request[t].at = "sent" /\ Registry!Changes(t)}

\* A handler loads the library after a change of it.
LoadsWhatChanged ==
    \A t \in Registry!Requests : request[t].at \in {"loading", "loaded"} => Registry!Changes(t)

RegistryTyped ==
    /\ Registry!TypeOK
    /\ \A t \in Registry!Requests : t > requests => request[t].at = "none"
    /\ LoadsWhatChanged
    /\ library + Cardinality(Unhandled) <= requests

\* Without an overlap a handler is the only one under way.
Alone == overlap \/ \A t \in Registry!Handling : \A q \in Registry!Active : q = t

BusyFollows ==
    /\ busy => \E t \in Registry!Handling : TRUE
    /\ overlap \/ \A t \in Registry!Handling : busy

\* The releases are the selected project's, or will be.
VersionsFollow ==
    \/ failed \/ overlap \/ selected = Registry!None \/ versions = Registry!None
    \/ versions = selected
    \/ \E t \in Registry!Active : request[t].kind = "versions" /\ request[t].project = selected

VersionsAsked ==
    overlap \/ \A t \in Registry!Active :
        request[t].kind = "versions" => selected = Registry!None \/ selected = request[t].project

\* What was found is on screen, or on its way.
ResultsFollow ==
    \/ searched = 0 \/ nothing \/ failed \/ overlap
    \/ source = searched /\ \A t \in Registry!Active : request[t].kind \notin {"search", "top"}
    \/ searched \in Registry!Active /\ request[searched].kind = "search"

\* A request that will bring the library: of a handler, or the page's first one.
Brings(t) ==
    \/ Registry!Changes(t) /\ request[t].at \in {"answered", "loading", "loaded"}
    \/ request[t].kind = "load" /\ request[t].at \in {"sent", "answered"}

\* The library is on screen, or will be loaded.
LibraryFollows ==
    \/ failed \/ overlap \/ artifacts = library
    \/ \E t \in Registry!Requests : Brings(t)

ReadIsTrue ==
    overlap \/ \A t \in Registry!Requests :
        (request[t].at = "loaded" \/ (request[t].at = "answered" /\ request[t].kind = "load"))
            => request[t].read = library

RefusalIsKept == \A t \in Registry!Requests : request[t].at = "refused" => failed

RegistryInv ==
    /\ RegistryTyped /\ Alone /\ BusyFollows /\ VersionsFollow /\ VersionsAsked
    /\ ResultsFollow /\ LibraryFollows /\ ReadIsTrue /\ RefusalIsKept
    /\ Registry!StoredAsWhatItIs

\* The type, without the flags.
RegistryFlags == {target, busy, error, overlap, failed, nothing} \subseteq BOOLEAN
RegistryTables ==
    /\ {library, artifacts} \subseteq 0 .. MaxRequests
    /\ projects \subseteq Project
    /\ {selected, versions} \subseteq Project \cup {Registry!None}
    /\ {source, searched, requests} \subseteq 0 .. MaxRequests
    /\ request \in [Registry!Requests -> RequestType]
    /\ stored \subseteq [release : Project, described : Project]
    /\ \A t \in Registry!Requests : t > requests => request[t].at = "none"
    /\ LoadsWhatChanged
    /\ library + Cardinality(Unhandled) <= requests

LEMMA RegistryTypedParts ==
    /\ RegistryTyped <=> RegistryFlags /\ RegistryTables
    /\ RegistryTyped' <=> RegistryFlags' /\ RegistryTables'
  BY DEF RegistryTyped, Registry!TypeOK, RegistryFlags, RegistryTables, RequestType

\* One request changes.
OnlyRequest(t) == \A q \in Registry!Requests \ {t} : request'[q] = request[q]

LEMMA UnhandledMoves ==
    ASSUME NEW t \in Registry!Requests, OnlyRequest(t)
    PROVE  /\ Cardinality(Unhandled) \in Nat /\ Cardinality(Unhandled') \in Nat
           /\ t \in Unhandled /\ t \notin Unhandled'
                => Cardinality(Unhandled') = Cardinality(Unhandled) - 1
           /\ t \notin Unhandled /\ t \in Unhandled'
                => Cardinality(Unhandled') = Cardinality(Unhandled) + 1
           /\ (t \in Unhandled <=> t \in Unhandled') => Cardinality(Unhandled') = Cardinality(Unhandled)
<1>1. IsFiniteSet(Unhandled) /\ IsFiniteSet(Unhandled')
  <2>1. Unhandled \subseteq 1 .. MaxRequests /\ Unhandled' \subseteq 1 .. MaxRequests
    BY DEF Unhandled, Registry!Requests
  <2>2. IsFiniteSet(1 .. MaxRequests)
    BY PagesAssumption, FS_Interval
  <2> QED
    BY <2>1, <2>2, FS_Subset
<1>2. Cardinality(Unhandled) \in Nat /\ Cardinality(Unhandled') \in Nat
  BY <1>1, FS_CardinalityType
<1>3. \A q \in Registry!Requests : q # t => (q \in Unhandled <=> q \in Unhandled')
  BY DEF Unhandled, Registry!Changes, OnlyRequest
<1>4. Unhandled \subseteq Registry!Requests /\ Unhandled' \subseteq Registry!Requests
  BY DEF Unhandled
<1>5. ASSUME t \in Unhandled, t \notin Unhandled'
      PROVE  Cardinality(Unhandled') = Cardinality(Unhandled) - 1
  <2>1. Unhandled' = Unhandled \ {t}
    BY <1>3, <1>4, <1>5
  <2> QED
    BY <1>1, <1>5, <2>1, FS_RemoveElement
<1>6. ASSUME t \notin Unhandled, t \in Unhandled'
      PROVE  Cardinality(Unhandled') = Cardinality(Unhandled) + 1
  <2>1. Unhandled' = Unhandled \cup {t}
    BY <1>3, <1>4, <1>6
  <2> QED
    BY <1>1, <1>6, <2>1, FS_AddElement
<1>7. ASSUME t \in Unhandled <=> t \in Unhandled'
      PROVE  Cardinality(Unhandled') = Cardinality(Unhandled)
  <2>1. Unhandled' = Unhandled
    BY <1>3, <1>4, <1>7
  <2> QED
    BY <2>1
<1> QED
  BY <1>2, <1>5, <1>6, <1>7

\* The records of a request.
LEMMA RequestRecords ==
    /\ Registry!NoRequest \in RequestType /\ Registry!Ended \in RequestType
    /\ Registry!NoRequest.at = "none" /\ Registry!Ended.at = "ended"
    /\ \A k \in Registry!Handlers \cup {"load", "top"}, p \in Project \cup {Registry!None} :
          /\ Registry!New(k, p) \in RequestType
          /\ Registry!New(k, p).at = "sent" /\ Registry!New(k, p).kind = k
          /\ Registry!New(k, p).project = p
<1>1. 0 \in 0 .. MaxRequests
  BY PagesAssumption
<1> QED
  BY <1>1 DEF RequestType, Registry!NoRequest, Registry!Ended, Registry!New, Registry!None

\* What the beginning of a handler does.
Begun(k, p) ==
    /\ requests + 1 \in Registry!Requests /\ request[requests + 1].at = "none"
    /\ requests' = requests + 1 /\ requests \in Nat
    /\ request' \in [Registry!Requests -> RequestType]
    /\ OnlyRequest(requests + 1)
    /\ request'[requests + 1].at = "sent" /\ request'[requests + 1].kind = k
    /\ request'[requests + 1].project = p
    /\ overlap => overlap'
    /\ ~overlap' => Registry!Active = {}
    /\ overlap' \in BOOLEAN /\ busy' = TRUE /\ error' = FALSE

LEMMA StartBegins ==
    ASSUME RegistryTyped, NEW k \in Registry!Handlers, NEW p \in Project \cup {Registry!None},
           Registry!Start(k, p)
    PROVE  Begun(k, p)
<1>1. /\ requests < MaxRequests /\ requests' = requests + 1
      /\ request' = [request EXCEPT ![requests + 1] = Registry!New(k, p)]
      /\ busy' = TRUE /\ error' = FALSE
  BY DEF Registry!Start
<1>2. /\ overlap => overlap'
      /\ ~overlap' => Registry!Active = {}
      /\ overlap' \in BOOLEAN
  BY DEF Registry!Start
<1>3. /\ requests \in Nat /\ requests + 1 \in Registry!Requests
      /\ request \in [Registry!Requests -> RequestType]
      /\ request[requests + 1].at = "none"
  BY <1>1, PagesAssumption, RegistryTypedParts DEF RegistryTables, Registry!Requests
<1>4. /\ Registry!New(k, p) \in RequestType /\ Registry!New(k, p).at = "sent"
      /\ Registry!New(k, p).kind = k /\ Registry!New(k, p).project = p
  BY RequestRecords
<1>5. /\ request' \in [Registry!Requests -> RequestType]
      /\ request'[requests + 1] = Registry!New(k, p)
      /\ OnlyRequest(requests + 1)
  BY <1>1, <1>3, <1>4 DEF OnlyRequest
<1> QED
  BY <1>1, <1>2, <1>3, <1>4, <1>5 DEF Begun

\* What every handler's beginning keeps.
LEMMA BegunKeeps ==
    ASSUME RegistryInv, NEW k \in Registry!Handlers, NEW p \in Project \cup {Registry!None},
           Begun(k, p), UNCHANGED <<library, artifacts, target, projects, source, failed, nothing>>,
           {selected', versions'} \subseteq Project \cup {Registry!None},
           searched' \in 0 .. MaxRequests, stored' \subseteq [release : Project, described : Project]
    PROVE  /\ RegistryTyped' /\ Alone' /\ BusyFollows' /\ LibraryFollows' /\ ReadIsTrue'
           /\ RefusalIsKept'
           /\ overlap' \/ \A t \in Registry!Requests : t \in Registry!Active' <=> t = requests + 1
<1> DEFINE n == requests + 1
<1>1. /\ n \in Registry!Requests /\ request[n].at = "none" /\ requests' = n /\ requests \in Nat
      /\ request' \in [Registry!Requests -> RequestType]
      /\ \A q \in Registry!Requests : q # n => request'[q] = request[q]
      /\ OnlyRequest(n)
      /\ request'[n].at = "sent" /\ request'[n].kind = k /\ request'[n].project = p
      /\ busy' = TRUE
  BY DEF Begun, OnlyRequest
<1>2. /\ overlap => overlap'
      /\ ~overlap' => Registry!Active = {}
      /\ overlap' \in BOOLEAN /\ error' \in BOOLEAN
  BY DEF Begun
<1> HIDE DEF n
<1>3. /\ n \in Registry!Handling'
      /\ \A q \in Registry!Requests : q # n =>
            (q \in Registry!Active' <=> q \in Registry!Active)
  BY <1>1 DEF Registry!Handling, Registry!Active
<1>4. overlap' \/ \A t \in Registry!Requests : t \in Registry!Active' <=> t = n
  BY <1>2, <1>3 DEF Registry!Handling
<1>5. RegistryTyped'
  <2>1. Cardinality(Unhandled') <= Cardinality(Unhandled) + 1 /\ Cardinality(Unhandled) \in Nat
        /\ Cardinality(Unhandled') \in Nat
    BY <1>1, UnhandledMoves DEF Unhandled
  <2>2. RegistryFlags'
    BY <1>1, <1>2 DEF RegistryInv, RegistryTyped, RegistryFlags, Registry!TypeOK
  <2>3. LoadsWhatChanged'
    BY <1>1, RegistryTypedParts
       DEF RegistryInv, RegistryTables, LoadsWhatChanged, Registry!Changes
  <2>4. RegistryTables'
    BY <1>1, <2>1, <2>3, RegistryTypedParts, PagesAssumption
       DEF RegistryInv, RegistryTables, Registry!Requests, n
  <2> QED
    BY <2>2, <2>4, RegistryTypedParts
<1>6. Alone'
  BY <1>4 DEF Alone, Registry!Handling, Registry!Active
<1>7. BusyFollows'
  BY <1>1, <1>3 DEF BusyFollows
<1>8. LibraryFollows'
  BY <1>1, <1>2 DEF RegistryInv, LibraryFollows, Brings, Registry!Changes
<1>9. ReadIsTrue'
  BY <1>1, <1>2 DEF RegistryInv, ReadIsTrue
<1>10. RefusalIsKept'
  BY <1>1 DEF RegistryInv, RefusalIsKept
<1> QED
  BY <1>4, <1>5, <1>6, <1>7, <1>8, <1>9, <1>10 DEF n

LEMMA SearchKeeps ==
    ASSUME RegistryInv, Registry!Search
    PROVE  RegistryInv'
<1>1. /\ Registry!Start("search", Registry!None)
      /\ selected' = Registry!None /\ versions' = Registry!None /\ searched' = requests + 1
      /\ UNCHANGED <<library, projects, source, artifacts, target, stored, failed, nothing>>
  BY DEF Registry!Search
<1>2. "search" \in Registry!Handlers /\ Begun("search", Registry!None)
  BY <1>1, StartBegins DEF RegistryInv, Registry!Handlers
<1>3. /\ searched' \in 0 .. MaxRequests /\ requests + 1 \in Registry!Requests
      /\ stored' \subseteq [release : Project, described : Project]
  BY <1>1, <1>2, RegistryTypedParts DEF Begun, Registry!Requests, RegistryInv, RegistryTables
<1>4. /\ RegistryTyped' /\ Alone' /\ BusyFollows' /\ LibraryFollows' /\ ReadIsTrue'
      /\ RefusalIsKept'
  BY <1>1, <1>2, <1>3, BegunKeeps
<1>5. VersionsFollow' /\ VersionsAsked'
  BY <1>1 DEF VersionsFollow, VersionsAsked
<1>6. ResultsFollow'
  <2>1. (requests + 1) \in Registry!Active' /\ request'[requests + 1].kind = "search"
    BY <1>2 DEF Begun, Registry!Active
  <2> QED
    BY <1>1, <2>1 DEF ResultsFollow
<1>7. Registry!StoredAsWhatItIs'
  BY <1>1 DEF RegistryInv, Registry!StoredAsWhatItIs
<1> QED
  BY <1>4, <1>5, <1>6, <1>7 DEF RegistryInv

LEMMA SelectKeeps ==
    ASSUME RegistryInv, NEW p \in Project, Registry!SelectProject(p)
    PROVE  RegistryInv'
<1> DEFINE n == requests + 1
<1>1. /\ Registry!Start("versions", p) /\ selected' = p
      /\ UNCHANGED <<library, projects, source, versions, artifacts, target, searched, stored, failed,
                     nothing>>
  BY DEF Registry!SelectProject, Registry!StartVersions
<1>2. "versions" \in Registry!Handlers /\ Begun("versions", p)
  BY <1>1, StartBegins DEF RegistryInv, Registry!Handlers
<1>3. /\ searched' \in 0 .. MaxRequests /\ {selected', versions'} \subseteq Project \cup {Registry!None}
      /\ stored' \subseteq [release : Project, described : Project]
  BY <1>1, RegistryTypedParts DEF RegistryInv, RegistryTables
<1>4. /\ RegistryTyped' /\ Alone' /\ BusyFollows' /\ LibraryFollows' /\ ReadIsTrue'
      /\ RefusalIsKept'
      /\ overlap' \/ \A t \in Registry!Requests : t \in Registry!Active' <=> t = n
  BY <1>1, <1>2, <1>3, BegunKeeps
<1>5. /\ n \in Registry!Active' /\ request'[n].kind = "versions" /\ request'[n].project = p
      /\ (overlap => overlap') /\ (~overlap' => Registry!Active = {})
  BY <1>2 DEF Begun, Registry!Active
<1> HIDE DEF n
<1>6. VersionsFollow'
  BY <1>1, <1>5 DEF VersionsFollow
<1>7. VersionsAsked'
  BY <1>1, <1>4, <1>5 DEF VersionsAsked, Registry!Active
<1>8. ResultsFollow'
  BY <1>1, <1>4, <1>5 DEF RegistryInv, ResultsFollow, Registry!Active
<1>9. Registry!StoredAsWhatItIs'
  BY <1>1 DEF RegistryInv, Registry!StoredAsWhatItIs
<1> QED
  BY <1>4, <1>6, <1>7, <1>8, <1>9 DEF RegistryInv

\* The handlers that change the library.
LEMMA ChangeBegins ==
    ASSUME RegistryInv, NEW k \in {"store", "upload", "delete"},
           NEW p \in Project \cup {Registry!None}, Registry!Start(k, p),
           UNCHANGED <<library, projects, source, selected, versions, artifacts, target, searched,
                       failed, nothing>>,
           stored' \subseteq [release : Project, described : Project], Registry!StoredAsWhatItIs'
    PROVE  RegistryInv'
<1> DEFINE n == requests + 1
<1>1. k \in Registry!Handlers /\ Begun(k, p)
  <2>1. k \in Registry!Handlers
    BY DEF Registry!Handlers
  <2> QED
    BY <2>1, StartBegins DEF RegistryInv
<1>2. searched' \in 0 .. MaxRequests /\ {selected', versions'} \subseteq Project \cup {Registry!None}
  BY RegistryTypedParts DEF RegistryInv, RegistryTables
<1>3. /\ RegistryTyped' /\ Alone' /\ BusyFollows' /\ LibraryFollows' /\ ReadIsTrue'
      /\ RefusalIsKept'
      /\ overlap' \/ \A t \in Registry!Requests : t \in Registry!Active' <=> t = n
  BY <1>1, <1>2, BegunKeeps
<1>4. /\ request'[n].kind = k
      /\ (overlap => overlap') /\ (~overlap' => Registry!Active = {})
  BY <1>1 DEF Begun
<1> HIDE DEF n
<1>5. VersionsFollow'
  BY <1>4 DEF RegistryInv, VersionsFollow
<1>6. VersionsAsked'
  BY <1>3, <1>4 DEF VersionsAsked, Registry!Active
<1>7. ResultsFollow'
  BY <1>3, <1>4 DEF RegistryInv, ResultsFollow, Registry!Active
<1> QED
  BY <1>3, <1>5, <1>6, <1>7 DEF RegistryInv

LEMMA StoreKeeps ==
    ASSUME RegistryInv, Registry!Store
    PROVE  RegistryInv'
<1>1. /\ ~busy /\ selected # Registry!None /\ versions # Registry!None
      /\ Registry!Start("store", versions)
      /\ UNCHANGED <<library, projects, source, selected, versions, artifacts, target, searched,
                     failed, nothing>>
      /\ stored' = IF failed \/ overlap THEN stored
                   ELSE stored \cup {[release |-> versions, described |-> selected]}
  BY DEF Registry!Store, Registry!discover
<1>2. versions \in Project /\ selected \in Project
      /\ stored \subseteq [release : Project, described : Project]
  BY <1>1, RegistryTypedParts DEF RegistryInv, RegistryTables
<1>3. failed \/ overlap \/ versions = selected
  BY <1>1 DEF RegistryInv, VersionsFollow, BusyFollows, Registry!Handling, Registry!Handlers
<1>4. /\ stored' \subseteq [release : Project, described : Project]
      /\ Registry!StoredAsWhatItIs'
  BY <1>1, <1>2, <1>3 DEF RegistryInv, Registry!StoredAsWhatItIs
<1> QED
  BY <1>1, <1>2, <1>4, ChangeBegins

LEMMA UploadDeleteKeep ==
    ASSUME RegistryInv, Registry!Upload \/ Registry!DeleteArtifact
    PROVE  RegistryInv'
<1>1. PICK k \in {"upload", "delete"} : Registry!Start(k, Registry!None)
  BY DEF Registry!Upload, Registry!DeleteArtifact
<1>2. UNCHANGED <<library, projects, source, selected, versions, artifacts, target, searched, stored,
                  failed, nothing>>
  BY DEF Registry!Upload, Registry!DeleteArtifact, Registry!discover
<1>3. stored' \subseteq [release : Project, described : Project] /\ Registry!StoredAsWhatItIs'
  BY <1>2, RegistryTypedParts DEF RegistryInv, RegistryTables, Registry!StoredAsWhatItIs
<1> QED
  BY <1>1, <1>2, <1>3, ChangeBegins

LEMMA QuietKeeps ==
    ASSUME RegistryInv, Registry!Back \/ Registry!AskToDelete \/ Registry!Cancel
    PROVE  RegistryInv'
<1>1. UNCHANGED <<library, projects, source, versions, artifacts, busy, error, request, requests,
                  searched, stored, overlap, failed, nothing>>
  BY DEF Registry!Back, Registry!AskToDelete, Registry!Cancel, Registry!discover, Registry!history
<1>2. target' \in BOOLEAN /\ (selected' = selected \/ selected' = Registry!None)
  <2>1. CASE Registry!Back
    BY <2>1 DEF RegistryInv, RegistryTyped, Registry!TypeOK, Registry!Back
  <2>2. CASE Registry!AskToDelete \/ Registry!Cancel
    BY <2>2 DEF Registry!AskToDelete, Registry!Cancel, Registry!discover
  <2> QED
    BY <2>1, <2>2
<1>3. RegistryTyped'
  <2>1. RegistryFlags'
    BY <1>1, <1>2, RegistryTypedParts DEF RegistryInv, RegistryFlags
  <2>2. RegistryTables'
    BY <1>1, <1>2, RegistryTypedParts DEF RegistryInv, RegistryTables, LoadsWhatChanged, Unhandled,
       Registry!Changes
  <2> QED
    BY <2>1, <2>2, RegistryTypedParts
<1>4. Alone' /\ BusyFollows' /\ ResultsFollow' /\ LibraryFollows' /\ ReadIsTrue' /\ RefusalIsKept'
      /\ Registry!StoredAsWhatItIs'
  BY <1>1 DEF RegistryInv, Alone, BusyFollows, ResultsFollow, LibraryFollows, Brings, ReadIsTrue,
     RefusalIsKept, Registry!StoredAsWhatItIs, Registry!Active, Registry!Handling, Registry!Changes
<1>5. VersionsFollow' /\ VersionsAsked'
  BY <1>1, <1>2 DEF RegistryInv, VersionsFollow, VersionsAsked, Registry!Active
<1> QED
  BY <1>3, <1>4, <1>5 DEF RegistryInv

\* A request goes on: where it is and what it has read are new.
GoesOn(t, a, n) ==
    /\ request' \in [Registry!Requests -> RequestType] /\ OnlyRequest(t)
    /\ request'[t].at = a /\ request'[t].read = n
    /\ request'[t].kind = request[t].kind /\ request'[t].project = request[t].project

LEMMA RequestGoesOn ==
    ASSUME RegistryTyped, NEW t \in Registry!Requests, NEW n \in 0 .. MaxRequests,
           NEW a \in {"sent", "answered", "refused", "loading", "loaded"}
    PROVE  /\ request' = [request EXCEPT ![t].at = a, ![t].read = n] => GoesOn(t, a, n)
           /\ request' = [request EXCEPT ![t].at = a] => GoesOn(t, a, request[t].read)
<1>1. request \in [Registry!Requests -> RequestType]
  BY RegistryTypedParts DEF RegistryTables
<1> QED
  BY <1>1 DEF GoesOn, OnlyRequest, RequestType

\* A request that is under way and stays so.
LEMMA UnderWay ==
    ASSUME RegistryInv, NEW t \in Registry!Requests, NEW n, NEW a, GoesOn(t, a, n),
           request[t].at \notin {"none", "ended"}, a \notin {"none", "ended"},
           UNCHANGED <<projects, source, selected, versions, busy, requests, searched, stored,
                       overlap, nothing>>,
           failed => failed'
    PROVE  /\ \A q \in Registry!Requests : q \in Registry!Active' <=> q \in Registry!Active
           /\ \A q \in Registry!Requests : q \in Registry!Handling' <=> q \in Registry!Handling
           /\ \A q \in Registry!Requests : request'[q].kind = request[q].kind
           /\ \A q \in Registry!Requests : request'[q].project = request[q].project
           /\ Alone' /\ BusyFollows' /\ VersionsFollow' /\ VersionsAsked' /\ ResultsFollow'
           /\ Registry!StoredAsWhatItIs'
<1>1. /\ \A q \in Registry!Requests : request'[q].kind = request[q].kind
      /\ \A q \in Registry!Requests : request'[q].project = request[q].project
  BY DEF GoesOn, OnlyRequest
<1>2. \A q \in Registry!Requests : q \in Registry!Active' <=> q \in Registry!Active
  BY DEF GoesOn, OnlyRequest, Registry!Active
<1>3. \A q \in Registry!Requests : q \in Registry!Handling' <=> q \in Registry!Handling
  BY <1>1, <1>2 DEF Registry!Handling, Registry!Active
<1>4. /\ Registry!Active \subseteq Registry!Requests /\ Registry!Active' \subseteq Registry!Requests
      /\ Registry!Handling \subseteq Registry!Requests /\ Registry!Handling' \subseteq Registry!Requests
  BY DEF Registry!Active, Registry!Handling
<1>5. Registry!Active' = Registry!Active /\ Registry!Handling' = Registry!Handling
  BY <1>2, <1>3, <1>4
<1>6. Alone' /\ BusyFollows'
  BY <1>5 DEF RegistryInv, Alone, BusyFollows
<1>7. VersionsFollow' /\ VersionsAsked' /\ ResultsFollow'
  <2>1. VersionsFollow'
    BY <1>1, <1>4, <1>5 DEF RegistryInv, VersionsFollow
  <2>2. VersionsAsked'
    BY <1>1, <1>4, <1>5 DEF RegistryInv, VersionsAsked
  <2>3. ResultsFollow'
    BY <1>1, <1>4, <1>5 DEF RegistryInv, ResultsFollow
  <2> QED
    BY <2>1, <2>2, <2>3
<1>8. Registry!StoredAsWhatItIs'
  BY DEF RegistryInv, Registry!StoredAsWhatItIs
<1> QED
  BY <1>1, <1>2, <1>3, <1>6, <1>7, <1>8

LEMMA HandledKeeps ==
    ASSUME RegistryInv, NEW t \in Registry!Requests, Registry!Handle(t)
    PROVE  RegistryInv'
<1>1. /\ request[t].at = "sent"
      /\ UNCHANGED <<projects, source, selected, versions, artifacts, target, busy, error, requests,
                     searched, stored, overlap, nothing>>
  BY DEF Registry!Handle, Registry!discover
<1>2. /\ {library, artifacts, requests} \subseteq Nat /\ requests <= MaxRequests
      /\ library + Cardinality(Unhandled) <= requests /\ MaxRequests \in Nat
      /\ request \in [Registry!Requests -> RequestType]
      /\ \A q \in Registry!Requests : q > requests => request[q].at = "none"
  BY RegistryTypedParts, PagesAssumption DEF RegistryInv, RegistryTables
<1>3. /\ library' = library \/ (Registry!Changes(t) /\ library' = library + 1)
      /\ \/ library' = (IF Registry!Changes(t) THEN library + 1 ELSE library)
            /\ request' = [request EXCEPT ![t].at = "answered", ![t].read = library']
            /\ failed' = failed
         \/ request' = [request EXCEPT ![t].at = "refused"] /\ failed' = TRUE
  BY DEF Registry!Handle
<1>4. Registry!Changes(t) <=> t \in Unhandled
  BY <1>1 DEF Unhandled
<1>5. /\ Cardinality(Unhandled) \in Nat
      /\ t \in Unhandled => library + 1 <= requests
  <2>1. IsFiniteSet(Unhandled)
    <3>1. Unhandled \subseteq 1 .. MaxRequests
      BY DEF Unhandled, Registry!Requests
    <3>2. MaxRequests \in Int /\ 1 \in Int
      BY <1>2
    <3>3. IsFiniteSet(1 .. MaxRequests)
      BY ONLY <3>2, FS_Interval
    <3> QED
      BY ONLY <3>1, <3>3, FS_Subset
  <2>2. Cardinality(Unhandled) \in Nat /\ (t \in Unhandled => Cardinality(Unhandled) # 0)
    BY <2>1, FS_CardinalityType, FS_EmptySet
  <2> QED
    BY <1>2, <2>2
<1>6. library' \in 0 .. MaxRequests
  BY <1>2, <1>3, <1>4, <1>5
<1>7. request[t].read \in 0 .. MaxRequests
  BY <1>2 DEF RequestType
<1>8. PICK a \in {"answered", "refused"}, n \in 0 .. MaxRequests : GoesOn(t, a, n)
         /\ (a = "answered" => n = library'
                /\ library' = (IF Registry!Changes(t) THEN library + 1 ELSE library))
         /\ (a = "refused" => failed') /\ (failed => failed') /\ failed' \in BOOLEAN
  <2>1. CASE /\ library' = (IF Registry!Changes(t) THEN library + 1 ELSE library)
             /\ request' = [request EXCEPT ![t].at = "answered", ![t].read = library']
             /\ failed' = failed
    BY <1>6, <2>1, RequestGoesOn, RegistryTypedParts DEF RegistryInv, RegistryFlags
  <2>2. CASE request' = [request EXCEPT ![t].at = "refused"] /\ failed' = TRUE
    BY <1>7, <2>2, RequestGoesOn DEF RegistryInv
  <2> QED
    BY <1>3, <2>1, <2>2
<1>9. /\ \A q \in Registry!Requests : q \in Registry!Active' <=> q \in Registry!Active
      /\ \A q \in Registry!Requests : request'[q].kind = request[q].kind
      /\ Alone' /\ BusyFollows' /\ VersionsFollow' /\ VersionsAsked' /\ ResultsFollow'
      /\ Registry!StoredAsWhatItIs'
  BY <1>1, <1>8, UnderWay
<1>10. \A q \in Registry!Requests : q # t => request'[q] = request[q]
  BY <1>8 DEF GoesOn, OnlyRequest
<1>11. RegistryTyped'
  <2>1. RegistryFlags'
    BY <1>1, <1>8, RegistryTypedParts DEF RegistryInv, RegistryFlags
  <2>2. library' + Cardinality(Unhandled') <= requests
    <3>1. t \notin Unhandled' /\ OnlyRequest(t)
      BY <1>8 DEF Unhandled, GoesOn
    <3> QED
      BY <1>2, <1>3, <1>4, <3>1, UnhandledMoves
  <2>3. \A q \in Registry!Requests : q > requests => request'[q].at = "none"
    BY <1>1, <1>2, <1>10
  <2>5. LoadsWhatChanged'
    BY <1>8, <1>10, RegistryTypedParts
       DEF RegistryInv, RegistryTables, LoadsWhatChanged, Registry!Changes, GoesOn
  <2>4. RegistryTables'
    BY <1>1, <1>6, <1>8, <2>2, <2>3, <2>5, RegistryTypedParts
       DEF RegistryInv, RegistryTables, GoesOn
  <2> QED
    BY <2>1, <2>4, RegistryTypedParts
<1>12. LibraryFollows'
  <2> SUFFICES ASSUME ~failed', ~overlap, artifacts # library'
        PROVE  \E q \in Registry!Requests : Brings(q)'
    BY <1>1 DEF LibraryFollows
  <2>1. ~failed /\ GoesOn(t, "answered", library')
        /\ library' = (IF Registry!Changes(t) THEN library + 1 ELSE library)
    BY <1>8
  <2>2. CASE Registry!Changes(t)
    BY <2>1, <2>2 DEF GoesOn, Brings, Registry!Changes
  <2>3. CASE ~Registry!Changes(t)
    <3>1. PICK q \in Registry!Requests : Brings(q)
      BY <2>1, <2>3 DEF RegistryInv, LibraryFollows
    <3>2. CASE q = t
      BY <2>1, <2>3, <3>1, <3>2 DEF GoesOn, Brings, Registry!Changes
    <3>3. CASE q # t
      BY <1>10, <3>1, <3>3 DEF Brings, Registry!Changes
    <3> QED
      BY <3>2, <3>3
  <2> QED
    BY <2>2, <2>3
<1>13. ReadIsTrue'
  <2> SUFFICES ASSUME ~overlap, NEW q \in Registry!Requests,
               request'[q].at = "loaded" \/ (request'[q].at = "answered" /\ request'[q].kind = "load")
        PROVE  request'[q].read = library'
    BY <1>1 DEF ReadIsTrue
  <2>1. CASE q = t
    BY <1>8, <2>1 DEF GoesOn
  <2>2. CASE q # t
    <3>1. request'[q] = request[q] /\ q \in Registry!Active /\ request[q].read = library
      BY <1>10, <2>2 DEF RegistryInv, ReadIsTrue, Registry!Active
    <3>2. t \in Registry!Active /\ (Registry!Changes(t) => t \in Registry!Handling)
      BY <1>1 DEF Registry!Handling, Registry!Active, Registry!Changes, Registry!Handlers
    <3>3. ~Registry!Changes(t)
      BY <2>2, <3>1, <3>2 DEF RegistryInv, Alone
    <3> QED
      BY <1>3, <3>1, <3>3
  <2> QED
    BY <2>1, <2>2
<1>14. RefusalIsKept'
  BY <1>8, <1>10 DEF RegistryInv, RefusalIsKept, GoesOn
<1> QED
  BY <1>9, <1>11, <1>12, <1>13, <1>14 DEF RegistryInv

\* What goes on without a change of the library keeps the type.
LEMMA GoesOnTyped ==
    ASSUME RegistryInv, NEW t \in Registry!Requests, NEW n, NEW a \in {"loading", "loaded", "refused"},
           GoesOn(t, a, n), request[t].at \in {"answered", "loading"}, Registry!Changes(t),
           {target', failed'} \subseteq BOOLEAN,
           UNCHANGED <<library, projects, source, selected, versions, artifacts, busy, error,
                       requests, searched, stored, overlap, nothing>>
    PROVE  RegistryTyped'
<1>1. /\ OnlyRequest(t) /\ request'[t].at = a /\ request'[t].kind = request[t].kind
      /\ request' \in [Registry!Requests -> RequestType]
      /\ \A q \in Registry!Requests : q # t => request'[q] = request[q]
  BY DEF GoesOn, OnlyRequest
<1>2. RegistryFlags'
  BY RegistryTypedParts DEF RegistryInv, RegistryFlags
<1>3. t \notin Unhandled /\ t \notin Unhandled'
  BY <1>1 DEF Unhandled
<1>4. Cardinality(Unhandled') = Cardinality(Unhandled)
  BY <1>1, <1>3, UnhandledMoves
<1>5. LoadsWhatChanged'
  BY <1>1, RegistryTypedParts DEF RegistryInv, RegistryTables, LoadsWhatChanged, Registry!Changes
<1>6. RegistryTables'
  <2>1. \A q \in Registry!Requests : q > requests => request'[q].at = "none"
    BY <1>1, RegistryTypedParts DEF RegistryInv, RegistryTables
  <2> QED
    BY <1>1, <1>4, <1>5, <2>1, RegistryTypedParts DEF RegistryInv, RegistryTables
<1> QED
  BY <1>2, <1>6, RegistryTypedParts

LEMMA ChangedKeeps ==
    ASSUME RegistryInv, NEW t \in Registry!Requests, Registry!Changed(t) \/ Registry!ReadArtifacts(t)
    PROVE  RegistryInv'
<1>1. /\ UNCHANGED <<library, projects, source, selected, versions, artifacts, busy, error,
                     requests, searched, stored, overlap, nothing>>
      /\ request[t].at \in {"answered", "loading"}
  BY DEF Registry!Changed, Registry!ReadArtifacts, Registry!discover, Registry!history
<1>2. /\ request[t].read \in 0 .. MaxRequests /\ library \in 0 .. MaxRequests
      /\ (request[t].at = "loading" => Registry!Changes(t))
  BY RegistryTypedParts DEF RegistryInv, RegistryTables, RequestType, LoadsWhatChanged
<1>3. {target', failed'} \subseteq BOOLEAN /\ (failed => failed')
  <2>1. CASE Registry!Changed(t)
    <3>1. failed' = failed /\ target' \in BOOLEAN
      BY <2>1 DEF Registry!Changed, Registry!history
    <3> QED
      BY <3>1, RegistryTypedParts DEF RegistryInv, RegistryFlags
  <2>2. CASE Registry!ReadArtifacts(t)
    <3>1. {target, failed} \subseteq BOOLEAN /\ target' = target
      BY <2>2, RegistryTypedParts DEF RegistryInv, RegistryFlags, Registry!ReadArtifacts
    <3>2. CASE failed' = failed
      BY <3>1, <3>2
    <3>3. CASE failed' = TRUE
      BY <3>1, <3>3
    <3> QED
      BY <2>2, <3>2, <3>3 DEF Registry!ReadArtifacts
  <2> QED
    BY <2>1, <2>2
<1>4. PICK a \in {"loading", "loaded", "refused"}, n \in 0 .. MaxRequests :
         /\ GoesOn(t, a, n) /\ Registry!Changes(t)
         /\ (a = "loaded" => n = library) /\ (a = "refused" => failed')
  <2>1. CASE Registry!Changed(t)
    <3>1. request' = [request EXCEPT ![t].at = "loading"] /\ Registry!Changes(t)
      BY <2>1 DEF Registry!Changed
    <3> QED
      BY <1>2, <3>1, RequestGoesOn DEF RegistryInv
  <2>2. CASE Registry!ReadArtifacts(t)
    <3>1. request[t].at = "loading" /\ Registry!Changes(t)
      BY <1>2, <2>2 DEF Registry!ReadArtifacts
    <3>2. CASE request' = [request EXCEPT ![t].at = "loaded", ![t].read = library]
      BY <1>2, <3>1, <3>2, RequestGoesOn DEF RegistryInv
    <3>3. CASE request' = [request EXCEPT ![t].at = "refused"] /\ failed' = TRUE
      BY <1>2, <3>1, <3>3, RequestGoesOn DEF RegistryInv
    <3> QED
      BY <2>2, <3>2, <3>3 DEF Registry!ReadArtifacts
  <2> QED
    BY <2>1, <2>2
<1>5. RegistryTyped'
  BY <1>1, <1>3, <1>4, GoesOnTyped
<1>6. /\ Alone' /\ BusyFollows' /\ VersionsFollow' /\ VersionsAsked' /\ ResultsFollow'
      /\ Registry!StoredAsWhatItIs'
  BY <1>1, <1>3, <1>4, UnderWay
<1>7. \A q \in Registry!Requests : q # t => request'[q] = request[q]
  BY <1>4 DEF GoesOn, OnlyRequest
<1>8. LibraryFollows'
  <2>1. CASE a = "refused"
    BY <1>4, <2>1 DEF LibraryFollows, Brings
  <2>2. CASE a # "refused"
    <3>1. (Registry!Changes(t))' /\ request'[t].at \in {"loading", "loaded"}
      BY <1>4, <2>2 DEF GoesOn, Registry!Changes
    <3> QED
      BY <3>1 DEF LibraryFollows, Brings
  <2> QED
    BY <2>1, <2>2
<1>9. ReadIsTrue'
  BY <1>1, <1>4, <1>7 DEF RegistryInv, ReadIsTrue, GoesOn
<1>10. RefusalIsKept'
  BY <1>3, <1>4, <1>7 DEF RegistryInv, RefusalIsKept, GoesOn
<1> QED
  BY <1>5, <1>6, <1>8, <1>9, <1>10 DEF RegistryInv

\* A request ends, and its handler with it.
LEMMA RequestFinishes ==
    ASSUME RegistryInv, NEW t \in Registry!Requests, request[t].at \in {"answered", "refused", "loaded"},
           request' = [request EXCEPT ![t] = Registry!Ended], Registry!Finish(t),
           UNCHANGED <<library, selected, requests, searched, stored, overlap, failed>>,
           {target', error', nothing'} \subseteq BOOLEAN, {source', artifacts'} \subseteq 0 .. MaxRequests,
           projects' \subseteq Project, versions' \in Project \cup {Registry!None}
    PROVE  /\ RegistryTyped' /\ Alone' /\ BusyFollows' /\ VersionsAsked' /\ ReadIsTrue'
           /\ RefusalIsKept' /\ Registry!StoredAsWhatItIs'
           /\ \A q \in Registry!Requests : q # t => request'[q] = request[q]
           /\ \A q \in Registry!Requests : q \in Registry!Active' <=> q \in Registry!Active /\ q # t
<1>1. /\ request' \in [Registry!Requests -> RequestType] /\ request'[t].at = "ended"
      /\ OnlyRequest(t)
      /\ \A q \in Registry!Requests : q # t => request'[q] = request[q]
  BY RequestRecords, RegistryTypedParts DEF RegistryInv, RegistryTables, OnlyRequest
<1>2. /\ \A q \in Registry!Requests : q \in Registry!Active' <=> q \in Registry!Active /\ q # t
      /\ \A q \in Registry!Requests : q \in Registry!Handling' <=> q \in Registry!Handling /\ q # t
      /\ t \in Registry!Active /\ (request[t].kind \in Registry!Handlers <=> t \in Registry!Handling)
  BY <1>1 DEF Registry!Active, Registry!Handling
<1>3. /\ Registry!Active \subseteq Registry!Requests /\ Registry!Active' \subseteq Registry!Requests
      /\ Registry!Handling \subseteq Registry!Active /\ Registry!Handling' \subseteq Registry!Requests
  BY DEF Registry!Active, Registry!Handling
<1>4. RegistryTyped'
  <2>1. busy' \in BOOLEAN
    BY DEF Registry!Finish
  <2>2. RegistryFlags'
    BY <2>1, RegistryTypedParts DEF RegistryInv, RegistryFlags
  <2>3. Cardinality(Unhandled') = Cardinality(Unhandled)
    <3>1. t \notin Unhandled /\ t \notin Unhandled'
      BY <1>1 DEF Unhandled
    <3> QED
      BY <1>1, <3>1, UnhandledMoves
  <2>4. LoadsWhatChanged'
    BY <1>1, RegistryTypedParts DEF RegistryInv, RegistryTables, LoadsWhatChanged, Registry!Changes
  <2>5. \A q \in Registry!Requests : q > requests => request'[q].at = "none"
    BY <1>1, RegistryTypedParts DEF RegistryInv, RegistryTables
  <2>6. RegistryTables'
    BY <1>1, <2>3, <2>4, <2>5, RegistryTypedParts DEF RegistryInv, RegistryTables
  <2> QED
    BY <2>2, <2>6, RegistryTypedParts
<1>5. Alone'
  BY <1>2, <1>3 DEF RegistryInv, Alone
<1>6. BusyFollows'
  <2>1. CASE t \in Registry!Handling
    <3>1. ~busy'
      BY <1>2, <2>1 DEF Registry!Finish
    <3>2. overlap \/ \A q \in Registry!Handling' : FALSE
      BY <1>2, <1>3, <2>1 DEF RegistryInv, Alone
    <3> QED
      BY <3>1, <3>2 DEF BusyFollows
  <2>2. CASE t \notin Registry!Handling
    <3>1. busy' <=> busy
      BY <1>2, <2>2 DEF Registry!Finish
    <3>2. Registry!Handling' = Registry!Handling
      BY <1>2, <1>3, <2>2
    <3> QED
      BY <3>1, <3>2 DEF RegistryInv, BusyFollows
  <2> QED
    BY <2>1, <2>2
<1>7. VersionsAsked'
  BY <1>1, <1>2, <1>3 DEF RegistryInv, VersionsAsked
<1>8. ReadIsTrue'
  BY <1>1 DEF RegistryInv, ReadIsTrue
<1>9. RefusalIsKept' /\ Registry!StoredAsWhatItIs'
  BY <1>1 DEF RegistryInv, RefusalIsKept, Registry!StoredAsWhatItIs
<1> QED
  BY <1>1, <1>2, <1>4, <1>5, <1>6, <1>7, <1>8, <1>9

LEMMA RefusalKeeps ==
    ASSUME RegistryInv, NEW t \in Registry!Requests, Registry!Refused(t)
    PROVE  RegistryInv'
<1>1. /\ request[t].at = "refused" /\ error' = TRUE /\ Registry!Finish(t)
      /\ request' = [request EXCEPT ![t] = Registry!Ended]
      /\ UNCHANGED <<library, projects, source, selected, versions, artifacts, target, requests,
                     searched, stored, overlap, failed, nothing>>
  BY DEF Registry!Refused, Registry!discover, Registry!history
<1>2. failed
  BY <1>1 DEF RegistryInv, RefusalIsKept
<1>3. {target', error', nothing'} \subseteq BOOLEAN
  BY <1>1, RegistryTypedParts DEF RegistryInv, RegistryFlags
<1>4. /\ {source', artifacts'} \subseteq 0 .. MaxRequests /\ projects' \subseteq Project
      /\ versions' \in Project \cup {Registry!None}
  BY <1>1, RegistryTypedParts DEF RegistryInv, RegistryTables
<1>5. /\ RegistryTyped' /\ Alone' /\ BusyFollows' /\ VersionsAsked' /\ ReadIsTrue'
      /\ RefusalIsKept' /\ Registry!StoredAsWhatItIs'
  BY <1>1, <1>3, <1>4, RequestFinishes
<1>6. VersionsFollow' /\ ResultsFollow' /\ LibraryFollows'
  BY <1>1, <1>2 DEF VersionsFollow, ResultsFollow, LibraryFollows, Brings
<1> QED
  BY <1>5, <1>6 DEF RegistryInv

LEMMA VersionsKeep ==
    ASSUME RegistryInv, NEW t \in Registry!Requests, Registry!GotVersions(t)
    PROVE  RegistryInv'
<1>1. /\ request[t].at = "answered" /\ request[t].kind = "versions" /\ Registry!Finish(t)
      /\ versions' = request[t].project /\ request' = [request EXCEPT ![t] = Registry!Ended]
      /\ UNCHANGED <<library, projects, source, selected, artifacts, target, error, requests,
                     searched, stored, overlap, failed, nothing>>
  BY DEF Registry!GotVersions, Registry!history
<1>2. {target', error', nothing'} \subseteq BOOLEAN
  BY <1>1, RegistryTypedParts DEF RegistryInv, RegistryFlags
<1>3. /\ {source', artifacts'} \subseteq 0 .. MaxRequests /\ projects' \subseteq Project
      /\ versions' \in Project \cup {Registry!None}
  BY <1>1, RegistryTypedParts DEF RegistryInv, RegistryTables, RequestType
<1>4. /\ RegistryTyped' /\ Alone' /\ BusyFollows' /\ VersionsAsked' /\ ReadIsTrue'
      /\ RefusalIsKept' /\ Registry!StoredAsWhatItIs'
      /\ \A q \in Registry!Requests : q # t => request'[q] = request[q]
      /\ \A q \in Registry!Requests : q \in Registry!Active' <=> q \in Registry!Active /\ q # t
  BY <1>1, <1>2, <1>3, RequestFinishes
<1>5. VersionsFollow'
  <2>1. t \in Registry!Active
    BY <1>1 DEF Registry!Active
  <2>2. overlap \/ selected = Registry!None \/ selected = request[t].project
    BY <1>1, <2>1 DEF RegistryInv, VersionsAsked
  <2> QED
    BY <1>1, <2>2 DEF VersionsFollow
<1>6. ResultsFollow'
  BY <1>1, <1>4 DEF RegistryInv, ResultsFollow, Registry!Active
<1>7. LibraryFollows'
  BY <1>1, <1>4 DEF RegistryInv, LibraryFollows, Brings, Registry!Changes
<1> QED
  BY <1>4, <1>5, <1>6, <1>7 DEF RegistryInv

LEMMA LoadKeeps ==
    ASSUME RegistryInv, NEW t \in Registry!Requests, Registry!Loaded(t)
    PROVE  RegistryInv'
<1>1. /\ request[t].at = "loaded" \/ (request[t].at = "answered" /\ request[t].kind = "load")
      /\ artifacts' = request[t].read
      /\ Registry!Finish(t) /\ request' = [request EXCEPT ![t] = Registry!Ended]
      /\ UNCHANGED <<library, projects, source, selected, versions, target, error, requests,
                     searched, stored, overlap, failed, nothing>>
  BY DEF Registry!Loaded, Registry!discover, Registry!history
<1>2. {target', error', nothing'} \subseteq BOOLEAN
  BY <1>1, RegistryTypedParts DEF RegistryInv, RegistryFlags
<1>3. /\ {source', artifacts'} \subseteq 0 .. MaxRequests /\ projects' \subseteq Project
      /\ versions' \in Project \cup {Registry!None}
  BY <1>1, RegistryTypedParts DEF RegistryInv, RegistryTables, RequestType
<1>4. /\ RegistryTyped' /\ Alone' /\ BusyFollows' /\ VersionsAsked' /\ ReadIsTrue'
      /\ RefusalIsKept' /\ Registry!StoredAsWhatItIs'
      /\ \A q \in Registry!Requests : q # t => request'[q] = request[q]
      /\ \A q \in Registry!Requests : q \in Registry!Active' <=> q \in Registry!Active /\ q # t
  BY <1>1, <1>2, <1>3, RequestFinishes
<1>5. request[t].kind \in {"load", "store", "upload", "delete"}
  BY <1>1, RegistryTypedParts DEF RegistryInv, RegistryTables, LoadsWhatChanged, Registry!Changes
<1>6. VersionsFollow'
  BY <1>1, <1>4, <1>5 DEF RegistryInv, VersionsFollow, Registry!Active
<1>7. ResultsFollow'
  BY <1>1, <1>4, <1>5 DEF RegistryInv, ResultsFollow, Registry!Active
<1>8. LibraryFollows'
  BY <1>1 DEF RegistryInv, ReadIsTrue, LibraryFollows, Brings
<1> QED
  BY <1>4, <1>6, <1>7, <1>8 DEF RegistryInv

\* A search that found nothing lets the page ask for the popular projects.
LEMMA FoundKeeps ==
    ASSUME RegistryInv, NEW t \in Registry!Requests, Registry!Found(t)
    PROVE  RegistryInv'
<1> DEFINE n == requests + 1
           middle == [request EXCEPT ![t] = Registry!Ended]
<1>1. PICK found \in SUBSET Project :
        /\ request[t].kind = "top" => found # {}
        /\ projects' = found /\ source' = t
        /\ nothing' = (nothing \/ found = {})
        /\ IF Registry!AsksForTop(found) /\ requests < MaxRequests
           THEN /\ request' = [request EXCEPT ![t] = Registry!Ended, ![n] = Registry!New("top", Registry!None)]
                /\ requests' = n
           ELSE request' = middle /\ UNCHANGED requests
  BY DEF Registry!Found
<1>2. /\ request[t].at = "answered" /\ request[t].kind \in {"search", "top"} /\ Registry!Finish(t)
      /\ UNCHANGED <<library, selected, versions, artifacts, target, error, searched, stored,
                     overlap, failed>>
  BY DEF Registry!Found
<1>3. /\ request \in [Registry!Requests -> RequestType] /\ requests \in 0 .. MaxRequests
      /\ MaxRequests \in Nat
      /\ \A q \in Registry!Requests : q > requests => request[q].at = "none"
      /\ library \in 0 .. MaxRequests
      /\ library + Cardinality(Unhandled) <= requests
  BY PagesAssumption, RegistryTypedParts DEF RegistryInv, RegistryTables
<1>4. t \in Registry!Active /\ t \in 1 .. MaxRequests /\ t # n /\ t <= requests
  BY <1>2, <1>3 DEF Registry!Active, Registry!Requests
<1>5. /\ \A q \in Registry!Requests : q \notin {t, n} => request'[q] = request[q]
      /\ request'[t].at = "ended"
      /\ request' \in [Registry!Requests -> RequestType]
      /\ \/ OnlyRequest(t) /\ requests' = requests
         \/ /\ n \in Registry!Requests /\ requests' = n /\ found = {} /\ request[n].at = "none"
            /\ request'[n].at = "sent" /\ request'[n].kind = "top"
  <2>1. CASE Registry!AsksForTop(found) /\ requests < MaxRequests
    <3>1. /\ Registry!New("top", Registry!None) \in RequestType
          /\ Registry!New("top", Registry!None).at = "sent"
          /\ Registry!New("top", Registry!None).kind = "top"
          /\ Registry!Ended \in RequestType /\ Registry!Ended.at = "ended"
      BY RequestRecords
    <3>2. n \in Registry!Requests /\ found = {} /\ request[n].at = "none"
      BY <1>3, <2>1 DEF Registry!AsksForTop, Registry!Requests
    <3>3. request' = [request EXCEPT ![t] = Registry!Ended, ![n] = Registry!New("top", Registry!None)]
      BY <1>1, <2>1
    <3> HIDE DEF n
    <3> QED
      BY <1>1, <1>3, <1>4, <2>1, <3>1, <3>2, <3>3
  <2>2. CASE ~(Registry!AsksForTop(found) /\ requests < MaxRequests)
    BY <1>1, <1>3, <2>2, RequestRecords DEF OnlyRequest
  <2> QED
    BY <2>1, <2>2
<1> HIDE DEF n
<1>6. {target', error', nothing'} \subseteq BOOLEAN
  <2>1. nothing' \in BOOLEAN
    BY <1>1
  <2> QED
    BY <1>2, <2>1, RegistryTypedParts DEF RegistryInv, RegistryFlags
<1>7. (nothing => nothing') /\ (found = {} => nothing')
  BY <1>1
<1>8. n \in Registry!Requests /\ request[n].at = "none" => n \notin Registry!Active
  BY DEF Registry!Active
<1>9. \A q \in Registry!Requests :
        /\ q # n => (q \in Registry!Active' <=> q \in Registry!Active /\ q # t)
        /\ q = n /\ q \in Registry!Active' /\ q \notin Registry!Active => request'[q].kind = "top" /\ found = {}
        /\ q = n /\ q \in Registry!Active => q \in Registry!Active'
  BY <1>4, <1>5 DEF Registry!Active, OnlyRequest
<1>10. \A q \in Registry!Requests : q \in Registry!Handling' <=> q \in Registry!Handling /\ q # t
  BY <1>4, <1>5 DEF Registry!Handling, Registry!Active, Registry!Handlers, OnlyRequest
<1>11. /\ Registry!Active \subseteq Registry!Requests /\ Registry!Active' \subseteq Registry!Requests
       /\ Registry!Handling \subseteq Registry!Active /\ Registry!Handling' \subseteq Registry!Requests
       /\ Registry!Handling' \subseteq Registry!Active'
  BY DEF Registry!Active, Registry!Handling
<1>12. t \in Registry!Handling <=> request[t].kind = "search"
  BY <1>2, <1>4 DEF Registry!Handling, Registry!Handlers
<1>13. overlap \/ \A q \in Registry!Handling' : q \in Registry!Handling /\ \A s \in Registry!Active : s = q
  BY <1>10, <1>11 DEF RegistryInv, Alone
<1>14. overlap \/ \A q \in Registry!Handling' : FALSE
  BY <1>4, <1>10, <1>11, <1>13
<1>15. Alone'
  BY <1>2, <1>14 DEF Alone
<1>16. BusyFollows'
  <2>1. CASE t \in Registry!Handling
    BY <1>2, <1>14, <2>1 DEF BusyFollows, Registry!Finish, Registry!Handling
  <2>2. CASE t \notin Registry!Handling
    <3>1. busy' <=> busy
      BY <1>2, <1>12, <2>2 DEF Registry!Finish, Registry!Handlers
    <3>2. Registry!Handling' = Registry!Handling
      BY <1>10, <1>11, <2>2
    <3> QED
      BY <1>2, <3>1, <3>2 DEF RegistryInv, BusyFollows
  <2> QED
    BY <2>1, <2>2
<1>17. RegistryTyped'
  <2>1. busy' \in BOOLEAN
    BY <1>2 DEF Registry!Finish
  <2>2. RegistryFlags'
    BY <1>2, <1>6, <2>1, RegistryTypedParts DEF RegistryInv, RegistryFlags
  <2>3. Unhandled' = Unhandled
    <3>1. \A q \in Registry!Requests : q \in Unhandled' <=> q \in Unhandled
      BY <1>2, <1>5 DEF Unhandled, Registry!Changes, OnlyRequest
    <3> QED
      BY <3>1 DEF Unhandled
  <2>4. LoadsWhatChanged'
    BY <1>5, RegistryTypedParts
       DEF RegistryInv, RegistryTables, LoadsWhatChanged, Registry!Changes, OnlyRequest
  <2>5. requests' \in 0 .. MaxRequests /\ requests' >= requests
    BY <1>3, <1>5 DEF n, Registry!Requests
  <2>6. \A q \in Registry!Requests : q > requests' => request'[q].at = "none"
    BY <1>3, <1>4, <1>5 DEF OnlyRequest, n, Registry!Requests
  <2>7. Cardinality(Unhandled) \in Nat
    <3>1. Unhandled \subseteq 1 .. MaxRequests /\ IsFiniteSet(1 .. MaxRequests)
      BY <1>3, FS_Interval DEF Unhandled, Registry!Requests
    <3> QED
      BY <3>1, FS_Subset, FS_CardinalityType
  <2>8. library + Cardinality(Unhandled') <= requests'
    BY <1>3, <2>3, <2>5, <2>7
  <2>9. RegistryTables'
    BY <1>1, <1>2, <1>4, <1>5, <2>4, <2>5, <2>6, <2>8, RegistryTypedParts DEF RegistryInv, RegistryTables
  <2> QED
    BY <2>2, <2>9, RegistryTypedParts
<1>18. VersionsFollow'
  BY <1>2, <1>5, <1>8, <1>9 DEF RegistryInv, VersionsFollow, Registry!Active, OnlyRequest
<1>19. VersionsAsked'
  <2> SUFFICES ASSUME ~overlap, NEW q \in Registry!Active', request'[q].kind = "versions"
        PROVE  selected = Registry!None \/ selected = request'[q].project
    BY <1>2 DEF VersionsAsked
  <2>1. q \in Registry!Requests /\ q # t
    BY <1>5, <1>11 DEF Registry!Active
  <2>2. q \in Registry!Active /\ request'[q] = request[q]
    BY <1>5, <1>8, <1>9, <2>1 DEF OnlyRequest
  <2> QED
    BY <2>2 DEF RegistryInv, VersionsAsked
<1>20. ResultsFollow'
  <2> SUFFICES ASSUME searched # 0, ~nothing', ~failed, ~overlap
        PROVE  source' = searched /\ \A q \in Registry!Active' : request'[q].kind \notin {"search", "top"}
    BY <1>2 DEF ResultsFollow
  <2>1. searched \in Registry!Active /\ request[searched].kind = "search"
    BY <1>2, <1>4, <1>7 DEF RegistryInv, ResultsFollow
  <2>2. t = searched
    <3>1. searched \in Registry!Handling
      BY <2>1 DEF Registry!Handling, Registry!Handlers
    <3> QED
      BY <1>4, <3>1 DEF RegistryInv, Alone
  <2>3. \A q \in Registry!Active : q = t
    BY <1>12, <2>1, <2>2 DEF RegistryInv, Alone
  <2>4. \A q \in Registry!Active' : FALSE
    BY <1>4, <1>7, <1>9, <1>11, <2>3
  <2> QED
    BY <1>1, <2>2, <2>4
<1>21. LibraryFollows'
  BY <1>2, <1>5, <1>8 DEF RegistryInv, LibraryFollows, Brings, Registry!Changes, OnlyRequest
<1>22. ReadIsTrue'
  BY <1>2, <1>5 DEF RegistryInv, ReadIsTrue, OnlyRequest
<1>23. RefusalIsKept' /\ Registry!StoredAsWhatItIs'
  BY <1>2, <1>5 DEF RegistryInv, RefusalIsKept, Registry!StoredAsWhatItIs, OnlyRequest
<1> QED
  BY <1>15, <1>16, <1>17, <1>18, <1>19, <1>20, <1>21, <1>22, <1>23 DEF RegistryInv

LEMMA RegistryBegins == Registry!Init => RegistryInv
<1> SUFFICES ASSUME Registry!Init PROVE RegistryInv
  OBVIOUS
<1>1. /\ library = FirstLibrary /\ projects = {} /\ source = 0 /\ selected = Registry!None
      /\ versions = Registry!None /\ artifacts = 0 /\ target = FALSE /\ busy = FALSE /\ error = FALSE
      /\ requests = 2 /\ searched = 0 /\ stored = {} /\ overlap = FALSE /\ failed = FALSE
      /\ nothing = FALSE
      /\ request = [t \in Registry!Requests |->
                       CASE t = 1 -> Registry!New("load", Registry!None)
                         [] t = 2 -> Registry!New("top", Registry!None)
                         [] OTHER -> Registry!NoRequest]
  BY DEF Registry!Init
<1>2. /\ Registry!NoRequest \in RequestType /\ Registry!NoRequest.at = "none"
      /\ \A k \in {"load", "top"} :
            /\ Registry!New(k, Registry!None) \in RequestType
            /\ Registry!New(k, Registry!None).at = "sent"
            /\ Registry!New(k, Registry!None).kind = k
  BY RequestRecords
<1>3. /\ request \in [Registry!Requests -> RequestType]
      /\ \A t \in Registry!Requests :
            /\ request[t].at = "none" \/ (request[t].at = "sent" /\ request[t].kind \in {"load", "top"})
            /\ t > 2 => request[t].at = "none"
  BY <1>1, <1>2, PagesAssumption DEF Registry!Requests
<1>4. Unhandled = {}
  BY <1>3 DEF Unhandled, Registry!Changes
<1>5. Cardinality(Unhandled) = 0
  BY <1>4, FS_EmptySet
<1>6. RegistryTyped
  <2>1. LoadsWhatChanged
    BY <1>3 DEF LoadsWhatChanged
  <2>2. RegistryTables
    BY <1>1, <1>3, <1>5, <2>1, PagesAssumption DEF RegistryTables
  <2>3. RegistryFlags
    BY <1>1 DEF RegistryFlags
  <2> QED
    BY <2>2, <2>3, RegistryTypedParts
<1>7. \A t \in Registry!Handling : FALSE
  BY <1>3 DEF Registry!Handling, Registry!Active, Registry!Handlers
<1>8. Alone /\ BusyFollows /\ VersionsFollow /\ ResultsFollow /\ LibraryFollows
  <2>1. 1 \in Registry!Requests /\ request[1] = Registry!New("load", Registry!None)
    BY <1>1, PagesAssumption DEF Registry!Requests
  <2>2. LibraryFollows
    BY <1>2, <2>1 DEF LibraryFollows, Brings
  <2> QED
    BY <1>1, <1>7, <2>2 DEF Alone, BusyFollows, VersionsFollow, ResultsFollow
<1>9. VersionsAsked /\ ReadIsTrue /\ RefusalIsKept /\ Registry!StoredAsWhatItIs
  BY <1>1, <1>3 DEF VersionsAsked, ReadIsTrue, RefusalIsKept, Registry!StoredAsWhatItIs
<1> QED
  BY <1>6, <1>8, <1>9 DEF RegistryInv

LEMMA RegistryStep == RegistryInv /\ (Registry!Next \/ UNCHANGED Registry!vars) => RegistryInv'
<1> SUFFICES ASSUME RegistryInv, Registry!Next \/ UNCHANGED Registry!vars PROVE RegistryInv'
  OBVIOUS
<1>1. CASE Registry!Search
  BY <1>1, SearchKeeps
<1>2. CASE Registry!Back \/ Registry!AskToDelete \/ Registry!Cancel
  BY <1>2, QuietKeeps
<1>3. CASE Registry!Store
  BY <1>3, StoreKeeps
<1>4. CASE Registry!Upload \/ Registry!DeleteArtifact
  BY <1>4, UploadDeleteKeep
<1>5. ASSUME NEW p \in Project, Registry!SelectProject(p) PROVE RegistryInv'
  BY <1>5, SelectKeeps
<1>6. ASSUME NEW t \in Registry!Requests,
             \/ Registry!Handle(t) \/ Registry!Refused(t) \/ Registry!Found(t)
             \/ Registry!GotVersions(t) \/ Registry!Changed(t) \/ Registry!ReadArtifacts(t)
             \/ Registry!Loaded(t)
      PROVE  RegistryInv'
  BY <1>6, HandledKeeps, RefusalKeeps, FoundKeeps, VersionsKeep, ChangedKeeps, LoadKeeps
<1>7. CASE UNCHANGED Registry!vars
  BY <1>7 DEF Registry!vars, RegistryInv, RegistryTyped, Alone, BusyFollows, VersionsFollow,
     VersionsAsked, ResultsFollow, LibraryFollows, Brings, ReadIsTrue, RefusalIsKept, LoadsWhatChanged,
     Registry!StoredAsWhatItIs, Registry!TypeOK, Registry!Active, Registry!Handling,
     Registry!Changes, Unhandled
<1> QED
  BY <1>1, <1>2, <1>3, <1>4, <1>5, <1>6, <1>7 DEF Registry!Next

LEMMA RegistryConsoleStep ==
    ASSUME [ConsoleNext]_consoleVars
    PROVE  /\ part' = part
           /\ part = "registry" => Registry!Next \/ UNCHANGED Registry!vars
           /\ part # "registry" => UNCHANGED registryVars
  BY DEF ConsoleNext, consoleVars, registryVars, Registry!vars

\* The invariant of the registry's page: what runs alone, what is asked for and what is
\* still to be loaded.
THEOREM RegistryPageInvariant == ConsoleSpec => [](part = "registry" => RegistryInv)
<1>1. ConsoleInit => (part = "registry" => RegistryInv)
  BY RegistryBegins DEF ConsoleInit
<1>2. (part = "registry" => RegistryInv) /\ [ConsoleNext]_consoleVars
         => (part = "registry" => RegistryInv)'
  BY RegistryConsoleStep, RegistryStep
<1> QED
  BY <1>1, <1>2, PTL DEF ConsoleSpec

\* A release is stored as what it is, the buttons tell what runs, and what was found and
\* the library are shown as they are, unless requests failed or overlapped: for any number of
\* projects and requests.
THEOREM TheRegistryPageIsSound == ConsoleSpec => []PanelIsSound
<1> DEFINE Shut == /\ request = [r \in 1 .. MaxRequests |-> Registry!NoRequest]
                   /\ library = 0 /\ artifacts = 0 /\ ~busy /\ searched = 0 /\ stored = {}
           Still == part # "registry" => Shut
<1>1. ConsoleInit => Still
  BY DEF ConsoleInit
<1>2. Still /\ [ConsoleNext]_consoleVars => Still'
  BY RegistryConsoleStep DEF registryVars
<1>3. Shut => PanelIsSound
  <2> SUFFICES ASSUME Shut PROVE PanelIsSound
    OBVIOUS
  <2>1. \A t \in Registry!Requests : request[t].at = "none"
    BY RequestRecords DEF Registry!Requests
  <2>2. Registry!Active = {} /\ Registry!Handling = {}
    BY <2>1 DEF Registry!Active, Registry!Handling
  <2> QED
    BY <2>2 DEF PanelIsSound, Registry!PanelIsSound, Registry!StoredAsWhatItIs, Registry!BusyIsTrue,
       Registry!ResultsStay, Registry!LibraryIsShown
<1>4. ASSUME RegistryInv PROVE PanelIsSound
  <2>1. Registry!StoredAsWhatItIs
    BY <1>4 DEF RegistryInv
  <2>2. Registry!BusyIsTrue
    BY <1>4 DEF RegistryInv, BusyFollows, Registry!BusyIsTrue
  <2>3. Registry!ResultsStay
    BY <1>4 DEF RegistryInv, ResultsFollow, Registry!ResultsStay
  <2>4. Registry!LibraryIsShown
    BY <1>4 DEF RegistryInv, LibraryFollows, Brings, Registry!LibraryIsShown, Registry!Active
  <2> QED
    BY <2>1, <2>2, <2>3, <2>4 DEF PanelIsSound, Registry!PanelIsSound
<1>5. Still /\ (part = "registry" => RegistryInv) => PanelIsSound
  BY <1>3, <1>4
<1> HIDE DEF Still
<1> QED
  BY <1>1, <1>2, <1>5, RegistryPageInvariant, PTL DEF ConsoleSpec

-----------------------------------------------------------------------------
(* The page of one server's operations                                     *)

CallType ==
    [at : {"none", "called", "listed", "reading"},
     kind : {"none", "first", "refresh", "start", "stop", "restart"}, list : SUBSET Manage!Pod,
     left : SUBSET {"server", "pods"}, server : {"unknown", "running", "stopped"},
     pod : 0 .. MaxPods, clicked : 0 .. MaxPods, sure : BOOLEAN, clean : BOOLEAN]

ManageFlags == {running, stable, opening, acting, actionError, excused} \subseteq BOOLEAN
ManageTables ==
    /\ pods \in [Manage!Pod -> {"unmade", "up", "leaving", "gone"}]
    /\ server \in {"unknown", "running", "stopped"} /\ pod \in 0 .. MaxPods
    /\ calls \in [Manage!Place -> CallType]
    /\ writes \in 0 .. MaxOthers /\ failures \in 0 .. MaxFailures

\* The buttons wait for a request that is under way.
FlagsFollow ==
    /\ acting => calls["action"].at # "none"
    /\ opening => calls["first"].at # "none"

\* What nothing disturbed is the only request.
CleanIsAlone ==
    \A r \in Manage!Place : calls[r].clean =>
        calls[r].at # "none" /\ \A q \in Manage!Active : q = r

ServerIsTrue ==
    ~excused /\ (\A r \in Manage!Place : calls[r].at = "none") /\ server # "unknown"
        => server = Manage!Word(running)

LeftUntilRead ==
    \A r \in Manage!Place :
        calls[r].at \in {"called", "listed"} => calls[r].left = {"server", "pods"}

RowIsRead ==
    \A r \in Manage!Place :
        calls[r].clean /\ calls[r].at = "reading" /\ "server" \notin calls[r].left
            => calls[r].server = Manage!Word(running)

\* A pod that was seen has been made.
PodsAreReal ==
    /\ pod # 0 => pods[pod] # "unmade"
    /\ \A r \in Manage!Place : calls[r].pod # 0 => pods[calls[r].pod] # "unmade"

\* A restart that nothing disturbs: the server runs until the pods are listed, and the pod is
\* on the list or gone.
RestartFollows ==
    LET a == calls["action"] IN
    a.kind = "restart" /\ a.sure /\ a.clean =>
        /\ a.clicked \in Manage!Pod /\ pods[a.clicked] # "unmade"
        /\ a.at = "called" => running
        /\ a.at = "listed" => a.clicked \in a.list \/ pods[a.clicked] = "gone"
        /\ a.at = "reading" => pods[a.clicked] \in {"leaving", "gone"}

ManageInv ==
    /\ ManageFlags /\ ManageTables /\ FlagsFollow /\ CleanIsAlone /\ ServerIsTrue
    /\ LeftUntilRead /\ RowIsRead /\ PodsAreReal /\ RestartFollows

\* A pod only goes on: it is made, told to go, and goes.
PodsGoOn ==
    \A p \in Manage!Pod :
        /\ pods[p] # "unmade" => pods'[p] # "unmade"
        /\ pods[p] \in {"leaving", "gone"} => pods'[p] \in {"leaving", "gone"}
        /\ pods[p] = "gone" => pods'[p] = "gone"

OnlyCall(r) == \A q \in Manage!Place \ {r} : calls'[q] = calls[q]

LEMMA PlacesAndRecords ==
    /\ "action" \in Manage!Place /\ "first" \in Manage!Place
    /\ Manage!Quiet \in CallType /\ Manage!Quiet.at = "none" /\ Manage!Quiet.pod = 0
    /\ Manage!Quiet.clean = FALSE
<1>1. 0 \in 0 .. MaxPods
  BY PagesAssumption
<1> QED
  BY <1>1 DEF Manage!Place, Manage!Quiet, CallType

LEMMA DisturbedCall ==
    ASSUME NEW j \in CallType, NEW i, i = [j EXCEPT !.clean = FALSE]
    PROVE  /\ i \in CallType /\ i.clean = FALSE /\ i.at = j.at /\ i.left = j.left /\ i.pod = j.pod
           /\ i.kind = j.kind /\ i.list = j.list /\ i.server = j.server
<1>1. i \in CallType
  BY DEF CallType
<1>2. /\ i.clean = FALSE /\ i.at = j.at /\ i.left = j.left /\ i.pod = j.pod
      /\ i.kind = j.kind /\ i.list = j.list /\ i.server = j.server
  BY DEF CallType
<1> QED
  BY <1>1, <1>2

LEMMA OpenedCall ==
    ASSUME NEW a \in {"called", "reading"}, NEW k \in {"refresh", "start", "stop", "restart"},
           NEW p \in 0 .. MaxPods, NEW fine \in BOOLEAN, NEW alone \in BOOLEAN, NEW i,
           i = [at |-> a, kind |-> k, list |-> {}, left |-> {"server", "pods"}, server |-> "unknown",
                pod |-> 0, clicked |-> p, sure |-> fine, clean |-> alone]
    PROVE  /\ i \in CallType
           /\ i.at = a /\ i.kind = k /\ i.left = {"server", "pods"} /\ i.clicked = p /\ i.pod = 0
           /\ i.sure => fine
           /\ i.clean => alone
<1>2. 0 \in 0 .. MaxPods
  BY PagesAssumption
<1>3. i \in CallType
  BY <1>2 DEF CallType
<1>4. i.at = a /\ i.kind = k /\ i.left = {"server", "pods"} /\ i.clicked = p /\ i.pod = 0
  OBVIOUS
<1>5. i.sure => fine
  OBVIOUS
<1>6. i.clean => alone
  OBVIOUS
<1> QED
  BY <1>3, <1>4, <1>5, <1>6

LEMMA OpenedCalls ==
    ASSUME NEW r \in Manage!Place, NEW a \in {"called", "reading"},
           NEW k \in {"refresh", "start", "stop", "restart"}, calls' = Manage!Opened(r, a, k),
           calls \in [Manage!Place -> CallType], pod \in 0 .. MaxPods
    PROVE  /\ calls' \in [Manage!Place -> CallType]
           /\ calls'[r].at = a /\ calls'[r].kind = k /\ calls'[r].left = {"server", "pods"}
           /\ calls'[r].clicked = pod /\ calls'[r].pod = 0
           /\ calls'[r].sure => ~excused
           /\ calls'[r].clean => Manage!Active = {}
           /\ \A q \in Manage!Place : q # r =>
                 /\ calls'[q].clean = FALSE /\ calls'[q].at = calls[q].at
                 /\ calls'[q].left = calls[q].left /\ calls'[q].pod = calls[q].pod
<1> DEFINE alone == (Manage!Active = {})
           fine == ~excused
<1>1. /\ calls' = [q \in Manage!Place |-> calls'[q]]
      /\ calls'[r] = [at |-> a, kind |-> k, list |-> {}, left |-> {"server", "pods"},
                      server |-> "unknown", pod |-> 0, clicked |-> pod, sure |-> fine,
                      clean |-> alone]
  BY DEF Manage!Opened, Manage!Quiet
<1>2. \A q \in Manage!Place : q # r => calls'[q] = [calls[q] EXCEPT !.clean = FALSE]
  BY DEF Manage!Opened
<1>3. /\ alone \in BOOLEAN /\ fine \in BOOLEAN
      /\ alone => Manage!Active = {}
      /\ fine => ~excused
  OBVIOUS
<1> HIDE DEF alone, fine
<1>4. /\ calls'[r] \in CallType
      /\ calls'[r].at = a /\ calls'[r].kind = k /\ calls'[r].left = {"server", "pods"}
      /\ calls'[r].clicked = pod /\ calls'[r].pod = 0
      /\ calls'[r].sure => fine
      /\ calls'[r].clean => alone
  <2> DEFINE i == calls'[r]
  <2>1. i = [at |-> a, kind |-> k, list |-> {}, left |-> {"server", "pods"}, server |-> "unknown",
             pod |-> 0, clicked |-> pod, sure |-> fine, clean |-> alone]
    BY <1>1
  <2> HIDE DEF i
  <2>2. /\ i \in CallType
        /\ i.at = a /\ i.kind = k /\ i.left = {"server", "pods"} /\ i.clicked = pod /\ i.pod = 0
        /\ i.sure => fine
        /\ i.clean => alone
    BY <1>3, <2>1, OpenedCall
  <2> QED
    BY <2>2 DEF i
<1>5. ASSUME NEW q \in Manage!Place, q # r
      PROVE  /\ calls'[q] \in CallType /\ calls'[q].clean = FALSE /\ calls'[q].at = calls[q].at
             /\ calls'[q].left = calls[q].left /\ calls'[q].pod = calls[q].pod
  <2> DEFINE i == calls'[q]
             j == calls[q]
  <2>1. i = [j EXCEPT !.clean = FALSE] /\ j \in CallType
    BY <1>2, <1>5
  <2> HIDE DEF i, j
  <2>2. i \in CallType /\ i.clean = FALSE /\ i.at = j.at /\ i.left = j.left /\ i.pod = j.pod
    BY <2>1, DisturbedCall
  <2> QED
    BY <2>2 DEF i, j
<1>6. calls' \in [Manage!Place -> CallType]
  BY <1>1, <1>4, <1>5
<1> QED
  BY <1>3, <1>4, <1>5, <1>6

LEMMA PodsMoveKeeps ==
    ASSUME ManageInv, Manage!PodComes \/ Manage!PodLeaves
    PROVE  ManageInv'
<1>1. /\ UNCHANGED <<running, stable, server, pod, opening, acting, actionError, calls, writes,
                     failures, excused>>
      /\ pods \in [Manage!Pod -> {"unmade", "up", "leaving", "gone"}]
  BY DEF Manage!PodComes, Manage!PodLeaves, Manage!page, ManageInv, ManageTables
<1>2. /\ pods' \in [Manage!Pod -> {"unmade", "up", "leaving", "gone"}]
      /\ PodsGoOn
  BY <1>1 DEF Manage!PodComes, Manage!PodLeaves, PodsGoOn
<1>3. ManageFlags' /\ ManageTables'
  BY <1>1, <1>2 DEF ManageInv, ManageFlags, ManageTables
<1>4. FlagsFollow' /\ CleanIsAlone' /\ ServerIsTrue' /\ LeftUntilRead' /\ RowIsRead'
  BY <1>1 DEF ManageInv, FlagsFollow, CleanIsAlone, ServerIsTrue, LeftUntilRead, RowIsRead,
     Manage!Active, Manage!Word
<1>5. PodsAreReal'
  <2>1. \A p \in 0 .. MaxPods : p # 0 => p \in Manage!Pod
    BY PagesAssumption DEF Manage!Pod
  <2> QED
    BY <1>1, <1>2, <2>1 DEF ManageInv, ManageTables, PodsAreReal, PodsGoOn, CallType
<1>6. RestartFollows'
  BY <1>1, <1>2 DEF ManageInv, RestartFollows, PodsGoOn
<1> QED
  BY <1>3, <1>4, <1>5, <1>6 DEF ManageInv

LEMMA OtherWriteKeeps ==
    ASSUME ManageInv, Manage!Other
    PROVE  ManageInv'
<1>1. /\ calls' = Manage!Disturbed /\ writes < MaxOthers /\ writes' = writes + 1 /\ excused' = TRUE
      /\ running' \in BOOLEAN
      /\ UNCHANGED <<stable, pods, server, pod, opening, acting, actionError, failures>>
  BY DEF Manage!Other, Manage!page
<1>2. calls \in [Manage!Place -> CallType]
  BY DEF ManageInv, ManageTables
<1>3. /\ calls' \in [Manage!Place -> CallType]
      /\ \A r \in Manage!Place :
            /\ calls'[r].clean = FALSE /\ calls'[r].at = calls[r].at
            /\ calls'[r].left = calls[r].left /\ calls'[r].pod = calls[r].pod
  <2>1. /\ calls' = [r \in Manage!Place |-> calls'[r]]
        /\ \A r \in Manage!Place : calls'[r] = [calls[r] EXCEPT !.clean = FALSE]
    BY <1>1 DEF Manage!Disturbed
  <2>2. \A r \in Manage!Place :
            /\ calls'[r] \in CallType /\ calls'[r].clean = FALSE /\ calls'[r].at = calls[r].at
            /\ calls'[r].left = calls[r].left /\ calls'[r].pod = calls[r].pod
    BY <1>2, <2>1, DisturbedCall, ZenonT(30)
  <2> QED
    BY <2>1, <2>2
<1>4. ManageFlags'
  BY <1>1 DEF ManageInv, ManageFlags
<1>5. ManageTables'
  BY <1>1, <1>3, FormAssumption DEF ManageInv, ManageTables
<1>6. FlagsFollow'
  BY <1>1, <1>3, PlacesAndRecords DEF ManageInv, FlagsFollow
<1>7. CleanIsAlone' /\ ServerIsTrue' /\ RowIsRead' /\ RestartFollows'
  BY <1>1, <1>3, PlacesAndRecords DEF CleanIsAlone, ServerIsTrue, RowIsRead, RestartFollows
<1>8. LeftUntilRead'
  BY <1>3 DEF ManageInv, LeftUntilRead
<1>9. PodsAreReal'
  BY <1>1, <1>3 DEF ManageInv, PodsAreReal
<1> QED
  BY <1>4, <1>5, <1>6, <1>7, <1>8, <1>9 DEF ManageInv

\* A request begins.
LEMMA OpenedKeeps ==
    ASSUME ManageInv, NEW r \in Manage!Place, NEW a \in {"called", "reading"},
           NEW k \in {"refresh", "start", "stop", "restart"}, calls' = Manage!Opened(r, a, k),
           excused' = (excused \/ Manage!Active # {}), {acting', actionError'} \subseteq BOOLEAN,
           acting' => acting \/ r = "action",
           k = "restart" => r = "action" /\ a = "called" /\ server = "running" /\ pod # 0,
           UNCHANGED <<running, stable, pods, server, pod, opening, writes, failures>>
    PROVE  ManageInv'
<1>1. calls \in [Manage!Place -> CallType] /\ pod \in 0 .. MaxPods
  BY DEF ManageInv, ManageTables
<1>5. /\ calls' \in [Manage!Place -> CallType]
      /\ calls'[r].at = a /\ calls'[r].kind = k /\ calls'[r].left = {"server", "pods"}
      /\ calls'[r].clicked = pod /\ calls'[r].pod = 0
      /\ calls'[r].sure => ~excused
      /\ calls'[r].clean => Manage!Active = {}
      /\ \A q \in Manage!Place : q # r =>
            /\ calls'[q].clean = FALSE /\ calls'[q].at = calls[q].at
            /\ calls'[q].left = calls[q].left /\ calls'[q].pod = calls[q].pod
  BY <1>1, OpenedCalls
<1>7. ManageFlags'
  <2>1. excused' \in BOOLEAN
    OBVIOUS
  <2> QED
    BY <2>1 DEF ManageInv, ManageFlags
<1>8. ManageTables'
  BY <1>5 DEF ManageInv, ManageTables
<1>9. FlagsFollow'
  BY <1>5, PlacesAndRecords DEF ManageInv, FlagsFollow
<1>10. CleanIsAlone'
  <2>1. ASSUME NEW q \in Manage!Place, calls'[q].clean
        PROVE  q = r /\ Manage!Active = {}
    BY <1>5, <2>1
  <2> QED
    BY <1>5, <2>1 DEF CleanIsAlone, Manage!Active
<1>11. ServerIsTrue'
  BY <1>5 DEF ServerIsTrue
<1>12. LeftUntilRead'
  BY <1>5 DEF ManageInv, LeftUntilRead
<1>13. RowIsRead'
  BY <1>5 DEF RowIsRead
<1>14. PodsAreReal'
  BY <1>5 DEF ManageInv, PodsAreReal
<1>15. RestartFollows'
  <2>1. CASE r = "action" /\ k = "restart"
    <3> SUFFICES ASSUME ~excused, Manage!Active = {}
          PROVE  pod \in Manage!Pod /\ pods[pod] # "unmade" /\ running
      BY <1>5, <2>1 DEF RestartFollows
    <3>1. pod \in Manage!Pod /\ pods[pod] # "unmade"
      BY <1>1, <2>1, PagesAssumption DEF ManageInv, PodsAreReal, Manage!Pod
    <3>2. server = Manage!Word(running)
      BY <2>1 DEF ManageInv, ServerIsTrue, Manage!Active
    <3> QED
      BY <2>1, <3>1, <3>2 DEF Manage!Word
  <2>2. CASE r # "action"
    BY <1>5, <2>2, PlacesAndRecords DEF RestartFollows
  <2>3. CASE r = "action" /\ k # "restart"
    BY <1>5, <2>3 DEF RestartFollows
  <2> QED
    BY <2>1, <2>2, <2>3
<1> QED
  BY <1>7, <1>8, <1>9, <1>10, <1>11, <1>12, <1>13, <1>14, <1>15 DEF ManageInv

LEMMA ClickKeeps ==
    ASSUME ManageInv, \/ \E k \in {"start", "stop", "restart"} : Manage!Click(k)
                      \/ \E r \in Refresh : Manage!ClickRefresh(r)
    PROVE  ManageInv'
<1>1. ASSUME NEW k \in {"start", "stop", "restart"}, Manage!Click(k) PROVE ManageInv'
  <2>1. /\ calls' = Manage!Opened("action", "called", k)
        /\ excused' = (excused \/ Manage!Active # {}) /\ acting' = TRUE /\ actionError' = FALSE
        /\ UNCHANGED <<running, stable, pods, server, pod, opening, writes, failures>>
        /\ k = "restart" => server = "running" /\ pod # 0
    BY <1>1 DEF Manage!Click, Manage!Offered, Manage!world
  <2> QED
    BY <2>1, PlacesAndRecords, OpenedKeeps
<1>2. ASSUME NEW r \in Refresh, Manage!ClickRefresh(r) PROVE ManageInv'
  <2>1. /\ calls' = Manage!Opened(r, "reading", "refresh")
        /\ excused' = (excused \/ Manage!Active # {})
        /\ UNCHANGED <<running, stable, pods, server, pod, opening, acting, actionError, writes,
                       failures>>
    BY <1>2 DEF Manage!ClickRefresh, Manage!world, Manage!page
  <2>2. r \in Manage!Place
    BY DEF Manage!Place
  <2>3. {acting', actionError'} \subseteq BOOLEAN
    BY <2>1 DEF ManageInv, ManageFlags
  <2> QED
    BY <2>1, <2>2, <2>3, OpenedKeeps
<1> QED
  BY <1>1, <1>2

\* The action goes on.
ActionGoesOn(a, l) ==
    /\ calls' \in [Manage!Place -> CallType] /\ OnlyCall("action")
    /\ calls'["action"].at = a /\ calls'["action"].list = l
    /\ calls'["action"].kind = calls["action"].kind /\ calls'["action"].left = calls["action"].left
    /\ calls'["action"].server = calls["action"].server
    /\ calls'["action"].pod = calls["action"].pod
    /\ calls'["action"].clicked = calls["action"].clicked
    /\ calls'["action"].sure => calls["action"].sure
    /\ calls'["action"].clean => calls["action"].clean

LEMMA ActionMoves ==
    ASSUME calls \in [Manage!Place -> CallType], NEW a \in {"called", "listed", "reading"},
           NEW l \in SUBSET Manage!Pod,
           \/ calls' = [calls EXCEPT !["action"].at = a, !["action"].list = l]
           \/ calls' = [calls EXCEPT !["action"].at = a] /\ l = calls["action"].list
    PROVE  ActionGoesOn(a, l)
<1>1. "action" \in Manage!Place
  BY PlacesAndRecords
<1> DEFINE j == calls["action"]
           i == calls'["action"]
<1>2. j \in CallType /\ a \in {"called", "listed", "reading"} /\ l \in SUBSET Manage!Pod
  BY <1>1
<1>3. i = [j EXCEPT !.at = a, !.list = l] \/ (i = [j EXCEPT !.at = a] /\ l = j.list)
  BY <1>1
<1>4. OnlyCall("action") /\ calls' = [calls EXCEPT !["action"] = i]
  BY <1>1 DEF OnlyCall
<1> HIDE DEF i, j
<1>5. /\ i \in CallType /\ i.at = a /\ i.list = l
      /\ i.kind = j.kind /\ i.left = j.left /\ i.server = j.server /\ i.pod = j.pod
      /\ i.clicked = j.clicked
      /\ i.sure => j.sure
      /\ i.clean => j.clean
  <2>1. CASE i = [j EXCEPT !.at = a, !.list = l]
    <3>1. i \in CallType
      BY ONLY <1>2, <2>1 DEF CallType
    <3>2. /\ i.at = a /\ i.list = l
          /\ i.kind = j.kind /\ i.left = j.left /\ i.server = j.server /\ i.pod = j.pod
          /\ i.clicked = j.clicked /\ i.sure = j.sure /\ i.clean = j.clean
      BY ONLY <1>2, <2>1 DEF CallType
    <3> QED
      BY ONLY <3>1, <3>2
  <2>2. CASE i = [j EXCEPT !.at = a] /\ l = j.list
    <3>1. i \in CallType
      BY ONLY <1>2, <2>2 DEF CallType
    <3>2. /\ i.at = a /\ i.list = l
          /\ i.kind = j.kind /\ i.left = j.left /\ i.server = j.server /\ i.pod = j.pod
          /\ i.clicked = j.clicked /\ i.sure = j.sure /\ i.clean = j.clean
      BY ONLY <1>2, <2>2 DEF CallType
    <3> QED
      BY ONLY <3>1, <3>2
  <2> QED
    BY ONLY <1>3, <2>1, <2>2
<1>6. calls' \in [Manage!Place -> CallType]
  BY <1>1, <1>4, <1>5
<1> QED
  BY <1>4, <1>5, <1>6 DEF ActionGoesOn, i, j

\* An action under way goes on; what is left to show is the row and the pod of a restart.
LEMMA ActionKeeps ==
    ASSUME ManageInv, NEW a \in {"listed", "reading"}, NEW l \in SUBSET Manage!Pod,
           ActionGoesOn(a, l), calls["action"].at \in {"called", "listed"}, running' \in BOOLEAN,
           pods' \in [Manage!Pod -> {"unmade", "up", "leaving", "gone"}], PodsGoOn,
           UNCHANGED <<stable, server, pod, opening, acting, actionError, writes, failures, excused>>,
           RestartFollows'
    PROVE  ManageInv'
<1>0. "action" \in Manage!Place /\ "first" \in Manage!Place
  BY PlacesAndRecords
<1>1. /\ calls' \in [Manage!Place -> CallType] /\ calls \in [Manage!Place -> CallType]
      /\ \A q \in Manage!Place : q # "action" => calls'[q] = calls[q]
      /\ calls'["action"].at = a /\ calls'["action"].left = {"server", "pods"}
      /\ calls'["action"].pod = calls["action"].pod
      /\ calls'["action"].clean => calls["action"].clean
  BY <1>0 DEF ActionGoesOn, OnlyCall, ManageInv, ManageTables, LeftUntilRead
<1>2. ManageFlags' /\ ManageTables'
  BY <1>1 DEF ManageInv, ManageFlags, ManageTables
<1>3. FlagsFollow'
  BY <1>0, <1>1 DEF ManageInv, FlagsFollow
<1>4. CleanIsAlone'
  BY <1>0, <1>1 DEF ManageInv, CleanIsAlone, Manage!Active
<1>5. ServerIsTrue'
  BY <1>0, <1>1 DEF ServerIsTrue
<1>6. LeftUntilRead'
  BY <1>0, <1>1 DEF ManageInv, LeftUntilRead
<1>7. RowIsRead'
  <2>1. "action" \in Manage!Active
    BY <1>0 DEF Manage!Active
  <2>2. \A q \in Manage!Place : q # "action" => ~calls[q].clean
    BY <2>1 DEF ManageInv, CleanIsAlone
  <2> QED
    BY <1>1, <2>2 DEF RowIsRead
<1>8. PodsAreReal'
  <2>1. \A p \in 0 .. MaxPods : p # 0 => p \in Manage!Pod
    BY PagesAssumption DEF Manage!Pod
  <2>2. \A q \in Manage!Place : calls'[q].pod = calls[q].pod /\ calls[q].pod \in 0 .. MaxPods
    BY <1>1 DEF CallType
  <2> QED
    BY <2>1, <2>2 DEF ManageInv, ManageTables, PodsAreReal, PodsGoOn
<1> QED
  BY <1>2, <1>3, <1>4, <1>5, <1>6, <1>7, <1>8 DEF ManageInv

LEMMA RowWrittenKeeps ==
    ASSUME ManageInv, Manage!StartStop \/ Manage!LookUp
    PROVE  ManageInv'
<1>1. /\ calls["action"].at = "called" /\ calls \in [Manage!Place -> CallType]
      /\ UNCHANGED <<stable, pods, server, pod, opening, acting, actionError, writes, failures, excused>>
      /\ pods \in [Manage!Pod -> {"unmade", "up", "leaving", "gone"}]
      /\ running \in BOOLEAN
  BY DEF Manage!StartStop, Manage!LookUp, Manage!Step, Manage!page, ManageInv, ManageTables,
     ManageFlags
<1>2. PodsGoOn
  BY <1>1 DEF PodsGoOn
<1>3. calls["action"].list \in SUBSET Manage!Pod
  BY <1>1, PlacesAndRecords DEF CallType
<1>4. CASE Manage!StartStop
  <2>1. /\ calls["action"].kind # "restart" /\ calls' = [calls EXCEPT !["action"].at = "reading"]
        /\ running' \in BOOLEAN
    BY <1>4 DEF Manage!StartStop, Manage!Step, Manage!To
  <2>2. ActionGoesOn("reading", calls["action"].list)
    BY <1>1, <1>3, <2>1, ActionMoves
  <2>3. RestartFollows'
    BY <2>1, <2>2 DEF RestartFollows, ActionGoesOn
  <2> QED
    BY <1>1, <1>2, <1>3, <2>1, <2>2, <2>3, ActionKeeps
<1>5. CASE Manage!LookUp /\ ~running
  <2>1. /\ calls' = [calls EXCEPT !["action"].at = "reading"] /\ running' \in BOOLEAN
    BY <1>5 DEF Manage!LookUp, Manage!To
  <2>2. ActionGoesOn("reading", calls["action"].list)
    BY <1>1, <1>3, <2>1, ActionMoves
  <2>3. RestartFollows'
    BY <1>1, <1>5, <2>2 DEF ManageInv, RestartFollows, ActionGoesOn
  <2> QED
    BY <1>1, <1>2, <1>3, <2>1, <2>2, <2>3, ActionKeeps
<1>6. CASE Manage!LookUp /\ running
  <2>1. /\ running' = running
        /\ calls' = [calls EXCEPT !["action"].at = "listed", !["action"].list = Manage!Listed]
    BY <1>6 DEF Manage!LookUp
  <2>2. Manage!Listed \in SUBSET Manage!Pod
    BY DEF Manage!Listed
  <2>3. ActionGoesOn("listed", Manage!Listed)
    BY <1>1, <2>1, <2>2, ActionMoves
  <2>4. \A p \in Manage!Pod : pods[p] # "unmade" => p \in Manage!Listed \/ pods[p] = "gone"
    BY <1>1 DEF Manage!Listed
  <2>5. RestartFollows'
    BY <1>1, <2>1, <2>3, <2>4 DEF ManageInv, RestartFollows, ActionGoesOn
  <2> QED
    BY <1>1, <1>2, <2>1, <2>2, <2>3, <2>5, ActionKeeps
<1> QED
  BY <1>1, <1>4, <1>5, <1>6

\* A request ends badly.
LEMMA BadEndKeeps ==
    ASSUME ManageInv, NEW r \in Manage!Place, Manage!Refused(r),
           pods' \in [Manage!Pod -> {"unmade", "up", "leaving", "gone"}], PodsGoOn,
           failures' \in 0 .. MaxFailures, UNCHANGED <<running, stable, writes>>
    PROVE  ManageInv'
<1>1. /\ calls' = [calls EXCEPT ![r] = Manage!Quiet] /\ excused' = TRUE
      /\ UNCHANGED <<server, pod>>
      /\ calls \in [Manage!Place -> CallType] /\ pod \in 0 .. MaxPods
  BY DEF Manage!Refused, ManageInv, ManageTables
<1>2. /\ calls' \in [Manage!Place -> CallType]
      /\ calls'[r].at = "none" /\ calls'[r].pod = 0 /\ calls'[r].clean = FALSE
      /\ \A q \in Manage!Place : q # r => calls'[q] = calls[q]
  BY <1>1, PlacesAndRecords
<1>3. ManageFlags'
  <2>1. {running', stable', excused'} \subseteq BOOLEAN
    BY <1>1 DEF ManageInv, ManageFlags
  <2>2. {actionError', acting', opening'} \subseteq BOOLEAN
    BY DEF Manage!Refused
  <2> QED
    BY <2>1, <2>2 DEF ManageFlags
<1>4. ManageTables'
  BY <1>1, <1>2 DEF ManageInv, ManageTables
<1>5. FlagsFollow'
  <2>1. acting' => acting /\ r # "action"
    BY DEF Manage!Refused
  <2>2. opening' => opening /\ r # "first"
    BY DEF Manage!Refused
  <2> QED
    BY <1>2, <2>1, <2>2, PlacesAndRecords DEF ManageInv, FlagsFollow
<1>6. CleanIsAlone'
  BY <1>2 DEF ManageInv, CleanIsAlone, Manage!Active
<1>7. ServerIsTrue'
  BY <1>1 DEF ServerIsTrue
<1>8. LeftUntilRead' /\ RowIsRead'
  BY <1>2 DEF ManageInv, LeftUntilRead, RowIsRead
<1>9. PodsAreReal'
  <2>1. \A p \in 0 .. MaxPods : p # 0 => p \in Manage!Pod
    BY PagesAssumption DEF Manage!Pod
  <2>2. \A q \in Manage!Place : calls[q].pod \in 0 .. MaxPods
    BY <1>1 DEF CallType
  <2> QED
    BY <1>1, <1>2, <2>1, <2>2 DEF ManageInv, PodsAreReal, PodsGoOn
<1>10. RestartFollows'
  <2>1. CASE r = "action"
    BY <1>2, <2>1 DEF RestartFollows
  <2>2. CASE r # "action"
    <3>1. calls'["action"] = calls["action"]
      BY <1>2, <2>2, PlacesAndRecords
    <3> QED
      BY <3>1 DEF ManageInv, RestartFollows, PodsGoOn
  <2> QED
    BY <2>1, <2>2
<1> QED
  BY <1>3, <1>4, <1>5, <1>6, <1>7, <1>8, <1>9, <1>10 DEF ManageInv

LEMMA FailKeeps ==
    ASSUME ManageInv, NEW r \in Manage!Place, Manage!Fail(r)
    PROVE  ManageInv'
<1>1. /\ failures < MaxFailures /\ failures' = failures + 1 /\ Manage!Refused(r)
      /\ UNCHANGED <<running, stable, pods, writes>>
  BY DEF Manage!Fail, Manage!world
<1>2. /\ pods' \in [Manage!Pod -> {"unmade", "up", "leaving", "gone"}]
      /\ failures' \in 0 .. MaxFailures
  BY <1>1, PagesAssumption DEF ManageInv, ManageTables
<1>3. PodsGoOn
  BY <1>1 DEF PodsGoOn
<1> QED
  BY <1>1, <1>2, <1>3, BadEndKeeps

\* The pods on a restart's list are told to go, if they are there.
LEMMA DeleteKeeps ==
    ASSUME ManageInv, Manage!DeletePods
    PROVE  ManageInv'
<1> DEFINE doomed == calls["action"].list
           renamed == IF stable /\ doomed \ Manage!Listed # {} THEN Manage!Listed ELSE {}
<1>1. /\ calls["action"].at = "listed"
      /\ pods' = [p \in Manage!Pod |->
                     IF p \in (doomed \cap Manage!Listed) \cup renamed THEN "leaving" ELSE pods[p]]
      /\ \/ Manage!To("reading") /\ UNCHANGED <<Manage!page, excused>>
         \/ Manage!Refused("action")
      /\ UNCHANGED <<running, stable, writes, failures>>
  BY DEF Manage!DeletePods
<1>2. /\ calls \in [Manage!Place -> CallType] /\ failures \in 0 .. MaxFailures
      /\ pods \in [Manage!Pod -> {"unmade", "up", "leaving", "gone"}]
      /\ running \in BOOLEAN
  BY DEF ManageInv, ManageTables, ManageFlags
<1>3. doomed \in SUBSET Manage!Pod
  BY <1>2, PlacesAndRecords DEF CallType
<1>4. pods' \in [Manage!Pod -> {"unmade", "up", "leaving", "gone"}] /\ PodsGoOn
  BY <1>1, <1>2 DEF PodsGoOn, Manage!Listed
<1>5. CASE Manage!To("reading") /\ UNCHANGED <<Manage!page, excused>>
  <2>1. /\ calls' = [calls EXCEPT !["action"].at = "reading"]
        /\ UNCHANGED <<server, pod, opening, acting, actionError, excused>>
    BY <1>5 DEF Manage!To, Manage!page
  <2>2. ActionGoesOn("reading", doomed)
    BY <1>2, <1>3, <2>1, ActionMoves
  <2>3. \A p \in doomed : pods[p] # "unmade" => pods'[p] \in {"leaving", "gone"}
    BY <1>1, <1>2, <1>3 DEF Manage!Listed
  <2> HIDE DEF doomed, renamed
  <2>4. RestartFollows'
    <3> SUFFICES ASSUME calls'["action"].kind = "restart", calls'["action"].sure, calls'["action"].clean
          PROVE  /\ calls'["action"].clicked \in Manage!Pod
                 /\ pods'[calls'["action"].clicked] \in {"leaving", "gone"}
      BY <2>2 DEF RestartFollows, ActionGoesOn
    <3>1. /\ calls["action"].kind = "restart" /\ calls["action"].sure /\ calls["action"].clean
          /\ calls'["action"].clicked = calls["action"].clicked
      BY <2>2 DEF ActionGoesOn
    <3>2. /\ calls["action"].clicked \in Manage!Pod /\ pods[calls["action"].clicked] # "unmade"
          /\ calls["action"].clicked \in doomed \/ pods[calls["action"].clicked] = "gone"
      BY <1>1, <3>1 DEF ManageInv, RestartFollows, doomed
    <3> QED
      BY <1>4, <2>3, <3>1, <3>2 DEF PodsGoOn
  <2> QED
    BY <1>1, <1>2, <1>3, <1>4, <2>1, <2>2, <2>4, ActionKeeps
<1>6. CASE Manage!Refused("action")
  BY <1>1, <1>2, <1>4, <1>6, PlacesAndRecords, BadEndKeeps
<1> QED
  BY <1>1, <1>5, <1>6

\* What is read is the row or a listed pod.
LEMMA ReadsKeep ==
    ASSUME ManageInv, NEW r \in Manage!Place, Manage!Read(r)
    PROVE  ManageInv'
<1> DEFINE j == calls[r]
           i == calls'[r]
<1>1. /\ calls[r].at = "reading"
      /\ UNCHANGED <<running, stable, pods, server, pod, opening, acting, actionError, writes,
                     failures, excused>>
      /\ calls \in [Manage!Place -> CallType]
      /\ pods \in [Manage!Pod -> {"unmade", "up", "leaving", "gone"}] /\ running \in BOOLEAN
  BY DEF Manage!Read, Manage!world, Manage!page, ManageInv, ManageTables, ManageFlags
<1>2. j \in CallType
  BY <1>1
<1>3. PICK p \in 0 .. MaxPods :
        /\ p # 0 => pods[p] # "unmade"
        /\ \/ i = [j EXCEPT !.left = @ \ {"server"}, !.server = Manage!Word(running)]
           \/ i = [j EXCEPT !.left = @ \ {"pods"}, !.pod = p]
        /\ calls' = [calls EXCEPT ![r] = i]
  <2>1. CASE calls' = [calls EXCEPT ![r].left = @ \ {"server"}, ![r].server = Manage!Word(running)]
    <3>1. 0 \in 0 .. MaxPods
      BY PagesAssumption
    <3>2. i = [j EXCEPT !.left = @ \ {"server"}, !.server = Manage!Word(running)]
      BY <1>1, <2>1
    <3>3. calls' = [calls EXCEPT ![r] = i]
      BY <1>1, <2>1
    <3> QED
      BY <3>1, <3>2, <3>3
  <2>2. ASSUME NEW p \in (IF Manage!Listed = {} THEN {0} ELSE Manage!Listed),
               calls' = [calls EXCEPT ![r].left = @ \ {"pods"}, ![r].pod = p]
        PROVE  /\ p \in 0 .. MaxPods
               /\ p # 0 => pods[p] # "unmade"
               /\ i = [j EXCEPT !.left = @ \ {"pods"}, !.pod = p]
               /\ calls' = [calls EXCEPT ![r] = i]
    <3>1. p \in 0 .. MaxPods /\ (p # 0 => pods[p] # "unmade")
      BY PagesAssumption DEF Manage!Listed, Manage!Pod
    <3>2. i = [j EXCEPT !.left = @ \ {"pods"}, !.pod = p]
      BY <1>1, <2>2
    <3>3. calls' = [calls EXCEPT ![r] = i]
      BY <1>1, <2>2
    <3> QED
      BY <3>1, <3>2, <3>3
  <2> QED
    BY <2>1, <2>2 DEF Manage!Read
<1>4. \A q \in Manage!Place : q # r => calls'[q] = calls[q]
  BY <1>1, <1>3
<1>5. Manage!Word(running) \in {"running", "stopped"}
  BY DEF Manage!Word
<1> HIDE DEF i, j
<1>6. /\ i \in CallType /\ i.at = j.at /\ i.kind = j.kind /\ i.list = j.list
      /\ i.clicked = j.clicked /\ i.sure = j.sure /\ i.clean = j.clean
      /\ i.pod \in {j.pod, p}
      /\ \/ i.server = Manage!Word(running)
         \/ i.server = j.server /\ ("server" \in i.left <=> "server" \in j.left)
  <2>1. CASE i = [j EXCEPT !.left = @ \ {"server"}, !.server = Manage!Word(running)]
    <3>1. i \in CallType
      BY ONLY <1>2, <1>5, <2>1 DEF CallType
    <3>2. /\ i.at = j.at /\ i.kind = j.kind /\ i.list = j.list
          /\ i.clicked = j.clicked /\ i.sure = j.sure /\ i.clean = j.clean
          /\ i.pod = j.pod /\ i.server = Manage!Word(running)
      BY ONLY <1>2, <2>1 DEF CallType
    <3> QED
      BY ONLY <3>1, <3>2
  <2>2. CASE i = [j EXCEPT !.left = @ \ {"pods"}, !.pod = p]
    <3>0. p \in 0 .. MaxPods
      OBVIOUS
    <3>1. i \in CallType
      BY ONLY <1>2, <2>2, <3>0 DEF CallType
    <3>2. /\ i.at = j.at /\ i.kind = j.kind /\ i.list = j.list
          /\ i.clicked = j.clicked /\ i.sure = j.sure /\ i.clean = j.clean
          /\ i.pod = p /\ i.server = j.server
      BY ONLY <1>2, <2>2 DEF CallType
    <3>3. i.left = j.left \ {"pods"}
      BY ONLY <1>2, <2>2 DEF CallType
    <3>4. "server" \in i.left <=> "server" \in j.left
      BY ONLY <3>3
    <3> QED
      BY ONLY <3>1, <3>2, <3>4
  <2> QED
    BY ONLY <1>3, <2>1, <2>2
<1>7. /\ calls'[r] = i /\ calls[r] = j
      /\ calls' \in [Manage!Place -> CallType]
  <2>1. calls'[r] = i /\ calls[r] = j
    BY DEF i, j
  <2>2. calls' \in [Manage!Place -> CallType]
    BY <1>1, <1>3, <1>6
  <2> QED
    BY <2>1, <2>2
<1>8. /\ \A q \in Manage!Place : calls'[q].at = calls[q].at /\ calls'[q].clean = calls[q].clean
      /\ \A q \in Manage!Place : /\ calls'[q].kind = calls[q].kind /\ calls'[q].list = calls[q].list
                                 /\ calls'[q].clicked = calls[q].clicked /\ calls'[q].sure = calls[q].sure
  BY <1>4, <1>6, <1>7
<1>9. ManageFlags' /\ ManageTables'
  BY <1>1, <1>7 DEF ManageInv, ManageFlags, ManageTables
<1>10. FlagsFollow'
  BY <1>1, <1>8, PlacesAndRecords DEF ManageInv, FlagsFollow
<1>11. CleanIsAlone' /\ ServerIsTrue'
  BY <1>1, <1>8 DEF ManageInv, CleanIsAlone, ServerIsTrue, Manage!Active, Manage!Word
<1>12. LeftUntilRead'
  BY <1>1, <1>4, <1>8 DEF ManageInv, LeftUntilRead
<1>13. RowIsRead'
  <2> SUFFICES ASSUME NEW q \in Manage!Place, calls'[q].clean, calls'[q].at = "reading",
                      "server" \notin calls'[q].left
        PROVE  calls'[q].server = Manage!Word(running)
    BY <1>1 DEF RowIsRead, Manage!Word
  <2>1. CASE q = r
    <3>1. calls[r].clean /\ ("server" \notin calls[r].left => calls[r].server = Manage!Word(running))
      BY <1>1, <1>8, <2>1 DEF ManageInv, RowIsRead
    <3> QED
      BY <1>6, <1>7, <2>1, <3>1
  <2>2. CASE q # r
    BY <1>4, <2>2 DEF ManageInv, RowIsRead
  <2> QED
    BY <2>1, <2>2
<1>14. PodsAreReal'
  <2> SUFFICES ASSUME NEW q \in Manage!Place, calls'[q].pod # 0 PROVE pods[calls'[q].pod] # "unmade"
    BY <1>1 DEF ManageInv, PodsAreReal
  <2>1. CASE q = r
    BY <1>3, <1>6, <1>7, <2>1 DEF ManageInv, PodsAreReal
  <2>2. CASE q # r
    BY <1>4, <2>2 DEF ManageInv, PodsAreReal
  <2> QED
    BY <2>1, <2>2
<1>15. RestartFollows'
  BY <1>1, <1>8, PlacesAndRecords DEF ManageInv, RestartFollows
<1> QED
  BY <1>9, <1>10, <1>11, <1>12, <1>13, <1>14, <1>15 DEF ManageInv

\* Both are shown.
LEMMA EndKeeps ==
    ASSUME ManageInv, NEW r \in Manage!Place, Manage!End(r)
    PROVE  ManageInv'
<1>1. /\ calls[r].at = "reading" /\ calls[r].left = {}
      /\ server' = calls[r].server /\ pod' = calls[r].pod
      /\ calls' = [calls EXCEPT ![r] = Manage!Quiet]
      /\ UNCHANGED <<running, stable, pods, actionError, writes, failures>>
      /\ calls \in [Manage!Place -> CallType]
  BY DEF Manage!End, Manage!Shown, Manage!world, ManageInv, ManageTables
<1>2. /\ calls' \in [Manage!Place -> CallType]
      /\ calls'[r].at = "none" /\ calls'[r].pod = 0 /\ calls'[r].clean = FALSE
      /\ \A q \in Manage!Place : q # r => calls'[q] = calls[q]
  BY <1>1, PlacesAndRecords
<1>3. ManageFlags'
  <2>1. {running', stable', actionError'} \subseteq BOOLEAN
    BY <1>1 DEF ManageInv, ManageFlags
  <2>2. {excused', acting', opening'} \subseteq BOOLEAN
    BY DEF Manage!End
  <2> QED
    BY <2>1, <2>2 DEF ManageFlags
<1>4. ManageTables'
  <2>1. server' \in {"unknown", "running", "stopped"} /\ pod' \in 0 .. MaxPods
    BY <1>1 DEF CallType
  <2> QED
    BY <1>1, <1>2, <2>1 DEF ManageInv, ManageTables
<1>5. FlagsFollow'
  <2>1. acting' => acting /\ r # "action"
    BY DEF Manage!End
  <2>2. opening' => opening /\ r # "first"
    BY DEF Manage!End
  <2> QED
    BY <1>2, <2>1, <2>2, PlacesAndRecords DEF ManageInv, FlagsFollow
<1>6. CleanIsAlone'
  BY <1>2 DEF ManageInv, CleanIsAlone, Manage!Active
<1>7. ServerIsTrue'
  <2> SUFFICES ASSUME ~excused' PROVE server' = Manage!Word(running)
    BY <1>1 DEF ServerIsTrue, Manage!Word
  <2>1. calls[r].clean
    BY DEF Manage!End
  <2> QED
    BY <1>1, <2>1 DEF ManageInv, RowIsRead
<1>8. LeftUntilRead' /\ RowIsRead'
  BY <1>1, <1>2 DEF ManageInv, LeftUntilRead, RowIsRead, Manage!Word
<1>9. PodsAreReal'
  BY <1>1, <1>2 DEF ManageInv, PodsAreReal
<1>10. RestartFollows'
  <2>1. CASE r = "action"
    BY <1>2, <2>1 DEF RestartFollows
  <2>2. CASE r # "action"
    <3>1. calls'["action"] = calls["action"]
      BY <1>2, <2>2, PlacesAndRecords
    <3> QED
      BY <1>1, <3>1 DEF ManageInv, RestartFollows
  <2> QED
    BY <2>1, <2>2
<1> QED
  BY <1>3, <1>4, <1>5, <1>6, <1>7, <1>8, <1>9, <1>10 DEF ManageInv

LEMMA ManageBegins == Manage!Init => ManageInv
<1> SUFFICES ASSUME Manage!Init PROVE ManageInv
  OBVIOUS
<1> DEFINE begun == [Manage!Quiet EXCEPT !.at = "reading", !.kind = "first",
                         !.left = {"server", "pods"}, !.clean = TRUE]
<1>1. /\ running \in BOOLEAN /\ stable \in BOOLEAN
      /\ pods = [p \in Manage!Pod |-> IF p = 1 /\ running THEN "up" ELSE "unmade"]
      /\ server = "unknown" /\ pod = 0 /\ opening = TRUE /\ acting = FALSE /\ actionError = FALSE
      /\ calls = [r \in Manage!Place |-> IF r = "first" THEN begun ELSE Manage!Quiet]
      /\ writes = 0 /\ failures = 0 /\ excused = FALSE
  BY DEF Manage!Init
<1>2. /\ begun \in CallType /\ begun.at = "reading" /\ begun.left = {"server", "pods"}
      /\ begun.pod = 0 /\ begun.kind = "first"
  BY PlacesAndRecords, PagesAssumption DEF Manage!Quiet, CallType
<1> HIDE DEF begun
<1>3. /\ calls \in [Manage!Place -> CallType]
      /\ calls["first"] = begun
      /\ \A r \in Manage!Place : r # "first" => calls[r] = Manage!Quiet
  BY <1>1, <1>2, PlacesAndRecords
<1>4. ManageFlags
  BY <1>1 DEF ManageFlags
<1>5. ManageTables
  BY <1>1, <1>3, PagesAssumption, FormAssumption DEF ManageTables
<1>6. FlagsFollow /\ CleanIsAlone /\ ServerIsTrue /\ LeftUntilRead /\ RowIsRead /\ PodsAreReal
  BY <1>1, <1>2, <1>3, PlacesAndRecords DEF FlagsFollow, CleanIsAlone, ServerIsTrue, LeftUntilRead,
     RowIsRead, PodsAreReal, Manage!Active
<1>7. RestartFollows
  BY <1>3, PlacesAndRecords DEF RestartFollows
<1> QED
  BY <1>4, <1>5, <1>6, <1>7 DEF ManageInv

LEMMA ManageStep == ManageInv /\ (Manage!Next \/ UNCHANGED Manage!vars) => ManageInv'
<1> SUFFICES ASSUME ManageInv, Manage!Next \/ UNCHANGED Manage!vars PROVE ManageInv'
  OBVIOUS
<1>1. CASE Manage!Other
  BY <1>1, OtherWriteKeeps
<1>2. CASE Manage!PodComes \/ Manage!PodLeaves
  BY <1>2, PodsMoveKeeps
<1>3. CASE \/ \E k \in {"start", "stop", "restart"} : Manage!Click(k)
           \/ \E r \in Refresh : Manage!ClickRefresh(r)
  BY <1>3, ClickKeeps
<1>4. CASE Manage!Backend
  BY <1>4, RowWrittenKeeps, DeleteKeeps DEF Manage!Backend
<1>5. ASSUME NEW r \in Manage!Place, Manage!Fail(r) \/ Manage!Read(r) \/ Manage!End(r)
      PROVE  ManageInv'
  BY <1>5, FailKeeps, ReadsKeep, EndKeeps
<1>6. CASE UNCHANGED Manage!vars
  BY <1>6 DEF Manage!vars, ManageInv, ManageFlags, ManageTables, FlagsFollow, CleanIsAlone,
     ServerIsTrue, LeftUntilRead, RowIsRead, PodsAreReal, RestartFollows, Manage!Active, Manage!Word
<1> QED
  BY <1>1, <1>2, <1>3, <1>4, <1>5, <1>6 DEF Manage!Next

LEMMA ManageConsoleStep ==
    ASSUME [ConsoleNext]_consoleVars
    PROVE  /\ part' = part
           /\ part = "manage" => Manage!Next \/ UNCHANGED Manage!vars
  BY DEF ConsoleNext, consoleVars, manageVars, Manage!vars

\* The invariant of the page of a server's operations: an undisturbed request is alone, and
\* what its restart does to the pod it was clicked for.
THEOREM ManagePageInvariant == ConsoleSpec => [](part = "manage" => ManageInv)
<1>1. ConsoleInit => (part = "manage" => ManageInv)
  BY ManageBegins DEF ConsoleInit
<1>2. (part = "manage" => ManageInv) /\ [ConsoleNext]_consoleVars => (part = "manage" => ManageInv)'
  BY ManageConsoleStep, ManageStep
<1> QED
  BY <1>1, <1>2, PTL DEF ConsoleSpec

\* At rest the page says what the row says, and a restart nobody disturbed has told the
\* pod on screen to go, for any number of pods, refreshes and writes of others.
THEOREM TheOperationsAreTrue == ConsoleSpec => []OperationsAreTrue
<1>1. ASSUME ManageInv PROVE Manage!OperationsAreTrue
  <2>1. Manage!PageIsTrue
    <3> SUFFICES ASSUME Manage!Active = {}
          PROVE  /\ ~acting /\ ~opening
                 /\ ~excused /\ server # "unknown" => server = Manage!Word(running)
      BY DEF Manage!PageIsTrue, Manage!ShowsServer
    <3>1. \A r \in Manage!Place : calls[r].at = "none"
      BY DEF Manage!Active
    <3> QED
      BY <1>1, <3>1, PlacesAndRecords DEF ManageInv, FlagsFollow, ServerIsTrue
  <2>2. Manage!RestartReplaces
    BY <1>1 DEF ManageInv, RestartFollows, Manage!RestartReplaces
  <2> QED
    BY <2>1, <2>2 DEF Manage!OperationsAreTrue
<1>2. (part = "manage" => ManageInv) => OperationsAreTrue
  BY <1>1 DEF OperationsAreTrue
<1> QED
  BY <1>2, ManagePageInvariant, PTL

-----------------------------------------------------------------------------
(* The picture of the topology.                                            *)

\* Whatever is read and whatever the filters are, a line has a node at both ends.
LEMMA LinesHaveEnds == Graph!EdgesHaveEnds
<1> SUFFICES ASSUME NEW e \in Graph!Edges PROVE e[1] \in Graph!Nodes /\ e[2] \in Graph!Nodes
  BY DEF Graph!EdgesHaveEnds
<1>1. ASSUME NEW p \in Graph!ToSet(ProxyList), NEW s \in Graph!Routes(p),
             e = <<Graph!Proxy(p), Graph!Server(s)>>
      PROVE  e[1] \in Graph!Nodes /\ e[2] \in Graph!Nodes
  BY <1>1 DEF Graph!Routes, Graph!Nodes
<1>2. ASSUME NEW i \in Graph!Nodes, e \in Graph!HostEdges(i)
      PROVE  e[1] \in Graph!Nodes /\ e[2] \in Graph!Nodes
  BY <1>2 DEF Graph!HostEdges, Graph!Nodes
<1>3. \/ \E p \in Graph!ToSet(ProxyList) :
            e \in {<<Graph!Proxy(p), Graph!Server(s)>> : s \in Graph!Routes(p)}
      \/ \E i \in {j \in Graph!Nodes : j.type # "node"} : e \in Graph!HostEdges(i)
  BY DEF Graph!Edges
<1>4. \/ \E p \in Graph!ToSet(ProxyList) : \E s \in Graph!Routes(p) : e = <<Graph!Proxy(p), Graph!Server(s)>>
      \/ \E i \in Graph!Nodes : e \in Graph!HostEdges(i)
  BY <1>3, Zenon
<1> QED
  BY <1>1, <1>2, <1>4, Zenon

\* A non-empty set of natural numbers has a least one.
LEMMA LeastNumber ==
    ASSUME NEW T, T \subseteq Nat, T # {}
    PROVE  \E n \in T : \A m \in T : n <= m
<1> DEFINE R == {ss \in Nat \X Nat : ss[1] < ss[2]}
<1>1. IsWellFoundedOn(R, Nat)
  BY NatLessThanWellFounded, Zenon DEF OpToRel
<1>2. \E n \in T : \A m \in T : ~ (<<m, n>> \in R)
  BY <1>1, WFMin
<1>3. \A n, m \in Nat : <<m, n>> \notin R => n <= m
  OBVIOUS
<1> QED
  BY <1>2, <1>3

\* Induction over the natural numbers, on the set of those for which something holds.
LEMMA Induction ==
    ASSUME NEW T, 0 \in T, \A n \in Nat : n \in T => n + 1 \in T
    PROVE  \A n \in Nat : n \in T
<1> SUFFICES ASSUME Nat \ T # {} PROVE FALSE
  OBVIOUS
<1>1. PICK n \in Nat \ T : \A m \in Nat \ T : n <= m
  BY LeastNumber
<1>2. n # 0
  BY <1>1
<1>3. n - 1 \in Nat /\ n - 1 \notin Nat \ T
  BY <1>1, <1>2
<1> QED
  BY <1>3

Once(seq) == \A i, j \in DOMAIN seq : seq[i] = seq[j] => i = j

LEMMA KeptIs ==
    ASSUME NEW A, NEW seq \in Seq(A), NEW set
    PROVE  LET kept == Graph!Kept(seq, set) IN
           /\ kept \in Seq(A)
           /\ \A k \in DOMAIN kept : kept[k] \in set /\ \E i \in DOMAIN seq : kept[k] = seq[i]
           /\ \A i \in DOMAIN seq : seq[i] \in set => \E k \in DOMAIN kept : kept[k] = seq[i]
           /\ Once(seq) => Once(kept)
<1> DEFINE Step(f, i) == IF i = 0 THEN <<>>
                         ELSE IF seq[i] \in set THEN Append(f[i - 1], seq[i]) ELSE f[i - 1]
           Total(f, n) == f = [i \in 0 .. n |-> Step(f, i)]
           kept == CHOOSE f : Total(f, Len(seq))
           Good(s, n) ==
               /\ s \in Seq(A)
               /\ \A k \in DOMAIN s : s[k] \in set /\ \E i \in 1 .. n : s[k] = seq[i]
               /\ \A i \in 1 .. n : seq[i] \in set => \E k \in DOMAIN s : s[k] = seq[i]
               /\ Once(seq) => Once(s)
<1>1. Graph!Kept(seq, set) = kept[Len(seq)]
  BY DEF Graph!Kept
<1>2. \A n \in Nat : \E f : Total(f, n)
  <2> DEFINE T == {n \in Nat : \E f : Total(f, n)}
  <2>1. 0 \in T
    <3> DEFINE f == [i \in 0 .. 0 |-> <<>>]
    <3>1. Total(f, 0)
      OBVIOUS
    <3> QED
      BY <3>1
  <2>2. ASSUME NEW n \in Nat, n \in T PROVE n + 1 \in T
    <3>1. PICK f : Total(f, n)
      BY <2>2
    <3> DEFINE g == [i \in 0 .. n + 1 |-> IF i = n + 1 THEN Step(f, i) ELSE f[i]]
    <3>2. \A i \in 0 .. n : g[i] = f[i]
      OBVIOUS
    <3>3. \A i \in 0 .. n + 1 : g[i] = Step(g, i)
      <4> TAKE i \in 0 .. n + 1
      <4>1. CASE i \in 0 .. n
        <5>1. f[i] = Step(f, i)
          <6> HIDE DEF Step
          <6> QED
            BY <4>1, <3>1
        <5>2. g[i] = f[i] /\ (i # 0 => g[i - 1] = f[i - 1])
          <6> HIDE DEF g
          <6> QED
            BY <4>1, <3>2
        <5> HIDE DEF g
        <5> QED
          BY <5>1, <5>2
      <4>2. CASE i = n + 1
        <5>1. g[i] = Step(f, i) /\ g[i - 1] = f[i - 1]
          BY <4>2, <3>2
        <5> QED
          BY <5>1
      <4> QED
        BY <4>1, <4>2
    <3>4. Total(g, n + 1)
      <4> HIDE DEF Step
      <4> QED
        BY <3>3
    <3> HIDE DEF Total, g
    <3> QED
      BY <3>4
  <2> QED
    <3> HIDE DEF Total
    <3>1. \A n \in Nat : n \in T
      BY <2>1, <2>2, Induction
    <3> QED
      BY <3>1
<1>3. Len(seq) \in Nat /\ DOMAIN seq = 1 .. Len(seq)
  OBVIOUS
<1>4. Total(kept, Len(seq))
  <2> HIDE DEF Total
  <2> QED
    BY <1>2, <1>3
<1>5. \A i \in 0 .. Len(seq) : kept[i] = Step(kept, i)
  <2> HIDE DEF kept
  <2> QED
    BY <1>4
<1>6. \A n \in Nat : n <= Len(seq) => Good(kept[n], n)
  <2> HIDE DEF kept
  <2> DEFINE T == {n \in Nat : n <= Len(seq) => Good(kept[n], n)}
  <2>1. 0 \in T
    <3>1. kept[0] = <<>>
      BY <1>3, <1>5
    <3>2. Good(<<>>, 0)
      BY DEF Once
    <3> HIDE DEF Good
    <3> QED
      BY <3>1, <3>2
  <2>2. ASSUME NEW n \in Nat, n \in T PROVE n + 1 \in T
    <3> SUFFICES ASSUME n + 1 <= Len(seq) PROVE Good(kept[n + 1], n + 1)
      OBVIOUS
    <3> DEFINE s == kept[n]
    <3>1. Good(s, n)
      BY <2>2, <1>3
    <3>2. kept[n + 1] = IF seq[n + 1] \in set THEN Append(s, seq[n + 1]) ELSE s
      BY <1>3, <1>5
    <3>3. seq[n + 1] \in A /\ n + 1 \in DOMAIN seq /\ 1 .. n \subseteq DOMAIN seq
      BY <1>3
    <3> HIDE DEF s
    <3>4. CASE seq[n + 1] \notin set
      <4>1. kept[n + 1] = s
        BY <3>2, <3>4
      <4> QED
        BY <4>1, <3>1, <3>4
    <3>5. CASE seq[n + 1] \in set
      <4> DEFINE t == Append(s, seq[n + 1])
      <4>1. kept[n + 1] = t
        BY <3>2, <3>5
      <4>2. /\ t \in Seq(A) /\ DOMAIN s = 1 .. Len(s) /\ DOMAIN t = 1 .. Len(s) + 1 /\ Len(s) \in Nat
            /\ t[Len(s) + 1] = seq[n + 1] /\ \A k \in DOMAIN s : t[k] = s[k]
        BY <3>1, <3>3
      <4> HIDE DEF t
      <4>3. \A k \in DOMAIN t : t[k] \in set /\ \E i \in 1 .. n + 1 : t[k] = seq[i]
        <5> TAKE k \in DOMAIN t
        <5>1. CASE k \in DOMAIN s
          BY <5>1, <4>2, <3>1
        <5>2. CASE k = Len(s) + 1
          BY <5>2, <4>2, <3>5
        <5> QED
          BY <5>1, <5>2, <4>2
      <4>4. \A i \in 1 .. n + 1 : seq[i] \in set => \E k \in DOMAIN t : t[k] = seq[i]
        <5> TAKE i \in 1 .. n + 1
        <5>1. CASE i = n + 1
          BY <5>1, <4>2
        <5>2. CASE i \in 1 .. n
          <6> SUFFICES ASSUME seq[i] \in set PROVE \E k \in DOMAIN t : t[k] = seq[i]
            OBVIOUS
          <6>1. PICK k \in DOMAIN s : s[k] = seq[i]
            BY <3>1, <5>2
          <6> QED
            BY <6>1, <4>2
        <5> QED
          BY <5>1, <5>2
      <4>5. Once(seq) => Once(t)
        <5> SUFFICES ASSUME Once(seq), NEW k \in DOMAIN t, NEW l \in DOMAIN t, t[k] = t[l]
                     PROVE  k = l
          BY DEF Once
        <5>1. ASSUME NEW m \in DOMAIN s PROVE t[m] # t[Len(s) + 1]
          <6>1. PICK i \in 1 .. n : s[m] = seq[i]
            BY <3>1
          <6>2. seq[i] # seq[n + 1]
            BY <3>3 DEF Once
          <6> QED
            BY <6>1, <6>2, <4>2
        <5>2. CASE k \in DOMAIN s /\ l \in DOMAIN s
          BY <5>2, <4>2, <3>1 DEF Once
        <5> QED
          BY <5>1, <5>2, <4>2
      <4> QED
        BY <4>1, <4>2, <4>3, <4>4, <4>5
    <3> QED
      BY <3>4, <3>5
  <2> QED
    <3> HIDE DEF Good
    <3>1. \A n \in Nat : n \in T
      BY <2>1, <2>2, Induction
    <3> QED
      BY <3>1
<1> QED
  <2>1. Good(kept[Len(seq)], Len(seq))
    <3> HIDE DEF Good, kept
    <3> QED
      BY <1>3, <1>6
  <2> HIDE DEF kept
  <2> QED
    BY <1>1, <1>3, <2>1

\* A sequence of the members of a set, each once.
Lists(s, S) ==
    /\ s \in Seq(S) /\ Once(s)
    /\ \A x \in S : \E i \in DOMAIN s : s[i] = x

LEMMA KeptLists ==
    ASSUME NEW S, NEW seq, Lists(seq, S), NEW set
    PROVE  Lists(Graph!Kept(seq, set), S \cap set)
<1> DEFINE kept == Graph!Kept(seq, set)
<1>1. /\ kept \in Seq(S) /\ Once(kept)
      /\ \A k \in DOMAIN kept : kept[k] \in set
      /\ \A i \in DOMAIN seq : seq[i] \in set => \E k \in DOMAIN kept : kept[k] = seq[i]
  BY KeptIs DEF Lists
<1> HIDE DEF kept
<1>2. kept \in Seq(S \cap set)
  <2>1. Len(kept) \in Nat /\ DOMAIN kept = 1 .. Len(kept) /\ \A k \in DOMAIN kept : kept[k] \in S \cap set
    BY <1>1
  <2>2. kept = [k \in 1 .. Len(kept) |-> kept[k]]
    BY <1>1
  <2> QED
    BY <2>1, <2>2
<1>3. \A x \in S \cap set : \E k \in DOMAIN kept : kept[k] = x
  BY <1>1 DEF Lists
<1>4. Lists(kept, S \cap set)
  BY <1>1, <1>2, <1>3 DEF Lists
<1> QED
  BY <1>4 DEF kept

LEMMA ConcatLists ==
    ASSUME NEW S, NEW T, NEW s, NEW t, Lists(s, S), Lists(t, T), S \cap T = {}
    PROVE  Lists(s \o t, S \cup T)
<1> DEFINE u == s \o t
<1>1. /\ s \in Seq(S \cup T) /\ t \in Seq(S \cup T)
      /\ DOMAIN s = 1 .. Len(s) /\ DOMAIN t = 1 .. Len(t) /\ Len(s) \in Nat /\ Len(t) \in Nat
      /\ (\A i \in DOMAIN s : s[i] \in S) /\ (\A i \in DOMAIN t : t[i] \in T)
  BY DEF Lists
<1>2. /\ u \in Seq(S \cup T) /\ DOMAIN u = 1 .. Len(s) + Len(t)
      /\ \A i \in DOMAIN s : i \in DOMAIN u /\ u[i] = s[i]
      /\ \A i \in DOMAIN t : Len(s) + i \in DOMAIN u /\ u[Len(s) + i] = t[i]
  BY <1>1
<1>3. \A i \in DOMAIN u : \/ i \in DOMAIN s
                          \/ i - Len(s) \in DOMAIN t /\ i = Len(s) + (i - Len(s))
  BY <1>1, <1>2
<1> HIDE DEF u
<1>4. Once(u)
  <2> SUFFICES ASSUME NEW i \in DOMAIN u, NEW j \in DOMAIN u, u[i] = u[j] PROVE i = j
    BY DEF Once
  <2>1. CASE i \in DOMAIN s /\ j \in DOMAIN s
    BY <2>1, <1>2 DEF Lists, Once
  <2>2. CASE i \in DOMAIN s /\ j \notin DOMAIN s
    <3>1. u[i] \in S
      BY <2>2, <1>1, <1>2
    <3>2. u[j] \in T
      BY <2>2, <1>1, <1>2, <1>3
    <3> QED
      BY <3>1, <3>2
  <2>3. CASE i \notin DOMAIN s /\ j \in DOMAIN s
    <3>1. u[j] \in S
      BY <2>3, <1>1, <1>2
    <3>2. u[i] \in T
      BY <2>3, <1>1, <1>2, <1>3
    <3> QED
      BY <3>1, <3>2
  <2>4. CASE i \notin DOMAIN s /\ j \notin DOMAIN s
    <3>1. i - Len(s) \in DOMAIN t /\ j - Len(s) \in DOMAIN t /\ t[i - Len(s)] = t[j - Len(s)]
      BY <2>4, <1>2, <1>3
    <3>2. i - Len(s) = j - Len(s)
      BY <3>1 DEF Lists, Once
    <3> QED
      BY <3>2, <1>1, <1>2
  <2> QED
    BY <2>1, <2>2, <2>3, <2>4
<1>5. \A x \in S \cup T : \E i \in DOMAIN u : u[i] = x
  <2> TAKE x \in S \cup T
  <2>1. CASE x \in S
    BY <2>1, <1>2 DEF Lists
  <2>2. CASE x \in T
    <3>1. PICK i \in DOMAIN t : t[i] = x
      BY <2>2 DEF Lists
    <3> QED
      BY <3>1, <1>2
  <2> QED
    BY <2>1, <2>2
<1>6. Lists(u, S \cup T)
  BY <1>2, <1>4, <1>5 DEF Lists
<1> QED
  BY <1>6 DEF u

\* The visible applications, and those of them below a node and below none.
VisibleApps == {item \in Graph!VisibleNodes : item.type # "node"}
Below(n) == {app \in VisibleApps :
                Graph!HostList(app.id) # <<>> /\ Graph!HostList(app.id)[1] = n}
BelowNone == {app \in VisibleApps : Graph!HostList(app.id) = <<>>}
InSight == {n \in input.nodes : Graph!K8sNode(n) \in Graph!VisibleNodes}

LEMMA ListsRange ==
    ASSUME NEW s, NEW S, Lists(s, S)
    PROVE  Graph!ToSet(s) = S
<1>1. \A i \in DOMAIN s : s[i] \in S
  BY DEF Lists
<1> QED
  BY <1>1 DEF Lists, Graph!ToSet

\* A list of names, as nodes of the picture.
LEMMA NamesAreListed ==
    /\ Lists([i \in DOMAIN ServerList |-> Graph!Server(ServerList[i])],
             {Graph!Server(s) : s \in Graph!ToSet(ServerList)})
    /\ Lists([i \in DOMAIN ProxyList |-> Graph!Proxy(ProxyList[i])],
             {Graph!Proxy(p) : p \in Graph!ToSet(ProxyList)})
    /\ Lists(NodeList, Graph!ToSet(NodeList))
<1>1. ASSUME NEW seq \in {ServerList, ProxyList, NodeList}
      PROVE  /\ DOMAIN seq = 1 .. Len(seq) /\ Len(seq) \in Nat /\ Once(seq)
             /\ seq \in Seq(Graph!ToSet(seq))
             /\ Graph!ToSet(seq) = {seq[i] : i \in DOMAIN seq}
  <2>1. Graph!ToSet(seq) = {seq[i] : i \in DOMAIN seq}
    BY DEF Graph!ToSet
  <2>2. seq \in Seq({seq[i] : i \in DOMAIN seq}) /\ Once(seq)
    BY ListsAssumption DEF Once
  <2> QED
    BY <2>1, <2>2
<1>2. Lists([i \in DOMAIN ServerList |-> Graph!Server(ServerList[i])],
             {Graph!Server(s) : s \in Graph!ToSet(ServerList)})
  <2> DEFINE seq == [i \in DOMAIN ServerList |-> Graph!Server(ServerList[i])]
             S == {Graph!Server(s) : s \in Graph!ToSet(ServerList)}
  <2>1. seq \in Seq(S)
    BY <1>1
  <2>2. Once(seq)
    BY <1>1 DEF Once, Graph!Server
  <2>3. \A x \in S : \E i \in DOMAIN seq : seq[i] = x
    BY <1>1
  <2> QED
    BY <2>1, <2>2, <2>3 DEF Lists
<1>3. Lists([i \in DOMAIN ProxyList |-> Graph!Proxy(ProxyList[i])],
             {Graph!Proxy(p) : p \in Graph!ToSet(ProxyList)})
  <2> DEFINE seq == [i \in DOMAIN ProxyList |-> Graph!Proxy(ProxyList[i])]
             S == {Graph!Proxy(p) : p \in Graph!ToSet(ProxyList)}
  <2>1. seq \in Seq(S)
    BY <1>1
  <2>2. Once(seq)
    BY <1>1 DEF Once, Graph!Proxy
  <2>3. \A x \in S : \E i \in DOMAIN seq : seq[i] = x
    BY <1>1
  <2> QED
    BY <2>1, <2>2, <2>3 DEF Lists
<1>4. Lists(NodeList, Graph!ToSet(NodeList))
  BY <1>1 DEF Lists
<1> QED
  BY <1>2, <1>3, <1>4

LEMMA AppsAreListed == Lists(Graph!Apps, VisibleApps)
<1> DEFINE Servers == {Graph!Server(s) : s \in Graph!ToSet(ServerList)}
           Proxies == {Graph!Proxy(p) : p \in Graph!ToSet(ProxyList)}
<1>1. Lists(Graph!Apps, (Servers \cap Graph!VisibleNodes) \cup (Proxies \cap Graph!VisibleNodes))
  <2>1. Servers \cap Proxies = {}
    BY DEF Graph!Server, Graph!Proxy
  <2>2. (Servers \cap Graph!VisibleNodes) \cap (Proxies \cap Graph!VisibleNodes) = {}
    BY <2>1
  <2> HIDE DEF Servers, Proxies
  <2> QED
    BY <2>2, NamesAreListed, KeptLists, ConcatLists DEF Graph!Apps, Servers, Proxies
<1>2. (Servers \cap Graph!VisibleNodes) \cup (Proxies \cap Graph!VisibleNodes) = VisibleApps
  <2>1. \A x \in Graph!Nodes : x.type # "node" <=> x \in Servers \cup Proxies
    BY DEF Graph!Nodes, Graph!Server, Graph!Proxy, Graph!K8sNode
  <2> QED
    BY <2>1 DEF VisibleApps, Graph!VisibleNodes
<1> QED
  BY <1>1, <1>2

LEMMA GroupsAreListed ==
    /\ \A n : Lists(Graph!Group(n), Below(n))
    /\ Lists(Graph!Orphans, BelowNone)
<1>1. Graph!ToSet(Graph!Apps) = VisibleApps
  BY AppsAreListed, ListsRange
<1>2. ASSUME NEW n PROVE Lists(Graph!Group(n), Below(n))
  <2>1. Graph!Group(n) = Graph!Kept(Graph!Apps, Below(n))
    BY <1>1 DEF Graph!Group, Below
  <2>2. VisibleApps \cap Below(n) = Below(n)
    BY DEF Below
  <2> QED
    BY <2>1, <2>2, KeptLists, AppsAreListed
<1>3. Lists(Graph!Orphans, BelowNone)
  <2>1. Graph!Orphans = Graph!Kept(Graph!Apps, BelowNone)
    BY <1>1 DEF Graph!Orphans, BelowNone
  <2>2. VisibleApps \cap BelowNone = BelowNone
    BY DEF BelowNone
  <2> QED
    BY <2>1, <2>2, KeptLists, AppsAreListed
<1> QED
  BY <1>2, <1>3

LEMMA ColumnsAreListed ==
    ASSUME Graph!TypeOK
    PROVE  Lists(Graph!Columns, InSight)
<1> DEFINE Used == {n \in InSight : Graph!Group(n) # <<>>}
           Rest == {n \in InSight : Graph!Group(n) = <<>>}
<1>1. InSight \subseteq Graph!ToSet(NodeList)
  BY DEF InSight, Graph!TypeOK, Graph!Inputs
<1>2. Graph!ToSet(NodeList) \cap Used = Used /\ Graph!ToSet(NodeList) \cap Rest = Rest
  BY <1>1
<1>3. Used \cap Rest = {} /\ Used \cup Rest = InSight
  OBVIOUS
<1>4. Graph!Columns = Graph!Kept(NodeList, Used) \o Graph!Kept(NodeList, Rest)
  BY DEF Graph!Columns, InSight
<1> HIDE DEF Used, Rest
<1>5. Lists(Graph!Kept(NodeList, Used), Used) /\ Lists(Graph!Kept(NodeList, Rest), Rest)
  BY <1>2, NamesAreListed, KeptLists
<1> QED
  BY <1>3, <1>4, <1>5, ConcatLists

-----------------------------------------------------------------------------
\* The columns are as wide as their groups, and stand side by side.
Width(c) == Graph!ColumnWidth(Graph!Columns[c])

LEMMA WidthIs ==
    ASSUME Graph!TypeOK, NEW c \in DOMAIN Graph!Columns
    PROVE  LET group == Graph!Group(Graph!Columns[c]) IN
           /\ Len(group) \in Nat /\ DOMAIN group = 1 .. Len(group)
           /\ Width(c) = IF Len(group) > 1 THEN Len(group) * 320 ELSE 320
           /\ Width(c) \in Nat
<1> DEFINE group == Graph!Group(Graph!Columns[c])
<1>1. Len(group) \in Nat /\ DOMAIN group = 1 .. Len(group)
  BY GroupsAreListed DEF Lists
<1>2. Width(c) = IF Len(group) > 1 THEN Len(group) * 320 ELSE 320
  BY DEF Width, Graph!ColumnWidth, Graph!NodeWidth
<1> HIDE DEF group
<1>3. Width(c) \in Nat
  BY <1>1, <1>2
<1> QED
  BY <1>1, <1>2, <1>3 DEF group

LEMMA LeftIs ==
    ASSUME Graph!TypeOK
    PROVE  /\ Graph!Left[1] = 0
           /\ \A c \in DOMAIN Graph!Columns :
                Graph!Left[c + 1] = Graph!Left[c] + Width(c) + 350
<1> DEFINE last == Len(Graph!Columns)
           Step(f, i) == IF i = 1 THEN 0 ELSE f[i - 1] + Width(i - 1) + 350
           Total(f, n) == f = [i \in 1 .. n + 1 |-> Step(f, i)]
<1>1. last \in Nat /\ DOMAIN Graph!Columns = 1 .. last
  BY ColumnsAreListed DEF Lists
<1>2. Graph!Left = CHOOSE f : Total(f, last)
  BY DEF Graph!Left, Width, Graph!Spacing
<1>3. \A n \in Nat : \E f : Total(f, n)
  <2> DEFINE T == {n \in Nat : \E f : Total(f, n)}
  <2>1. 0 \in T
    <3> DEFINE f == [i \in 1 .. 1 |-> 0]
    <3>1. Total(f, 0)
      OBVIOUS
    <3> QED
      BY <3>1
  <2>2. ASSUME NEW n \in Nat, n \in T PROVE n + 1 \in T
    <3>1. PICK f : Total(f, n)
      BY <2>2
    <3> DEFINE g == [i \in 1 .. (n + 1) + 1 |-> IF i = n + 2 THEN Step(f, i) ELSE f[i]]
    <3>2. \A i \in 1 .. n + 1 : g[i] = f[i]
      OBVIOUS
    <3>3. \A i \in 1 .. (n + 1) + 1 : g[i] = Step(g, i)
      <4> TAKE i \in 1 .. (n + 1) + 1
      <4>1. CASE i \in 1 .. n + 1
        <5>1. f[i] = Step(f, i)
          <6> HIDE DEF Step
          <6> QED
            BY <4>1, <3>1
        <5>2. g[i] = f[i] /\ (i # 1 => g[i - 1] = f[i - 1])
          <6> HIDE DEF g
          <6> QED
            BY <4>1, <3>2
        <5> HIDE DEF g
        <5> QED
          BY <5>1, <5>2
      <4>2. CASE i = n + 2
        <5>1. g[i] = Step(f, i) /\ g[i - 1] = f[i - 1]
          BY <4>2, <3>2
        <5> QED
          BY <5>1
      <4> QED
        BY <4>1, <4>2
    <3>4. Total(g, n + 1)
      <4> HIDE DEF Step
      <4> QED
        BY <3>3
    <3> HIDE DEF Total, g
    <3> QED
      BY <3>4
  <2> QED
    <3> HIDE DEF Total
    <3>1. \A n \in Nat : n \in T
      BY <2>1, <2>2, Induction
    <3> QED
      BY <3>1
<1>4. Total(Graph!Left, last)
  <2> HIDE DEF Total
  <2> QED
    BY <1>1, <1>2, <1>3
<1>5. \A i \in 1 .. last + 1 : Graph!Left[i] = Step(Graph!Left, i)
  <2> HIDE DEF Step
  <2> QED
    BY <1>4
<1>6. Graph!Left[1] = 0
  BY <1>1, <1>5
<1>7. ASSUME NEW c \in DOMAIN Graph!Columns
      PROVE  Graph!Left[c + 1] = Graph!Left[c] + Width(c) + 350
  <2>1. c \in Nat /\ c + 1 \in 1 .. last + 1 /\ c + 1 # 1 /\ (c + 1) - 1 = c
    BY <1>1
  <2> QED
    BY <2>1, <1>5
<1> QED
  BY <1>6, <1>7

LEMMA ColumnsAreApart ==
    ASSUME Graph!TypeOK
    PROVE  /\ \A c \in 1 .. Len(Graph!Columns) + 1 : Graph!Left[c] \in Nat
           /\ \A c \in DOMAIN Graph!Columns : \A d \in 1 .. Len(Graph!Columns) + 1 :
                c < d => Graph!Left[c] + Width(c) + 350 <= Graph!Left[d]
<1> DEFINE last == Len(Graph!Columns)
           left == Graph!Left
           Good(n) ==
               /\ \A c \in 1 .. n + 1 : left[c] \in Nat
               /\ \A c \in 1 .. n : left[c] + Width(c) + 350 <= left[n + 1]
           T == {n \in Nat : n <= last => Good(n)}
<1>1. last \in Nat /\ DOMAIN Graph!Columns = 1 .. last
  BY ColumnsAreListed DEF Lists
<1>2. left[1] = 0 /\ \A c \in 1 .. last : left[c + 1] = left[c] + Width(c) + 350
  BY <1>1, LeftIs
<1>3. \A c \in 1 .. last : Width(c) \in Nat
  BY <1>1, WidthIs
<1> HIDE DEF last, left
<1>4. 0 \in T
  BY <1>2
<1>5. ASSUME NEW n \in Nat, n \in T PROVE n + 1 \in T
  <2> SUFFICES ASSUME n + 1 <= last PROVE Good(n + 1)
    OBVIOUS
  <2>1. n + 1 \in 1 .. last /\ Good(n)
    BY <1>1, <1>5
  <2>2. left[(n + 1) + 1] = left[n + 1] + Width(n + 1) + 350 /\ Width(n + 1) \in Nat
    BY <2>1, <1>2, <1>3
  <2>3. ASSUME NEW c \in 1 .. n + 1 PROVE left[c] + Width(c) + 350 <= left[(n + 1) + 1]
    <3>1. CASE c = n + 1
      BY <3>1, <2>1, <2>2
    <3>2. CASE c \in 1 .. n
      <4>1. left[c] + Width(c) + 350 <= left[n + 1]
        BY <3>2, <2>1
      <4>2. c \in 1 .. last /\ Width(c) \in Nat
        BY <3>2, <2>1, <1>1, <1>3
      <4>3. left[c] \in Nat /\ left[n + 1] \in Nat
        BY <3>2, <2>1
      <4> QED
        BY <4>1, <4>2, <4>3, <2>1, <2>2
    <3> QED
      BY <3>1, <3>2
  <2>4. \A c \in 1 .. (n + 1) + 1 : left[c] \in Nat
    BY <2>1, <2>2
  <2> QED
    BY <2>3, <2>4
<1>6. \A n \in Nat : n \in T
  <2> HIDE DEF Good
  <2> QED
    BY <1>4, <1>5, Induction
<1>7. ASSUME NEW d \in 1 .. last + 1
      PROVE  left[d] \in Nat /\ \A c \in 1 .. last : c < d => left[c] + Width(c) + 350 <= left[d]
  <2>1. d - 1 \in Nat /\ d - 1 <= last /\ (d - 1) + 1 = d
    BY <1>1
  <2>2. Good(d - 1)
    <3> HIDE DEF Good
    <3> QED
      BY <2>1, <1>6
  <2> QED
    BY <2>1, <2>2, <1>1
<1> QED
  BY <1>1, <1>7 DEF last, left

-----------------------------------------------------------------------------
\* Where a node of the picture stands: at the top of its column, below the node
\* of a column, or to the right of all columns.
OnTop(a) == \E c \in DOMAIN Graph!Columns :
    /\ a.item = Graph!K8sNode(Graph!Columns[c]) /\ a.y = 0
    /\ a.x = Graph!Left[c] + Width(c) \div 2
Beneath(a, c) == \E i \in DOMAIN Graph!Group(Graph!Columns[c]) :
    /\ a.item = Graph!Group(Graph!Columns[c])[i] /\ a.y = 1
    /\ a.x = Graph!Left[c] + 160 + (i - 1) * 320
Aside(a) == \E i \in DOMAIN Graph!Orphans :
    /\ a.item = Graph!Orphans[i] /\ a.y = 1
    /\ a.x = Graph!Left[Len(Graph!Columns) + 1] + (i - 1) * 320

LEMMA WherePlacesAre ==
    ASSUME Graph!TypeOK
    PROVE  \A a : a \in Graph!Places <=>
               /\ a = [item |-> a.item, x |-> a.x, y |-> a.y]
               /\ OnTop(a) \/ (\E c \in DOMAIN Graph!Columns : Beneath(a, c)) \/ Aside(a)
<1> TAKE a
<1>1. \A c \in DOMAIN Graph!Columns : Graph!Center(c) = Graph!Left[c] + Width(c) \div 2
  BY DEF Graph!Center, Width
<1>2. a \in {Graph!At(Graph!K8sNode(Graph!Columns[c]), Graph!Center(c), 0) :
               c \in DOMAIN Graph!Columns}
      <=> a = [item |-> a.item, x |-> a.x, y |-> a.y] /\ OnTop(a)
  BY <1>1 DEF OnTop, Graph!At
<1>3. ASSUME NEW c \in DOMAIN Graph!Columns
      PROVE  a \in Graph!GroupPlaces(c)
             <=> a = [item |-> a.item, x |-> a.x, y |-> a.y] /\ Beneath(a, c)
  <2> DEFINE group == Graph!Group(Graph!Columns[c])
             start == Graph!Center(c) - (Len(group) * 320) \div 2 + 320 \div 2
  <2>1. Graph!GroupPlaces(c) = {Graph!At(group[i], start + (i - 1) * 320, 1) : i \in DOMAIN group}
    BY DEF Graph!GroupPlaces, Graph!NodeWidth
  <2>2. /\ Len(group) \in Nat /\ DOMAIN group = 1 .. Len(group)
        /\ Width(c) = IF Len(group) > 1 THEN Len(group) * 320 ELSE 320
    BY WidthIs
  <2>3. Graph!Left[c] \in Nat
    BY ColumnsAreApart, ColumnsAreListed DEF Lists
  <2> HIDE DEF group
  <2>4. ASSUME NEW i \in DOMAIN group PROVE start = Graph!Left[c] + 160
    <3>1. Len(group) >= 1
      BY <2>2
    <3>2. Width(c) = Len(group) * 320
      BY <3>1, <2>2
    <3> QED
      BY <3>2, <2>2, <2>3, <1>1
  <2> HIDE DEF start
  <2> QED
    BY <2>1, <2>4 DEF Beneath, group, Graph!At
<1>4. a \in Graph!OrphanPlaces
      <=> a = [item |-> a.item, x |-> a.x, y |-> a.y] /\ Aside(a)
  BY DEF Graph!OrphanPlaces, Graph!At, Graph!NodeWidth, Aside
<1> QED
  BY <1>2, <1>3, <1>4 DEF Graph!Places

\* Two nodes of a row do not overlap.
LEMMA NodesAreApart == Graph!TypeOK => Graph!NothingOverlaps
<1> SUFFICES ASSUME Graph!TypeOK, NEW a \in Graph!Places, NEW b \in Graph!Places,
                    a # b, a.y = b.y
             PROVE  a.x - b.x >= 320 \/ b.x - a.x >= 320
  BY DEF Graph!NothingOverlaps, Graph!NodeWidth
<1> DEFINE last == Len(Graph!Columns)
           left == Graph!Left
<1>1. last \in Nat /\ DOMAIN Graph!Columns = 1 .. last
  BY ColumnsAreListed DEF Lists
<1>2. /\ \A c \in 1 .. last + 1 : left[c] \in Nat
      /\ \A c \in 1 .. last : \A d \in 1 .. last + 1 : c < d => left[c] + Width(c) + 350 <= left[d]
  BY <1>1, ColumnsAreApart
<1>3. a = [item |-> a.item, x |-> a.x, y |-> a.y] /\ b = [item |-> b.item, x |-> b.x, y |-> b.y]
  BY WherePlacesAre
<1>4. /\ OnTop(a) \/ (\E c \in 1 .. last : Beneath(a, c)) \/ Aside(a)
      /\ OnTop(b) \/ (\E c \in 1 .. last : Beneath(b, c)) \/ Aside(b)
  BY <1>1, WherePlacesAre
<1>5. \A c \in 1 .. last : Width(c) \in Nat /\ Width(c) >= 320
  BY <1>1, WidthIs
<1> HIDE DEF last, left
<1>6. CASE OnTop(a) /\ OnTop(b)
  <2>1. PICK c \in 1 .. last : a.item = Graph!K8sNode(Graph!Columns[c]) /\ a.x = left[c] + Width(c) \div 2
    BY <1>1, <1>6 DEF OnTop, left
  <2>2. PICK d \in 1 .. last : b.item = Graph!K8sNode(Graph!Columns[d]) /\ b.x = left[d] + Width(d) \div 2
    BY <1>1, <1>6 DEF OnTop, left
  <2>3. c # d
    BY <2>1, <2>2, <1>3
  <2>4. c < d \/ d < c
    BY <2>3
  <2>5. /\ c < d => left[c] + Width(c) + 350 <= left[d]
        /\ d < c => left[d] + Width(d) + 350 <= left[c]
        /\ left[c] \in Nat /\ left[d] \in Nat
        /\ Width(c) \in Nat /\ Width(c) >= 320 /\ Width(d) \in Nat /\ Width(d) >= 320
    BY <1>1, <1>2, <1>5
  <2> QED
    BY <2>1, <2>2, <2>4, <2>5
\* An application of a column stays within its width.
<1>7. ASSUME NEW p, NEW c \in 1 .. last, Beneath(p, c)
      PROVE  p.x \in Nat /\ left[c] + 160 <= p.x /\ p.x + 160 <= left[c] + Width(c)
  <2>1. PICK i \in DOMAIN Graph!Group(Graph!Columns[c]) : p.x = left[c] + 160 + (i - 1) * 320
    BY <1>7 DEF Beneath, left
  <2> DEFINE size == Len(Graph!Group(Graph!Columns[c]))
  <2>2. i \in 1 .. size /\ size \in Nat /\ Width(c) = IF size > 1 THEN size * 320 ELSE 320
    BY <1>1, WidthIs
  <2> HIDE DEF size
  <2>3. left[c] \in Nat
    BY <1>1, <1>2
  <2> QED
    BY <2>1, <2>2, <2>3
<1>8. ASSUME NEW p, NEW q, NEW c \in 1 .. last, NEW d \in 1 .. last, Beneath(p, c), Beneath(q, d),
             c < d
      PROVE  q.x - p.x >= 320
  <2>1. left[c] + Width(c) + 350 <= left[d]
    BY <1>1, <1>2, <1>8
  <2>2. p.x + 160 <= left[c] + Width(c) /\ left[d] + 160 <= q.x /\ p.x \in Nat /\ q.x \in Nat
    BY <1>7, <1>8
  <2>3. left[c] \in Nat /\ left[d] \in Nat /\ Width(c) \in Nat
    BY <1>1, <1>2, <1>5
  <2> QED
    BY <2>1, <2>2, <2>3
<1>9. ASSUME NEW c \in 1 .. last, Beneath(a, c), Beneath(b, c)
      PROVE  a.x - b.x >= 320 \/ b.x - a.x >= 320
  <2> DEFINE group == Graph!Group(Graph!Columns[c])
  <2>1. PICK i \in DOMAIN group : a.item = group[i] /\ a.x = left[c] + 160 + (i - 1) * 320
    BY <1>9 DEF Beneath, left
  <2>2. PICK j \in DOMAIN group : b.item = group[j] /\ b.x = left[c] + 160 + (j - 1) * 320
    BY <1>9 DEF Beneath, left
  <2>3. i \in Nat /\ j \in Nat /\ left[c] \in Nat
    BY <1>1, <1>2, WidthIs
  <2>4. i # j
    BY <2>1, <2>2, <1>3
  <2> QED
    BY <2>1, <2>2, <2>3, <2>4
<1>10. ASSUME NEW p, NEW q, NEW c \in 1 .. last, Beneath(p, c), Aside(q)
       PROVE  q.x - p.x >= 320
  <2>1. PICK i \in DOMAIN Graph!Orphans : q.x = left[last + 1] + (i - 1) * 320
    BY <1>10 DEF Aside, left, last
  <2>2. i \in Nat /\ i >= 1
    BY GroupsAreListed DEF Lists
  <2>3. left[c] + Width(c) + 350 <= left[last + 1] /\ left[c] \in Nat /\ left[last + 1] \in Nat
        /\ Width(c) \in Nat
    BY <1>1, <1>2, <1>5
  <2>4. p.x + 160 <= left[c] + Width(c) /\ p.x \in Nat
    BY <1>7, <1>10
  <2> QED
    BY <2>1, <2>2, <2>3, <2>4
<1>11. CASE Aside(a) /\ Aside(b)
  <2>1. PICK i \in DOMAIN Graph!Orphans :
            a.item = Graph!Orphans[i] /\ a.x = left[last + 1] + (i - 1) * 320
    BY <1>11 DEF Aside, left, last
  <2>2. PICK j \in DOMAIN Graph!Orphans :
            b.item = Graph!Orphans[j] /\ b.x = left[last + 1] + (j - 1) * 320
    BY <1>11 DEF Aside, left, last
  <2>3. i \in Nat /\ j \in Nat /\ left[last + 1] \in Nat
    BY <1>1, <1>2, GroupsAreListed DEF Lists
  <2>4. i # j
    BY <2>1, <2>2, <1>3
  <2> QED
    BY <2>1, <2>2, <2>3, <2>4
<1>12. /\ OnTop(a) => a.y = 0 /\ OnTop(b)
       /\ OnTop(b) => b.y = 0 /\ OnTop(a)
  BY <1>4 DEF OnTop, Beneath, Aside
<1>13. ASSUME NEW c \in 1 .. last, NEW d \in 1 .. last, Beneath(a, c), Beneath(b, d)
       PROVE  a.x - b.x >= 320 \/ b.x - a.x >= 320
  <2>1. CASE c = d
    BY <2>1, <1>9, <1>13
  <2>2. CASE c < d
    BY <2>2, <1>8, <1>13
  <2>3. CASE d < c
    BY <2>3, <1>8, <1>13
  <2> QED
    BY <2>1, <2>2, <2>3
<1> QED
  BY <1>4, <1>6, <1>10, <1>11, <1>12, <1>13

\* What passes the filters is drawn once, but for an application whose node is not.
LEMMA NodesAreDrawn == Graph!TypeOK => Graph!NothingIsLost
<1> SUFFICES ASSUME Graph!TypeOK, NEW item \in Graph!VisibleNodes
             PROVE  \/ Cardinality({a \in Graph!Places : a.item = item}) = 1
                    \/ /\ Cardinality({a \in Graph!Places : a.item = item}) = 0
                       /\ item.type # "node" /\ Graph!HostList(item.id) # <<>>
                       /\ Graph!K8sNode(Graph!HostList(item.id)[1]) \notin Graph!VisibleNodes
  <2>1. \A S : Graph!Cardinality(S) = Cardinality(S)
    BY DEF Graph!Cardinality, Cardinality
  <2> QED
    BY <2>1 DEF Graph!NothingIsLost
<1> DEFINE P == {a \in Graph!Places : a.item = item}
           Once1 == \E a \in P : \A b \in P : a = b
\* The items of each kind of place.
<1>1. \A a \in Graph!Places :
        /\ a = [item |-> a.item, x |-> a.x, y |-> a.y]
        /\ OnTop(a) \/ (\E c \in DOMAIN Graph!Columns : Beneath(a, c)) \/ Aside(a)
  BY WherePlacesAre
<1>2. /\ Lists(Graph!Columns, InSight) /\ (\A n : Lists(Graph!Group(n), Below(n)))
      /\ Lists(Graph!Orphans, BelowNone)
  BY ColumnsAreListed, GroupsAreListed
<1>3. ASSUME NEW a, OnTop(a) PROVE a.item.type = "node"
  BY <1>3 DEF OnTop, Graph!K8sNode
<1>4. ASSUME NEW a, NEW c \in DOMAIN Graph!Columns, Beneath(a, c)
      PROVE  a.item \in Below(Graph!Columns[c])
  BY <1>2, <1>4 DEF Beneath, Lists
<1>5. ASSUME NEW a, Aside(a) PROVE a.item \in BelowNone
  BY <1>2, <1>5 DEF Aside, Lists
<1>6. Once1 => Cardinality(P) = 1
  <2> SUFFICES ASSUME NEW a \in P, \A b \in P : a = b PROVE Cardinality(P) = 1
    OBVIOUS
  <2>1. P = {a}
    OBVIOUS
  <2> HIDE DEF P
  <2> QED
    BY <2>1, FS_Singleton
<1>7. \A n : Graph!K8sNode(n) \in Graph!VisibleNodes => n \in InSight
  BY DEF InSight, Graph!VisibleNodes, Graph!Nodes, Graph!K8sNode, Graph!Server, Graph!Proxy
<1>8. CASE item.type = "node"
  <2>1. PICK n \in InSight : item = Graph!K8sNode(n)
    <3>1. item \in Graph!Nodes
      BY DEF Graph!VisibleNodes
    <3>2. PICK n : item = Graph!K8sNode(n)
      BY <3>1, <1>8 DEF Graph!Nodes, Graph!Server, Graph!Proxy
    <3> QED
      BY <3>2, <1>7
  <2>2. PICK c \in DOMAIN Graph!Columns : Graph!Columns[c] = n
    BY <1>2 DEF Lists
  <2> DEFINE p == [item |-> item, x |-> Graph!Left[c] + Width(c) \div 2, y |-> 0]
  <2>3. OnTop(p)
    BY <2>1, <2>2 DEF OnTop
  <2>4. p \in Graph!Places
    BY <2>3, WherePlacesAre
  <2>5. ASSUME NEW b \in P PROVE p = b
    <3>1. OnTop(b)
      BY <1>1, <1>4, <1>5, <1>8 DEF Below, BelowNone, VisibleApps
    <3>2. PICK d \in DOMAIN Graph!Columns :
              b.item = Graph!K8sNode(Graph!Columns[d]) /\ b.y = 0 /\ b.x = Graph!Left[d] + Width(d) \div 2
      BY <3>1 DEF OnTop
    <3>3. Graph!Columns[d] = n
      BY <3>2, <2>1 DEF Graph!K8sNode
    <3>4. c = d
      BY <3>3, <2>2, <1>2 DEF Lists, Once
    <3> QED
      BY <3>2, <3>4, <1>1
  <2>6. p \in P
    BY <2>4
  <2> HIDE DEF p, P
  <2> QED
    BY <2>5, <2>6, <1>6 DEF P
<1>9. CASE item \in BelowNone
  <2>1. PICK i \in DOMAIN Graph!Orphans : Graph!Orphans[i] = item
    BY <1>2, <1>9 DEF Lists
  <2> DEFINE p == [item |-> item, x |-> Graph!Left[Len(Graph!Columns) + 1] + (i - 1) * 320, y |-> 1]
  <2>2. Aside(p)
    BY <2>1 DEF Aside
  <2>3. p \in Graph!Places
    BY <2>2, WherePlacesAre
  <2>4. ASSUME NEW b \in P PROVE p = b
    <3>1. Aside(b)
      BY <1>1, <1>3, <1>4, <1>9 DEF Below, BelowNone, VisibleApps
    <3>2. PICK j \in DOMAIN Graph!Orphans :
              b.item = Graph!Orphans[j] /\ b.y = 1
              /\ b.x = Graph!Left[Len(Graph!Columns) + 1] + (j - 1) * 320
      BY <3>1 DEF Aside
    <3>3. i = j
      BY <3>2, <2>1, <1>2 DEF Lists, Once
    <3> QED
      BY <3>2, <3>3, <1>1
  <2>5. p \in P
    BY <2>3
  <2> HIDE DEF p, P
  <2> QED
    BY <2>4, <2>5, <1>6 DEF P
<1>10. CASE item.type # "node" /\ Graph!HostList(item.id) # <<>>
  <2> DEFINE n == Graph!HostList(item.id)[1]
  <2>1. item \in Below(n)
    BY <1>10 DEF Below, VisibleApps
  <2>2. CASE Graph!K8sNode(n) \in Graph!VisibleNodes
    <3>1. PICK c \in DOMAIN Graph!Columns : Graph!Columns[c] = n
      BY <2>2, <1>2, <1>7 DEF Lists
    <3>2. PICK i \in DOMAIN Graph!Group(n) : Graph!Group(n)[i] = item
      BY <2>1, <1>2 DEF Lists
    <3> DEFINE p == [item |-> item, x |-> Graph!Left[c] + 160 + (i - 1) * 320, y |-> 1]
    <3>3. Beneath(p, c)
      BY <3>1, <3>2 DEF Beneath
    <3>4. p \in P
      BY <3>3, WherePlacesAre
    <3>5. ASSUME NEW b \in P PROVE p = b
      <4>1. PICK d \in DOMAIN Graph!Columns : Beneath(b, d)
        BY <1>1, <1>3, <1>5, <1>10 DEF BelowNone
      <4>2. Graph!Columns[d] = n
        BY <4>1, <1>4 DEF Below
      <4>3. c = d
        BY <4>2, <3>1, <1>2 DEF Lists, Once
      <4>4. PICK j \in DOMAIN Graph!Group(n) :
                b.item = Graph!Group(n)[j] /\ b.y = 1 /\ b.x = Graph!Left[c] + 160 + (j - 1) * 320
        BY <4>1, <4>2, <4>3 DEF Beneath
      <4>5. i = j
        BY <4>4, <3>2, <1>2 DEF Lists, Once
      <4> QED
        BY <4>4, <4>5, <1>1
    <3> HIDE DEF p, P
    <3> QED
      BY <3>4, <3>5, <1>6 DEF P
  <2>3. CASE Graph!K8sNode(n) \notin Graph!VisibleNodes
    <3>1. ASSUME NEW b \in P PROVE FALSE
      <4>1. PICK d \in DOMAIN Graph!Columns : Beneath(b, d)
        BY <1>1, <1>3, <1>5, <1>10 DEF BelowNone
      <4>2. Graph!Columns[d] = n
        BY <4>1, <1>4 DEF Below
      <4>3. Graph!Columns[d] \in InSight
        BY <1>2 DEF Lists
      <4> QED
        BY <4>2, <4>3, <2>3 DEF InSight
    <3>2. P = {}
      BY <3>1
    <3>3. Cardinality(P) = 0
      BY <3>2, FS_EmptySet
    <3> QED
      BY <3>3, <2>3, <1>10
  <2> QED
    BY <2>2, <2>3
<1>11. item \in BelowNone \/ item.type = "node" \/ Graph!HostList(item.id) # <<>>
  BY DEF BelowNone, VisibleApps
<1> QED
  BY <1>8, <1>9, <1>10, <1>11

-----------------------------------------------------------------------------
GraphInv == Graph!TypeOK

LEMMA GraphStep == GraphInv /\ (Graph!Next \/ UNCHANGED Graph!vars) => GraphInv'
<1> SUFFICES ASSUME GraphInv, Graph!Next \/ UNCHANGED Graph!vars PROVE GraphInv'
  OBVIOUS
<1>1. CASE UNCHANGED Graph!vars
  BY <1>1 DEF Graph!vars, GraphInv, Graph!TypeOK
<1>2. ASSUME NEW filter \in Graph!Switches, Graph!Toggle(filter) PROVE GraphInv'
  BY <1>2 DEF Graph!Toggle, GraphInv, Graph!TypeOK
<1>3. ASSUME NEW id \in Query, Graph!Search(id) PROVE GraphInv'
  BY <1>3 DEF Graph!Search, GraphInv, Graph!TypeOK
<1> QED
  BY <1>1, <1>2, <1>3 DEF Graph!Next

LEMMA GraphInvariant == ConsoleSpec => [](part = "graph" => GraphInv)
<1>1. ConsoleInit => (part = "graph" => GraphInv)
  <2> SUFFICES ASSUME Graph!Init PROVE GraphInv
    BY Zenon DEF ConsoleInit
  <2> QED
    BY DEF Graph!Init, GraphInv, Graph!TypeOK, Graph!NoSearch, Graph!Switches
<1>2. (part = "graph" => GraphInv) /\ [ConsoleNext]_consoleVars => (part = "graph" => GraphInv)'
  <2>1. ASSUME [ConsoleNext]_consoleVars
        PROVE  part' = part /\ (part = "graph" => Graph!Next \/ UNCHANGED Graph!vars)
    BY <2>1 DEF ConsoleNext, consoleVars, graphVars, Graph!vars
  <2> QED
    BY <2>1, GraphStep
<1> QED
  BY <1>1, <1>2, PTL DEF ConsoleSpec

\* The picture is whole: its lines have ends, no two nodes overlap, and what passes the
\* filters is drawn once, for every backend, cluster and filter.
THEOREM ThePictureIsWhole == ConsoleSpec => []PictureIsWhole
<1>1. ASSUME GraphInv PROVE Graph!PictureIsWhole
  BY <1>1, LinesHaveEnds, NodesAreApart, NodesAreDrawn DEF GraphInv, Graph!PictureIsWhole
<1>2. (part = "graph" => GraphInv) => PictureIsWhole
  BY <1>1 DEF PictureIsWhole
<1> QED
  BY <1>2, GraphInvariant, PTL

-----------------------------------------------------------------------------
(* The type of every part.                                                  *)

LEMMA FormInvariant == ConsoleSpec => [](part = "form" => FormInv)
<1>1. ConsoleInit => (part = "form" => FormInv)
  BY FormBegins DEF ConsoleInit
<1>2. (part = "form" => FormInv) /\ [ConsoleNext]_consoleVars => (part = "form" => FormInv)'
  <2>1. ASSUME [ConsoleNext]_consoleVars
        PROVE  part' = part /\ (part = "form" => [Next]_vars)
    BY <2>1 DEF ConsoleNext, consoleVars
  <2> QED
    BY <2>1, FormStep
<1> QED
  BY <1>1, <1>2, PTL DEF ConsoleSpec

PartIsOne == part \in {"form", "users", "registry", "graph", "env", "manage"}

LEMMA PartStays == ConsoleSpec => []PartIsOne
<1>1. ConsoleInit => PartIsOne
  BY DEF ConsoleInit, PartIsOne
<1>2. PartIsOne /\ [ConsoleNext]_consoleVars => PartIsOne'
  BY EnvConsoleStep DEF PartIsOne
<1> QED
  BY <1>1, <1>2, PTL DEF ConsoleSpec

\* The state of the part that runs has its type, for any values of the constants.
THEOREM TheConsoleIsTyped == ConsoleSpec => []ConsoleTypeOK
<1>1. ASSUME FormInv PROVE TypeOK
  BY <1>1 DEF FormInv, TypeOK, RowFits, FormFits, SaveType
<1>2. ASSUME ManageInv PROVE Manage!TypeOK
  BY <1>2 DEF ManageInv, ManageFlags, ManageTables, CallType, Manage!TypeOK
<1>3. ASSUME UsersInv PROVE Users!TypeOK
  BY <1>3 DEF UsersInv, UsersTyped
<1>4. ASSUME RegistryInv PROVE Registry!TypeOK
  BY <1>4 DEF RegistryInv, RegistryTyped
<1>5. ASSUME EnvInvariant PROVE EnvTypeOK
  BY <1>5 DEF EnvInvariant
<1>6. ASSUME PartIsOne, EnvPart, part = "form" => FormInv, part = "users" => UsersInv,
             part = "registry" => RegistryInv, part = "graph" => GraphInv, part = "manage" => ManageInv
      PROVE  ConsoleTypeOK
  BY <1>1, <1>2, <1>3, <1>4, <1>5, <1>6 DEF ConsoleTypeOK, PartIsOne, EnvPart, GraphInv
<1> QED
  BY <1>6, EnvPartStays, PartStays, FormInvariant, UsersPageInvariant, RegistryPageInvariant,
     GraphInvariant, ManagePageInvariant, PTL
=============================================================================
