------------------------------- MODULE PodSpec -------------------------------
(***************************************************************************)
(* What the operator puts into the container it runs for a MinecraftServer *)
(* or a ReverseProxyServer: its memory, and the variables it manages, in    *)
(* the order in which it appends them.  PodEnv merges the user's into them. *)
(*                                                                         *)
(* A value is a number: 0 is the empty string, MEMORY is in MB, any other  *)
(* text is Text or one of the user's values.  A reference (valueFrom) is a *)
(* number too, 0 for none.  The operator computes the heap in int64 from   *)
(* int32 inputs, where nothing overflows.                                  *)
(***************************************************************************)
EXTENDS Integers, Sequences

CONSTANTS
    Name,   \* names of variables
    Specs,  \* the custom resources
    Extras  \* the lists of user variables (spec.env)

MinHeapMB == 256
DefaultMemoryLimitMB == 2048
DefaultHeapPercent == 60
Text == 1
Secret == 1

Kinds == {"server", "velocity", "bungeecord"}

\* optional: the optional fields that are set.
Options == {"motd", "levelSeed", "levelType", "opts", "useAikarFlags", "useMeowIceFlags",
            "apiKeySecretRef", "backendURL", "pluginURL"}

CustomResources == [kind : Kinds, optional : SUBSET Options, limit : Int, request : Int, percent : Int]

Entry == [name : Name, value : Int, from : Int]

-----------------------------------------------------------------------------
(* Memory                                                                  *)

\* The container's limit; 0 when the custom resource has no `resources`.
LimitMB(limit) == IF limit <= 0 THEN DefaultMemoryLimitMB ELSE limit

\* Mutant of RequestMB: a request above the limit is passed on.
RequestMB_Unclamped(limit, request) == IF request <= 0 THEN LimitMB(limit) ELSE request

\* The container's request.
RequestMB(limit, request) ==
    IF request <= 0 \/ request > LimitMB(limit) THEN LimitMB(limit) ELSE request

\* The Java heap.
HeapMB(limit, percent) ==
    LET share == IF percent <= 0 \/ percent > 100 THEN DefaultHeapPercent ELSE percent
        heap == (LimitMB(limit) * share) \div 100
    IN  IF heap < MinHeapMB THEN MinHeapMB ELSE heap

-----------------------------------------------------------------------------
(* The managed variables, in the order in which they are appended          *)

Plain(name) == <<[name |-> name, value |-> Text, from |-> 0]>>

When(option, s, name) == IF option \in s.optional THEN Plain(name) ELSE <<>>

JVMEnv(s) ==
    <<[name |-> "MEMORY", value |-> HeapMB(s.limit, s.percent), from |-> 0]>>
    \o When("opts", s, "JVM_OPTS")
    \o When("useAikarFlags", s, "USE_AIKAR_FLAGS")
    \o When("useMeowIceFlags", s, "USE_MEOWICE_FLAGS")

APIKeyEnv(s) ==
    IF "apiKeySecretRef" \in s.optional
    THEN <<[name |-> "MINIKURA_API_KEY", value |-> 0, from |-> Secret]>> ELSE <<>>

MinecraftEnv(s) ==
    Plain("EULA") \o Plain("TYPE") \o Plain("VERSION")
    \o Plain("OVERRIDE_SERVER_PROPERTIES") \o Plain("ENABLE_RCON") \o Plain("DIFFICULTY")
    \o Plain("MODE") \o Plain("MAX_PLAYERS") \o Plain("PVP") \o Plain("ONLINE_MODE")
    \o When("motd", s, "MOTD") \o When("levelSeed", s, "SEED")
    \o When("levelType", s, "LEVEL_TYPE")
    \o JVMEnv(s) \o APIKeyEnv(s)

Installs(s) == s.kind = "velocity" /\ "pluginURL" \in s.optional

ProxyEnv(s) ==
    Plain("TYPE") \o Plain("NETWORKADDRESS_CACHE_TTL") \o Plain("MINIKURA_EXTERNAL_ADDRESS")
    \o JVMEnv(s) \o APIKeyEnv(s)
    \o When("backendURL", s, "MINIKURA_API_URL")
    \o When("backendURL", s, "MINIKURA_WEBSOCKET_URL")
    \o (IF Installs(s) THEN Plain("PLUGINS") ELSE <<>>)

ManagedEnv(s) == IF s.kind = "server" THEN MinecraftEnv(s) ELSE ProxyEnv(s)

\* The names the user cannot set.
Protected(s) ==
    IF s.kind = "server" THEN {"EULA", "MINIKURA_API_KEY"}
    ELSE {"MINIKURA_API_KEY"}
         \cup (IF "backendURL" \in s.optional
               THEN {"MINIKURA_API_URL", "MINIKURA_WEBSOCKET_URL"} ELSE {})
         \cup (IF Installs(s) THEN {"PLUGINS"} ELSE {})

\* No name occurs twice.
Distinct(e) == \A i, j \in DOMAIN e : e[i].name = e[j].name => i = j

NamesOf(e) == {e[i].name : i \in DOMAIN e}

\* The names the operator may use.
ManagedNames ==
    {"EULA", "TYPE", "VERSION", "OVERRIDE_SERVER_PROPERTIES", "ENABLE_RCON", "DIFFICULTY", "MODE",
     "MAX_PLAYERS", "PVP", "ONLINE_MODE", "MOTD", "SEED", "LEVEL_TYPE",
     "NETWORKADDRESS_CACHE_TTL", "MINIKURA_EXTERNAL_ADDRESS",
     "MEMORY", "JVM_OPTS", "USE_AIKAR_FLAGS", "USE_MEOWICE_FLAGS", "MINIKURA_API_KEY",
     "MINIKURA_API_URL", "MINIKURA_WEBSOCKET_URL", "PLUGINS"}

ASSUME NamesAssumption == ManagedNames \subseteq Name
ASSUME SpecsAssumption == Specs \subseteq CustomResources
ASSUME ExtrasAssumption == Extras \subseteq Seq(Entry)

-----------------------------------------------------------------------------
(* The list of the container's variables, and what it must be while PodEnv *)
(* makes it.                                                               *)

VARIABLES
    spec,  \* the custom resource
    extra, \* its variables
    env,   \* the merged list (`base`)
    index, \* position by name, as a set of pairs (the map `index`)
    next   \* how far the loop is in extra

\* Server-side apply refuses a container in which a name occurs twice, whatever
\* names the user repeats or shares with the operator (common.go, 118-124).
NamesUnique == Distinct(env)

\* Kubernetes refuses a variable with a value and a reference: an override of a
\* managed secret clears the other one (common.go, 112-121).
OneSource == \A i \in DOMAIN env : env[i].value = 0 \/ env[i].from = 0

\* A protected name is never set by the user: what the operator does not set under it
\* stays unset (common.go, 109-111).
ProtectedKept ==
    \A i \in DOMAIN env :
        env[i].name \in Protected(spec)
            => i \in DOMAIN ManagedEnv(spec) /\ env[i] = ManagedEnv(spec)[i]

\* What Kubernetes accepts and the user cannot break, at every turn of the loop
\* (common.go, 108-126).
WellFormed == NamesUnique /\ OneSource /\ ProtectedKept
=============================================================================
