---------------------------- MODULE MCServerForm ----------------------------
(* An instance of ServerForm for TLC.                                       *)
EXTENDS ServerForm

\* At least one field of every way in which a setting is stored, and a variable
\* of the user's own.
VariedFields ==
    {"viewDistance", "ops", "allowFlight", "spawnAnimals", "levelSeed", "motd", "difficulty",
     "pvp", "useAikarFlags", "cpuLimit", "serviceType", "nodePort", "type", "version",
     "customJarUrl", "EXTRA"}
=============================================================================
