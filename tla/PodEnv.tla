------------------------------- MODULE PodEnv -------------------------------
(***************************************************************************)
(* UserEnv, the loop of the operator that merges the variables of a custom *)
(* resource into those it manages (PodSpec).  Server-side apply and the    *)
(* kubelet refuse or misread what it could get wrong: a name that occurs   *)
(* twice, a variable with both a value and a reference (PodSpec).          *)
(***************************************************************************)
EXTENDS PodSpec

envVars == <<spec, extra, env, index, next>>

EnvInit ==
    /\ spec \in Specs
    /\ extra \in Extras
    /\ env = ManagedEnv(spec)
    /\ index = {<<env[i].name, i>> : i \in DOMAIN env}
    /\ next = 1

\* What a user variable becomes: a reference wins over the value beside it.
Normal(e) ==
    [name |-> e.name, value |-> IF e.from # 0 THEN 0 ELSE e.value, from |-> e.from]

\* Mutant of Reserved: protected names are not looked up.
Reserved_None == FALSE

Reserved == extra[next].name \in Protected(spec)

\* Reserved names are passed over.
Skip ==
    /\ next <= Len(extra)
    /\ Reserved
    /\ next' = next + 1
    /\ UNCHANGED <<spec, extra, env, index>>

\* Mutant of Override: the first definition of a name stays.
Override_First ==
    /\ next <= Len(extra)
    /\ ~Reserved
    /\ \E i \in DOMAIN env : <<extra[next].name, i>> \in index
    /\ next' = next + 1
    /\ UNCHANGED <<spec, extra, env, index>>

\* Mutant of Override: a new value leaves the reference beside it.
Override_KeepsReference ==
    /\ next <= Len(extra)
    /\ ~Reserved
    /\ \E i \in DOMAIN env :
           /\ <<extra[next].name, i>> \in index
           /\ env' = [env EXCEPT ![i].value = Normal(extra[next]).value,
                                 ![i].from = IF extra[next].from # 0 THEN extra[next].from ELSE @]
    /\ next' = next + 1
    /\ UNCHANGED <<spec, extra, index>>

\* A name that is there already is set in place.
Override ==
    /\ next <= Len(extra)
    /\ ~Reserved
    /\ \E i \in DOMAIN env :
           /\ <<extra[next].name, i>> \in index
           /\ env' = [env EXCEPT ![i] = Normal(extra[next])]
    /\ next' = next + 1
    /\ UNCHANGED <<spec, extra, index>>

\* Mutant of Append: the new variable is not entered in the map.
Append_NoIndex ==
    /\ next <= Len(extra)
    /\ ~Reserved
    /\ ~ \E i \in DOMAIN env : <<extra[next].name, i>> \in index
    /\ env' = Append(env, Normal(extra[next]))
    /\ next' = next + 1
    /\ UNCHANGED <<spec, extra, index>>

\* Mutant of Append: the position is taken after the variable is appended.
Append_After ==
    /\ next <= Len(extra)
    /\ ~Reserved
    /\ ~ \E i \in DOMAIN env : <<extra[next].name, i>> \in index
    /\ index' = index \cup {<<extra[next].name, Len(env) + 2>>}
    /\ env' = Append(env, Normal(extra[next]))
    /\ next' = next + 1
    /\ UNCHANGED <<spec, extra>>

\* A new name goes to the end.
AppendNew ==
    /\ next <= Len(extra)
    /\ ~Reserved
    /\ ~ \E i \in DOMAIN env : <<extra[next].name, i>> \in index
    /\ index' = index \cup {<<extra[next].name, Len(env) + 1>>}
    /\ env' = Append(env, Normal(extra[next]))
    /\ next' = next + 1
    /\ UNCHANGED <<spec, extra>>

EnvNext == Skip \/ Override \/ AppendNew

EnvSpec == EnvInit /\ [][EnvNext]_envVars

-----------------------------------------------------------------------------
(* Properties                                                              *)

\* The type of the state; the map holds the position of every variable.
EnvTypeOK ==
    /\ spec \in Specs
    /\ extra \in Extras
    /\ env \in Seq(Entry)
    /\ index = {<<env[i].name, i>> : i \in DOMAIN env}
    /\ next \in 1 .. Len(extra) + 1

\* The k-th user variable is the last with this name among the first n.
IsLast(name, n, k) ==
    /\ k \in 1 .. n
    /\ extra[k].name = name
    /\ \A j \in k + 1 .. n : extra[j].name # name

\* At every turn of the loop the list says, of each name, what the last user variable
\* so far says, unless the name is protected or the user does not set it: then it
\* has the managed one, at its place (common.go, 108-126).
LastWins ==
    LET seen == next - 1
        managed == ManagedEnv(spec)
    IN  /\ \A i \in DOMAIN env : \/ i \in DOMAIN managed /\ env[i] = managed[i]
                                 \/ \E k \in 1 .. seen : env[i] = Normal(extra[k])
        /\ \A k \in 1 .. seen :
              (extra[k].name \notin Protected(spec) /\ IsLast(extra[k].name, seen, k))
                  => \E i \in DOMAIN env : env[i] = Normal(extra[k])
        /\ \A i \in DOMAIN managed :
              /\ i \in DOMAIN env /\ env[i].name = managed[i].name
              /\ (managed[i].name \in Protected(spec)
                     \/ \A k \in 1 .. seen : extra[k].name # managed[i].name)
                 => env[i] = managed[i]

\* Unless the user sets MEMORY, the heap fits into the container's limit, which the
\* request does not exceed; the schema of the resource refuses limits under 256
\* (common.go, 38-60).
MemoryFits ==
    LET limit == LimitMB(spec.limit)
    IN  limit >= MinHeapMB =>
          /\ RequestMB(spec.limit, spec.request) \in 1 .. limit
          /\ "MEMORY" \notin NamesOf(extra) =>
                \E i \in DOMAIN env : env[i].name = "MEMORY" /\ env[i].value \in MinHeapMB .. limit

\* What the list says: the user's last word, and a heap that fits
\* (common.go, 38-60 and 108-126).
SaysWhatIsMeant == LastWins /\ MemoryFits
==============================================================================
