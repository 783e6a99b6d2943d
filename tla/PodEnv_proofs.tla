--------------------------- MODULE PodEnv_proofs ---------------------------
(***************************************************************************)
(* What UserEnv does to any list of user variables, of any length, and     *)
(* what the memory computation does to any numbers.                        *)
(***************************************************************************)
EXTENDS PodEnv, SequenceTheorems, TLAPS

-----------------------------------------------------------------------------
(* Memory                                                                  *)

\* A share of at most the whole is at most the whole.
LEMMA ShareFits ==
    ASSUME NEW limit \in Nat, NEW share \in 1 .. 100
    PROVE  /\ (limit * share) \div 100 \in Nat
           /\ (limit * share) \div 100 <= limit
<1>1. limit * share \in Nat
  OBVIOUS
<1>2. limit * share <= limit * 100
  OBVIOUS
<1>3. \A p \in Nat : p <= limit * 100 => p \div 100 \in Nat /\ p \div 100 <= limit
  OBVIOUS
<1> QED
  BY <1>1, <1>2, <1>3

\* The heap of the Java process (HeapMB) is never larger than the limit of its
\* container, whatever the share, provided the limit is not below the minimum of the
\* schema; and it is never smaller than MinHeapMB.
THEOREM HeapFits ==
    ASSUME NEW limit \in Int, NEW percent \in Int, LimitMB(limit) >= MinHeapMB
    PROVE  HeapMB(limit, percent) \in MinHeapMB .. LimitMB(limit)
<1> DEFINE share == IF percent <= 0 \/ percent > 100 THEN DefaultHeapPercent ELSE percent
<1>1. LimitMB(limit) \in Nat
  BY DEF LimitMB, DefaultMemoryLimitMB
<1>2. share \in 1 .. 100
  BY DEF DefaultHeapPercent
<1>3. /\ (LimitMB(limit) * share) \div 100 \in Nat
      /\ (LimitMB(limit) * share) \div 100 <= LimitMB(limit)
  BY <1>1, <1>2, ShareFits
<1> QED
  BY <1>1, <1>3 DEF HeapMB, MinHeapMB

\* The memory request is positive and never above the limit.
THEOREM RequestFits ==
    ASSUME NEW limit \in Int, NEW request \in Int
    PROVE  RequestMB(limit, request) \in 1 .. LimitMB(limit)
  BY DEF RequestMB, LimitMB, DefaultMemoryLimitMB

-----------------------------------------------------------------------------
(* The managed variables                                                   *)

\* A list with names of N, each once and from one source.
InOrder(e, N) ==
    /\ e \in Seq(Entry)
    /\ Distinct(e)
    /\ \A i \in 1 .. Len(e) : e[i].name \in N /\ (e[i].value = 0 \/ e[i].from = 0)

Occurs(x, e) == \E i \in 1 .. Len(e) : e[i] = x

LEMMA InOrderSingle ==
    ASSUME NEW x \in Entry, x.value = 0 \/ x.from = 0
    PROVE  InOrder(<<x>>, {x.name}) /\ InOrder(<< >>, {x.name}) /\ Occurs(x, <<x>>)
<1>1. <<x>> \in Seq(Entry) /\ Len(<<x>>) = 1 /\ <<x>>[1] = x /\ DOMAIN <<x>> = 1 .. 1
  OBVIOUS
<1>2. << >> \in Seq(Entry) /\ Len(<< >>) = 0 /\ DOMAIN << >> = 1 .. 0
  OBVIOUS
<1> QED
  BY <1>1, <1>2 DEF InOrder, Distinct, Occurs

LEMMA InOrderPlain ==
    ASSUME NEW name \in Name
    PROVE  /\ InOrder(Plain(name), {name})
           /\ \A option, s : InOrder(When(option, s, name), {name})
<1> DEFINE x == [name |-> name, value |-> Text, from |-> 0]
<1>1. x \in Entry /\ x.name = name /\ x.from = 0
  BY DEF Entry, Text
<1> HIDE DEF x
<1>2. InOrder(<<x>>, {name}) /\ InOrder(<< >>, {name})
  BY <1>1, InOrderSingle
<1> QED
  BY <1>2 DEF Plain, When, x

LEMMA EmptyInOrder == \A N : InOrder(<< >>, N)
<1>1. << >> \in Seq(Entry) /\ Len(<< >>) = 0 /\ DOMAIN << >> = 1 .. 0
  OBVIOUS
<1> QED
  BY <1>1 DEF InOrder, Distinct

LEMMA InOrderWider ==
    ASSUME NEW e, NEW N, NEW M, InOrder(e, N), N \subseteq M
    PROVE  InOrder(e, M)
BY DEF InOrder

\* Two lists without a name in common are one in order.
LEMMA InOrderJoined ==
    ASSUME NEW a, NEW b, NEW A, NEW B, InOrder(a, A), InOrder(b, B), A \cap B = {}
    PROVE  /\ InOrder(a \o b, A \cup B)
           /\ \A x : Occurs(x, a) \/ Occurs(x, b) => Occurs(x, a \o b)
<1> DEFINE c == a \o b
<1>1. /\ a \in Seq(Entry) /\ b \in Seq(Entry)
      /\ Len(a) \in Nat /\ Len(b) \in Nat
      /\ DOMAIN a = 1 .. Len(a) /\ DOMAIN b = 1 .. Len(b)
  BY DEF InOrder
<1>2. /\ c \in Seq(Entry) /\ Len(c) = Len(a) + Len(b) /\ DOMAIN c = 1 .. Len(c)
      /\ \A i \in 1 .. Len(a) : c[i] = a[i]
      /\ \A i \in 1 .. Len(b) : c[Len(a) + i] = b[i]
      /\ \A i \in 1 .. Len(c) : i > Len(a) => c[i] = b[i - Len(a)]
  BY <1>1, ConcatProperties
<1> HIDE DEF c
<1>3. \A i \in 1 .. Len(c) : i > Len(a) => i - Len(a) \in 1 .. Len(b)
  BY <1>1, <1>2
<1>4. ASSUME NEW i \in 1 .. Len(c)
      PROVE  c[i].name \in A \cup B /\ (c[i].value = 0 \/ c[i].from = 0)
  BY <1>1, <1>2, <1>3 DEF InOrder
<1>5. ASSUME NEW i \in 1 .. Len(c), NEW j \in 1 .. Len(c), c[i].name = c[j].name PROVE i = j
  <2>1. CASE i <= Len(a) /\ j <= Len(a)
    <3>1. i \in DOMAIN a /\ j \in DOMAIN a /\ a[i].name = a[j].name
      BY <1>1, <1>2, <1>5, <2>1
    <3> QED
      BY <3>1 DEF InOrder, Distinct
  <2>2. CASE i > Len(a) /\ j > Len(a)
    <3>1. /\ i - Len(a) \in DOMAIN b /\ j - Len(a) \in DOMAIN b
          /\ b[i - Len(a)].name = b[j - Len(a)].name
      BY <1>1, <1>2, <1>3, <1>5, <2>2
    <3>2. i - Len(a) = j - Len(a)
      BY <3>1 DEF InOrder, Distinct
    <3> QED
      BY <1>1, <3>2
  <2>3. \A k \in 1 .. Len(c) : /\ k <= Len(a) => c[k].name \in A
                               /\ k > Len(a) => c[k].name \in B
    BY <1>1, <1>2, <1>3 DEF InOrder
  <2> QED
    BY <1>1, <1>5, <2>1, <2>2, <2>3
<1>6. InOrder(c, A \cup B)
  BY <1>2, <1>4, <1>5 DEF InOrder, Distinct
<1>7. ASSUME NEW x, Occurs(x, a) \/ Occurs(x, b) PROVE Occurs(x, c)
  <2>1. CASE Occurs(x, a)
    BY <1>1, <1>2, <2>1 DEF Occurs
  <2>2. CASE Occurs(x, b)
    <3>1. PICK i \in 1 .. Len(b) : b[i] = x
      BY <2>2 DEF Occurs
    <3>2. Len(a) + i \in 1 .. Len(c) /\ c[Len(a) + i] = x
      BY <1>1, <1>2, <3>1
    <3> QED
      BY <3>2 DEF Occurs
  <2> QED
    BY <1>7, <2>1, <2>2
<1> QED
  BY <1>6, <1>7 DEF c

\* A variable joins a list that does not have its name.
LEMMA InOrderNext ==
    ASSUME NEW a, NEW A, NEW name \in Name, InOrder(a, A), name \notin A
    PROVE  /\ InOrder(a \o Plain(name), A \cup {name})
           /\ \A option, s : InOrder(a \o When(option, s, name), A \cup {name})
           /\ \A option, s, x : Occurs(x, a) => /\ Occurs(x, a \o Plain(name))
                                                /\ Occurs(x, a \o When(option, s, name))
<1>1. A \cap {name} = {}
  OBVIOUS
<1> QED
  BY <1>1, InOrderPlain, InOrderJoined, Zenon

HeapEntry(s) == [name |-> "MEMORY", value |-> HeapMB(s.limit, s.percent), from |-> 0]

JVMNames == {"MEMORY", "JVM_OPTS", "USE_AIKAR_FLAGS", "USE_MEOWICE_FLAGS"}

LEMMA JVMInOrder ==
    ASSUME NEW s \in CustomResources
    PROVE  InOrder(JVMEnv(s), JVMNames) /\ Occurs(HeapEntry(s), JVMEnv(s))
<1> DEFINE e1 == <<HeapEntry(s)>>
           e2 == e1 \o When("opts", s, "JVM_OPTS")
           e3 == e2 \o When("useAikarFlags", s, "USE_AIKAR_FLAGS")
           e4 == e3 \o When("useMeowIceFlags", s, "USE_MEOWICE_FLAGS")
           heap(e) == Occurs(HeapEntry(s), e)
<1>0. {"MEMORY", "JVM_OPTS", "USE_AIKAR_FLAGS", "USE_MEOWICE_FLAGS"} \subseteq Name
  BY NamesAssumption DEF ManagedNames
<1>1. InOrder(e1, {"MEMORY"}) /\ heap(e1)
  <2>1. HeapMB(s.limit, s.percent) \in Int
    BY DEF CustomResources, HeapMB, LimitMB, DefaultMemoryLimitMB, MinHeapMB, DefaultHeapPercent
  <2>2. HeapEntry(s) \in Entry /\ HeapEntry(s).name = "MEMORY" /\ HeapEntry(s).from = 0
    BY <1>0, <2>1 DEF HeapEntry, Entry
  <2> QED
    BY <2>2, InOrderSingle
<1> HIDE DEF e1
<1>2. InOrder(e2, {"MEMORY"} \cup {"JVM_OPTS"}) /\ heap(e2)
  BY <1>0, <1>1, InOrderNext
<1> HIDE DEF e2
<1>3. InOrder(e3, {"MEMORY"} \cup {"JVM_OPTS"} \cup {"USE_AIKAR_FLAGS"}) /\ heap(e3)
  BY <1>0, <1>2, InOrderNext
<1> HIDE DEF e3
<1>4. /\ InOrder(e4, {"MEMORY"} \cup {"JVM_OPTS"} \cup {"USE_AIKAR_FLAGS"} \cup {"USE_MEOWICE_FLAGS"})
      /\ heap(e4)
  BY <1>0, <1>3, InOrderNext
<1>5. {"MEMORY"} \cup {"JVM_OPTS"} \cup {"USE_AIKAR_FLAGS"} \cup {"USE_MEOWICE_FLAGS"} = JVMNames
  BY DEF JVMNames
<1>6. JVMEnv(s) = e4
  BY Zenon DEF JVMEnv, e1, e2, e3, HeapEntry
<1> QED
  BY <1>4, <1>5, <1>6

LEMMA APIKeyInOrder ==
    ASSUME NEW s
    PROVE  InOrder(APIKeyEnv(s), {"MINIKURA_API_KEY"})
<1> DEFINE x == [name |-> "MINIKURA_API_KEY", value |-> 0, from |-> Secret]
<1>1. x \in Entry /\ x.name = "MINIKURA_API_KEY" /\ x.value = 0
  BY NamesAssumption DEF ManagedNames, Entry, Secret
<1> HIDE DEF x
<1>2. InOrder(<<x>>, {"MINIKURA_API_KEY"}) /\ InOrder(<< >>, {"MINIKURA_API_KEY"})
  BY <1>1, InOrderSingle
<1> QED
  BY <1>2 DEF APIKeyEnv, x

\* The variables of a server.
LEMMA MinecraftInOrder ==
    ASSUME NEW s \in CustomResources
    PROVE  InOrder(MinecraftEnv(s), ManagedNames) /\ Occurs(HeapEntry(s), MinecraftEnv(s))
<1> DEFINE e1 == Plain("EULA")
           e2 == e1 \o Plain("TYPE")
           e3 == e2 \o Plain("VERSION")
           e4 == e3 \o Plain("OVERRIDE_SERVER_PROPERTIES")
           e5 == e4 \o Plain("ENABLE_RCON")
           e6 == e5 \o Plain("DIFFICULTY")
           e7 == e6 \o Plain("MODE")
           e8 == e7 \o Plain("MAX_PLAYERS")
           e9 == e8 \o Plain("PVP")
           e10 == e9 \o Plain("ONLINE_MODE")
           e11 == e10 \o When("motd", s, "MOTD")
           e12 == e11 \o When("levelSeed", s, "SEED")
           e13 == e12 \o When("levelType", s, "LEVEL_TYPE")
           e14 == e13 \o JVMEnv(s)
           e15 == e14 \o APIKeyEnv(s)
<1> DEFINE N1 == {"EULA"}
           N2 == N1 \cup {"TYPE"}
           N3 == N2 \cup {"VERSION"}
           N4 == N3 \cup {"OVERRIDE_SERVER_PROPERTIES"}
           N5 == N4 \cup {"ENABLE_RCON"}
           N6 == N5 \cup {"DIFFICULTY"}
           N7 == N6 \cup {"MODE"}
           N8 == N7 \cup {"MAX_PLAYERS"}
           N9 == N8 \cup {"PVP"}
           N10 == N9 \cup {"ONLINE_MODE"}
           N11 == N10 \cup {"MOTD"}
           N12 == N11 \cup {"SEED"}
           N13 == N12 \cup {"LEVEL_TYPE"}
<1>0. {"EULA", "TYPE", "VERSION", "OVERRIDE_SERVER_PROPERTIES", "ENABLE_RCON", "DIFFICULTY",
       "MODE", "MAX_PLAYERS", "PVP", "ONLINE_MODE", "MOTD", "SEED", "LEVEL_TYPE"} \subseteq Name
  BY NamesAssumption DEF ManagedNames
<1>1. InOrder(e1, N1)
  BY <1>0, InOrderPlain
<1> HIDE DEF e1
<1>2. InOrder(e2, N2)
  BY <1>0, <1>1, InOrderNext
<1> HIDE DEF e2
<1>3. InOrder(e3, N3)
  BY <1>0, <1>2, InOrderNext
<1> HIDE DEF e3
<1>4. InOrder(e4, N4)
  BY <1>0, <1>3, InOrderNext
<1> HIDE DEF e4
<1>5. InOrder(e5, N5)
  BY <1>0, <1>4, InOrderNext
<1> HIDE DEF e5
<1>6. InOrder(e6, N6)
  BY <1>0, <1>5, InOrderNext
<1> HIDE DEF e6
<1>7. InOrder(e7, N7)
  BY <1>0, <1>6, InOrderNext
<1> HIDE DEF e7
<1>8. InOrder(e8, N8)
  BY <1>0, <1>7, InOrderNext
<1> HIDE DEF e8
<1>9. InOrder(e9, N9)
  BY <1>0, <1>8, InOrderNext
<1> HIDE DEF e9
<1>10. InOrder(e10, N10)
  BY <1>0, <1>9, InOrderNext
<1> HIDE DEF e10
<1>11. InOrder(e11, N11)
  BY <1>0, <1>10, InOrderNext
<1> HIDE DEF e11
<1>12. InOrder(e12, N12)
  BY <1>0, <1>11, InOrderNext
<1> HIDE DEF e12
<1>13. InOrder(e13, N13)
  BY <1>0, <1>12, InOrderNext
<1> HIDE DEF e13
<1>14. InOrder(e14, N13 \cup JVMNames) /\ Occurs(HeapEntry(s), e14)
  <2>1. N13 \cap JVMNames = {}
    BY DEF JVMNames
  <2> QED
    BY <1>13, <2>1, JVMInOrder, InOrderJoined
<1> HIDE DEF e14
<1>15. /\ InOrder(e15, (N13 \cup JVMNames) \cup {"MINIKURA_API_KEY"})
       /\ Occurs(HeapEntry(s), e15)
  <2>1. (N13 \cup JVMNames) \cap {"MINIKURA_API_KEY"} = {}
    BY DEF JVMNames
  <2> QED
    BY <1>14, <2>1, APIKeyInOrder, InOrderJoined
<1>16. (N13 \cup JVMNames) \cup {"MINIKURA_API_KEY"} \subseteq ManagedNames
  BY DEF JVMNames, ManagedNames
<1>17. MinecraftEnv(s) = e15
  BY Zenon DEF MinecraftEnv, e1, e2, e3, e4, e5, e6, e7, e8, e9, e10, e11, e12, e13, e14
<1> QED
  BY <1>15, <1>16, <1>17, InOrderWider

\* The variables of a proxy.
LEMMA ProxyInOrder ==
    ASSUME NEW s \in CustomResources
    PROVE  InOrder(ProxyEnv(s), ManagedNames) /\ Occurs(HeapEntry(s), ProxyEnv(s))
<1> DEFINE e1 == Plain("TYPE")
           e2 == e1 \o Plain("NETWORKADDRESS_CACHE_TTL")
           e3 == e2 \o Plain("MINIKURA_EXTERNAL_ADDRESS")
           e4 == e3 \o JVMEnv(s)
           e5 == e4 \o APIKeyEnv(s)
           e6 == e5 \o When("backendURL", s, "MINIKURA_API_URL")
           e7 == e6 \o When("backendURL", s, "MINIKURA_WEBSOCKET_URL")
           plugins == IF Installs(s) THEN Plain("PLUGINS") ELSE << >>
           e8 == e7 \o plugins
           N3 == {"TYPE"} \cup {"NETWORKADDRESS_CACHE_TTL"} \cup {"MINIKURA_EXTERNAL_ADDRESS"}
           N5 == (N3 \cup JVMNames) \cup {"MINIKURA_API_KEY"}
           N7 == (N5 \cup {"MINIKURA_API_URL"}) \cup {"MINIKURA_WEBSOCKET_URL"}
           heap(e) == Occurs(HeapEntry(s), e)
<1>0. {"TYPE", "NETWORKADDRESS_CACHE_TTL", "MINIKURA_EXTERNAL_ADDRESS", "MINIKURA_API_URL",
       "MINIKURA_WEBSOCKET_URL", "PLUGINS"} \subseteq Name
  BY NamesAssumption DEF ManagedNames
<1>1. InOrder(e1, {"TYPE"})
  BY <1>0, InOrderPlain
<1> HIDE DEF e1
<1>2. InOrder(e2, {"TYPE"} \cup {"NETWORKADDRESS_CACHE_TTL"})
  BY <1>0, <1>1, InOrderNext
<1> HIDE DEF e2
<1>3. InOrder(e3, N3)
  BY <1>0, <1>2, InOrderNext
<1> HIDE DEF e3
<1>4. InOrder(e4, N3 \cup JVMNames) /\ heap(e4)
  <2>1. N3 \cap JVMNames = {}
    BY DEF JVMNames
  <2> QED
    BY <1>3, <2>1, JVMInOrder, InOrderJoined
<1> HIDE DEF e4
<1>5. InOrder(e5, N5) /\ heap(e5)
  <2>1. (N3 \cup JVMNames) \cap {"MINIKURA_API_KEY"} = {}
    BY DEF JVMNames
  <2> QED
    BY <1>4, <2>1, APIKeyInOrder, InOrderJoined
<1> HIDE DEF e5
<1>6. InOrder(e6, N5 \cup {"MINIKURA_API_URL"}) /\ heap(e6)
  <2>1. "MINIKURA_API_URL" \notin N5
    BY DEF JVMNames
  <2> QED
    BY <1>0, <1>5, <2>1, InOrderNext
<1> HIDE DEF e6
<1>7. InOrder(e7, N7) /\ heap(e7)
  <2>1. "MINIKURA_WEBSOCKET_URL" \notin N5 \cup {"MINIKURA_API_URL"}
    BY DEF JVMNames
  <2> QED
    BY <1>0, <1>6, <2>1, InOrderNext
<1> HIDE DEF e7
<1>8. InOrder(e8, N7 \cup {"PLUGINS"}) /\ heap(e8)
  <2>1. N7 \cap {"PLUGINS"} = {}
    BY DEF JVMNames
  <2>2. InOrder(plugins, {"PLUGINS"})
    <3>1. InOrder(Plain("PLUGINS"), {"PLUGINS"})
      BY <1>0, InOrderPlain
    <3>2. InOrder(<< >>, {"PLUGINS"})
      BY EmptyInOrder
    <3> QED
      BY <3>1, <3>2
  <2> HIDE DEF plugins
  <2> QED
    BY <1>7, <2>1, <2>2, InOrderJoined
<1>9. N7 \cup {"PLUGINS"} \subseteq ManagedNames
  BY DEF JVMNames, ManagedNames
<1>10. ProxyEnv(s) = e8
  BY Zenon DEF ProxyEnv, e1, e2, e3, e4, e5, e6, e7
<1> QED
  BY <1>8, <1>9, <1>10, InOrderWider

\* The operator's own list is in order and sets the heap.
LEMMA ManagedInOrder ==
    ASSUME NEW s \in Specs
    PROVE  InOrder(ManagedEnv(s), ManagedNames) /\ Occurs(HeapEntry(s), ManagedEnv(s))
BY SpecsAssumption, MinecraftInOrder, ProxyInOrder DEF ManagedEnv

-----------------------------------------------------------------------------
(* The loop                                                                *)

\* Every entry that is not the managed one at its place comes from the user, under
\* a name that is not protected.
FromUser ==
    \A i \in DOMAIN env :
        \/ i \in DOMAIN ManagedEnv(spec) /\ env[i] = ManagedEnv(spec)[i]
        \/ env[i].name \notin Protected(spec)

EnvInvariant == EnvTypeOK /\ NamesUnique /\ OneSource /\ FromUser

LEMMA NormalEntry ==
    ASSUME NEW e \in Entry
    PROVE  /\ Normal(e) \in Entry
           /\ Normal(e).name = e.name
           /\ Normal(e).value = 0 \/ Normal(e).from = 0
  BY DEF Normal, Entry

LEMMA InvariantInit == EnvInit => EnvInvariant
<1> SUFFICES ASSUME EnvInit PROVE EnvInvariant
  OBVIOUS
<1>1. Len(extra) \in Nat
  BY ExtrasAssumption DEF EnvInit
<1>2. EnvTypeOK
  BY <1>1, ManagedInOrder DEF EnvInit, EnvTypeOK, InOrder
<1>3. NamesUnique /\ OneSource /\ FromUser
  BY ManagedInOrder DEF EnvInit, NamesUnique, OneSource, FromUser, InOrder
<1> QED
  BY <1>2, <1>3 DEF EnvInvariant

\* What the current user variable is, and that the loop stays in the list.
LEMMA Current ==
    ASSUME EnvTypeOK, next <= Len(extra)
    PROVE  /\ extra[next] \in Entry
           /\ next + 1 \in 1 .. Len(extra) + 1
           /\ Len(env) \in Nat
           /\ DOMAIN env = 1 .. Len(env)
           /\ \A i \in 1 .. Len(env) : env[i] \in Entry
  BY ExtrasAssumption DEF EnvTypeOK

\* A variable that is set in place leaves every name where it was.
LEMMA OverrideKeeps == EnvInvariant /\ Override => EnvInvariant'
<1> SUFFICES ASSUME EnvInvariant, Override PROVE EnvInvariant'
  OBVIOUS
<1> DEFINE e == Normal(extra[next])
<1>1. PICK i \in DOMAIN env : /\ <<extra[next].name, i>> \in index
                              /\ env' = [env EXCEPT ![i] = e]
  BY DEF Override
<1>2. /\ next <= Len(extra) /\ next' = next + 1 /\ UNCHANGED <<spec, extra, index>>
      /\ extra[next].name \notin Protected(spec)
  BY DEF Override, Reserved
<1>3. /\ e \in Entry /\ e.name = extra[next].name /\ (e.value = 0 \/ e.from = 0)
      /\ next + 1 \in 1 .. Len(extra) + 1 /\ Len(env) \in Nat
      /\ DOMAIN env = 1 .. Len(env) /\ \A j \in 1 .. Len(env) : env[j] \in Entry
  BY <1>2, Current, NormalEntry DEF EnvInvariant
<1> HIDE DEF e
<1>4. env[i].name = e.name
  BY <1>1, <1>3 DEF EnvInvariant, EnvTypeOK
<1>5. /\ DOMAIN env' = DOMAIN env
      /\ env'[i] = e
      /\ \A j \in DOMAIN env : j # i => env'[j] = env[j]
      /\ env' \in Seq(Entry)
  BY <1>1, <1>3 DEF EnvInvariant, EnvTypeOK
<1>6. \A j \in DOMAIN env : env'[j].name = env[j].name
  BY <1>4, <1>5
<1>7. index' = {<<env'[j].name, j>> : j \in DOMAIN env'}
  BY <1>2, <1>5, <1>6 DEF EnvInvariant, EnvTypeOK
<1>8. EnvTypeOK'
  BY <1>2, <1>3, <1>5, <1>7 DEF EnvInvariant, EnvTypeOK
<1>9. NamesUnique'
  BY <1>5, <1>6 DEF EnvInvariant, NamesUnique, Distinct
<1>10. OneSource'
  BY <1>3, <1>5 DEF EnvInvariant, OneSource
<1>11. FromUser'
  BY <1>2, <1>3, <1>5 DEF EnvInvariant, FromUser
<1> QED
  BY <1>8, <1>9, <1>10, <1>11 DEF EnvInvariant

\* A variable that is appended has a name no other has.
LEMMA AppendKeeps == EnvInvariant /\ AppendNew => EnvInvariant'
<1> SUFFICES ASSUME EnvInvariant, AppendNew PROVE EnvInvariant'
  OBVIOUS
<1> DEFINE e == Normal(extra[next])
           n == Len(env) + 1
<1>1. /\ ~ \E i \in DOMAIN env : <<extra[next].name, i>> \in index
      /\ index' = index \cup {<<extra[next].name, n>>}
      /\ env' = Append(env, e)
  BY DEF AppendNew
<1>2. /\ next <= Len(extra) /\ next' = next + 1 /\ UNCHANGED <<spec, extra>>
      /\ extra[next].name \notin Protected(spec)
  BY DEF AppendNew, Reserved
<1>3. /\ e \in Entry /\ e.name = extra[next].name /\ (e.value = 0 \/ e.from = 0)
      /\ next + 1 \in 1 .. Len(extra) + 1 /\ Len(env) \in Nat
      /\ DOMAIN env = 1 .. Len(env) /\ \A j \in 1 .. Len(env) : env[j] \in Entry
  BY <1>2, Current, NormalEntry DEF EnvInvariant
<1> HIDE DEF e
<1>4. \A j \in DOMAIN env : env[j].name # e.name
  BY <1>1, <1>3 DEF EnvInvariant, EnvTypeOK
<1>5. /\ DOMAIN env' = DOMAIN env \cup {n} /\ n \notin DOMAIN env
      /\ env'[n] = e
      /\ \A j \in DOMAIN env : env'[j] = env[j]
      /\ env' \in Seq(Entry)
  BY <1>1, <1>3 DEF EnvInvariant, EnvTypeOK
<1> HIDE DEF n
<1>6. index' = {<<env'[j].name, j>> : j \in DOMAIN env'}
  <2>1. index = {<<env'[j].name, j>> : j \in DOMAIN env}
    BY <1>5 DEF EnvInvariant, EnvTypeOK
  <2>2. index' = index \cup {<<env'[n].name, n>>}
    BY <1>1, <1>3, <1>5
  <2> QED
    BY <1>5, <2>1, <2>2
<1>7. EnvTypeOK'
  BY <1>2, <1>3, <1>5, <1>6 DEF EnvInvariant, EnvTypeOK
<1>8. NamesUnique'
  BY <1>4, <1>5 DEF EnvInvariant, NamesUnique, Distinct
<1>9. OneSource'
  BY <1>3, <1>5 DEF EnvInvariant, OneSource
<1>10. FromUser'
  BY <1>2, <1>3, <1>5 DEF EnvInvariant, FromUser
<1> QED
  BY <1>7, <1>8, <1>9, <1>10 DEF EnvInvariant

LEMMA InvariantStep == EnvInvariant /\ [EnvNext]_envVars => EnvInvariant'
<1> SUFFICES ASSUME EnvInvariant, [EnvNext]_envVars PROVE EnvInvariant'
  OBVIOUS
<1>1. CASE Skip
  BY <1>1, Current
     DEF Skip, EnvInvariant, EnvTypeOK, NamesUnique, OneSource, FromUser
<1>2. CASE Override
  BY <1>2, OverrideKeeps
<1>3. CASE AppendNew
  BY <1>3, AppendKeeps
<1>4. CASE UNCHANGED envVars
  BY <1>4 DEF envVars, EnvInvariant, EnvTypeOK, NamesUnique, OneSource, FromUser
<1> QED
  BY <1>1, <1>2, <1>3, <1>4 DEF EnvNext

\* The invariant: the map is the list's index, names occur once, and what differs from
\* the managed list is the user's and not protected.
THEOREM LoopInvariant == EnvSpec => []EnvInvariant
  BY InvariantInit, InvariantStep, PTL DEF EnvSpec

\* The map of UserEnv is the index of the list at every turn.
THEOREM EnvTypeCorrect == EnvSpec => []EnvTypeOK
  BY LoopInvariant, PTL DEF EnvInvariant

\* No name occurs twice, whatever the user's list repeats.
THEOREM NamesStayUnique == EnvSpec => []NamesUnique
  BY LoopInvariant, PTL DEF EnvInvariant

\* No variable has a value and a reference.
THEOREM SourcesExclude == EnvSpec => []OneSource
  BY LoopInvariant, PTL DEF EnvInvariant

\* No user variable reaches a protected name.
THEOREM ProtectedNamesAreKept == EnvSpec => []ProtectedKept
<1>1. EnvInvariant => ProtectedKept
  BY DEF EnvInvariant, FromUser, ProtectedKept
<1> QED
  BY <1>1, LoopInvariant, PTL

\* The list stays one that Kubernetes accepts, and protected names stay the operator's.
THEOREM EnvironmentIsWellFormed == EnvSpec => []WellFormed
  BY NamesStayUnique, SourcesExclude, ProtectedNamesAreKept, PTL DEF WellFormed

-----------------------------------------------------------------------------
(* What the list says                                                      *)

\* Every entry is the operator's at its place, or one of the user's so far.
UserOrManaged ==
    \A i \in DOMAIN env : \/ i \in DOMAIN ManagedEnv(spec) /\ env[i] = ManagedEnv(spec)[i]
                          \/ \E k \in 1 .. next - 1 : env[i] = Normal(extra[k])

\* The last definition of an unprotected name is there.
LastIsSet ==
    \A k \in 1 .. next - 1 :
        (extra[k].name \notin Protected(spec) /\ IsLast(extra[k].name, next - 1, k))
            => \E i \in DOMAIN env : env[i] = Normal(extra[k])

\* The operator's names keep their places, and what the user does not set its value.
ManagedStay ==
    \A i \in DOMAIN ManagedEnv(spec) :
        /\ i \in DOMAIN env /\ env[i].name = ManagedEnv(spec)[i].name
        /\ (ManagedEnv(spec)[i].name \in Protected(spec)
               \/ \A k \in 1 .. next - 1 : extra[k].name # ManagedEnv(spec)[i].name)
           => env[i] = ManagedEnv(spec)[i]

LEMMA LastWinsParts == LastWins <=> UserOrManaged /\ LastIsSet /\ ManagedStay
  BY Zenon DEF LastWins, UserOrManaged, LastIsSet, ManagedStay

\* Who is last among one more variable: the new one, or one of another name that was
\* last before.
LEMMA LastAmongNext ==
    ASSUME NEW n \in Nat \ {0}, NEW k \in 1 .. n, IsLast(extra[k].name, n, k), k # n
    PROVE  k \in 1 .. n - 1 /\ IsLast(extra[k].name, n - 1, k) /\ extra[n].name # extra[k].name
  BY DEF IsLast

LEMMA WordsInit == EnvInit => LastWins
  BY LastWinsParts DEF EnvInit, UserOrManaged, LastIsSet, ManagedStay

LEMMA SkipSays ==
    ASSUME EnvInvariant, LastWins, Skip
    PROVE  LastWins'
<1>1. /\ next \in Nat \ {0} /\ next' = next + 1 /\ UNCHANGED <<spec, extra, env, index>>
      /\ extra[next].name \in Protected(spec) /\ next' - 1 = next
  BY ExtrasAssumption DEF Skip, Reserved, EnvInvariant, EnvTypeOK
<1>2. UserOrManaged /\ LastIsSet /\ ManagedStay
  BY LastWinsParts
<1>3. UserOrManaged'
  BY <1>1, <1>2 DEF UserOrManaged
<1>4. LastIsSet'
  <2> SUFFICES ASSUME NEW k \in 1 .. next, extra[k].name \notin Protected(spec),
                      IsLast(extra[k].name, next, k)
               PROVE  \E i \in DOMAIN env : env[i] = Normal(extra[k])
    BY <1>1 DEF LastIsSet, IsLast, Normal
  <2>1. k # next
    BY <1>1
  <2> QED
    BY <1>1, <1>2, <2>1, LastAmongNext DEF LastIsSet
<1>5. ManagedStay'
  BY <1>1, <1>2 DEF ManagedStay
<1> QED
  BY <1>3, <1>4, <1>5, LastWinsParts, PTL

LEMMA OverrideSays ==
    ASSUME EnvInvariant, LastWins, Override
    PROVE  LastWins'
<1> DEFINE e == Normal(extra[next])
<1>1. PICK i \in DOMAIN env : /\ <<extra[next].name, i>> \in index
                              /\ env' = [env EXCEPT ![i] = e]
  BY DEF Override
<1>2. /\ next \in Nat \ {0} /\ next' = next + 1 /\ UNCHANGED <<spec, extra, index>>
      /\ extra[next].name \notin Protected(spec) /\ next' - 1 = next
      /\ next <= Len(extra)
  BY ExtrasAssumption DEF Override, Reserved, EnvInvariant, EnvTypeOK
<1>3. e.name = extra[next].name /\ \A k \in 1 .. next : Normal(extra[k]).name = extra[k].name
  BY DEF Normal
<1>4. UserOrManaged /\ LastIsSet /\ ManagedStay
  BY LastWinsParts
<1>5. /\ env[i].name = e.name /\ DOMAIN env' = DOMAIN env /\ env'[i] = e
      /\ \A j \in DOMAIN env : j # i => env'[j] = env[j]
      /\ e = Normal(extra[next])
  BY <1>1, <1>3 DEF EnvInvariant, EnvTypeOK
<1> HIDE DEF e
<1>6. UserOrManaged'
  <2> SUFFICES ASSUME NEW j \in DOMAIN env
               PROVE  \/ j \in DOMAIN ManagedEnv(spec) /\ env'[j] = ManagedEnv(spec)[j]
                      \/ \E k \in 1 .. next : env'[j] = Normal(extra[k])
    BY <1>2, <1>5 DEF UserOrManaged, Normal
  <2>1. CASE j = i
    BY <1>2, <1>5, <2>1
  <2>2. CASE j # i
    BY <1>2, <1>4, <1>5, <2>2 DEF UserOrManaged
  <2> QED
    BY <2>1, <2>2
<1>7. LastIsSet'
  <2> SUFFICES ASSUME NEW k \in 1 .. next, extra[k].name \notin Protected(spec),
                      IsLast(extra[k].name, next, k)
               PROVE  \E j \in DOMAIN env : env'[j] = Normal(extra[k])
    BY <1>2, <1>5 DEF LastIsSet, IsLast, Normal
  <2>1. CASE k = next
    BY <1>5, <2>1
  <2>2. CASE k # next
    <3>1. /\ k \in 1 .. next - 1 /\ IsLast(extra[k].name, next - 1, k)
          /\ extra[next].name # extra[k].name
      BY <1>2, <2>2, LastAmongNext
    <3>2. PICK j \in DOMAIN env : env[j] = Normal(extra[k])
      BY <1>4, <3>1 DEF LastIsSet
    <3>3. j # i
      BY <1>3, <1>5, <3>1, <3>2
    <3> QED
      BY <1>5, <3>2, <3>3
  <2> QED
    BY <2>1, <2>2
<1>8. ManagedStay'
  <2> SUFFICES ASSUME NEW j \in DOMAIN ManagedEnv(spec)
               PROVE  /\ j \in DOMAIN env /\ env'[j].name = ManagedEnv(spec)[j].name
                      /\ (ManagedEnv(spec)[j].name \in Protected(spec)
                             \/ \A k \in 1 .. next : extra[k].name # ManagedEnv(spec)[j].name)
                         => env'[j] = ManagedEnv(spec)[j]
    BY <1>2, <1>5 DEF ManagedStay
  <2>1. j \in DOMAIN env /\ env[j].name = ManagedEnv(spec)[j].name
    BY <1>4 DEF ManagedStay
  <2>2. CASE j = i
    BY <1>2, <1>3, <1>5, <2>1, <2>2
  <2>3. CASE j # i
    BY <1>2, <1>4, <1>5, <2>1, <2>3 DEF ManagedStay
  <2> QED
    BY <2>2, <2>3
<1> QED
  BY <1>6, <1>7, <1>8, LastWinsParts, PTL

LEMMA AppendSays ==
    ASSUME EnvInvariant, LastWins, AppendNew
    PROVE  LastWins'
<1> DEFINE e == Normal(extra[next])
           n == Len(env) + 1
<1>1. ~ (\E i \in DOMAIN env : <<extra[next].name, i>> \in index) /\ env' = Append(env, e)
  BY DEF AppendNew
<1>2. /\ next \in Nat \ {0} /\ next' = next + 1 /\ UNCHANGED <<spec, extra>>
      /\ extra[next].name \notin Protected(spec) /\ next' - 1 = next
      /\ next <= Len(extra)
  BY ExtrasAssumption DEF AppendNew, Reserved, EnvInvariant, EnvTypeOK
<1>3. /\ e \in Entry /\ e.name = extra[next].name /\ Len(env) \in Nat
      /\ DOMAIN env = 1 .. Len(env) /\ \A j \in 1 .. Len(env) : env[j] \in Entry
  BY <1>2, Current, NormalEntry DEF EnvInvariant
<1>4. UserOrManaged /\ LastIsSet /\ ManagedStay
  BY LastWinsParts
<1>5. e = Normal(extra[next])
  OBVIOUS
<1> HIDE DEF e
<1>6. \A j \in DOMAIN env : env[j].name # e.name
  BY <1>1, <1>3 DEF EnvInvariant, EnvTypeOK
<1>7. /\ DOMAIN env' = DOMAIN env \cup {n} /\ n \notin DOMAIN env /\ env'[n] = e
      /\ \A j \in DOMAIN env : env'[j] = env[j]
  BY <1>1, <1>3 DEF EnvInvariant, EnvTypeOK
<1> HIDE DEF n
<1>8. UserOrManaged'
  <2> SUFFICES ASSUME NEW j \in DOMAIN env \cup {n}
               PROVE  \/ j \in DOMAIN ManagedEnv(spec) /\ env'[j] = ManagedEnv(spec)[j]
                      \/ \E k \in 1 .. next : env'[j] = Normal(extra[k])
    BY <1>2, <1>7 DEF UserOrManaged, Normal
  <2>1. CASE j = n
    BY <1>2, <1>5, <1>7, <2>1
  <2>2. CASE j # n
    BY <1>2, <1>4, <1>7, <2>2 DEF UserOrManaged
  <2> QED
    BY <2>1, <2>2
<1>9. LastIsSet'
  <2> SUFFICES ASSUME NEW k \in 1 .. next, extra[k].name \notin Protected(spec),
                      IsLast(extra[k].name, next, k)
               PROVE  \E j \in DOMAIN env \cup {n} : env'[j] = Normal(extra[k])
    BY <1>2, <1>7 DEF LastIsSet, IsLast, Normal
  <2>1. CASE k = next
    BY <1>5, <1>7, <2>1
  <2>2. CASE k # next
    <3>1. k \in 1 .. next - 1 /\ IsLast(extra[k].name, next - 1, k)
      BY <1>2, <2>2, LastAmongNext
    <3> QED
      BY <1>4, <1>7, <3>1 DEF LastIsSet
  <2> QED
    BY <2>1, <2>2
<1>10. ManagedStay'
  <2> SUFFICES ASSUME NEW j \in DOMAIN ManagedEnv(spec)
               PROVE  /\ j \in DOMAIN env' /\ env'[j].name = ManagedEnv(spec)[j].name
                      /\ (ManagedEnv(spec)[j].name \in Protected(spec)
                             \/ \A k \in 1 .. next : extra[k].name # ManagedEnv(spec)[j].name)
                         => env'[j] = ManagedEnv(spec)[j]
    BY <1>2 DEF ManagedStay
  <2> QED
    BY <1>2, <1>4, <1>7 DEF ManagedStay
<1> QED
  BY <1>8, <1>9, <1>10, LastWinsParts, PTL

LEMMA WordsStep == EnvInvariant /\ LastWins /\ [EnvNext]_envVars => LastWins'
<1> SUFFICES ASSUME EnvInvariant, LastWins, [EnvNext]_envVars PROVE LastWins'
  OBVIOUS
<1>1. CASE Skip
  BY <1>1, SkipSays
<1>2. CASE Override
  BY <1>2, OverrideSays
<1>3. CASE AppendNew
  BY <1>3, AppendSays
<1>4. CASE UNCHANGED envVars
  BY <1>4 DEF envVars, LastWins, IsLast, Normal
<1> QED
  BY <1>1, <1>2, <1>3, <1>4 DEF EnvNext

\* The user's last word stands, and what the user does not set or cannot set stays the
\* operator's, for lists of any length.
THEOREM TheLastWordStands == EnvSpec => []LastWins
  BY WordsInit, WordsStep, LoopInvariant, PTL DEF EnvSpec

\* What the user does not touch holds the heap computed for this container.
LEMMA HeapStays == EnvInvariant /\ LastWins => MemoryFits
<1> SUFFICES ASSUME EnvInvariant, LastWins, LimitMB(spec.limit) >= MinHeapMB
             PROVE  /\ RequestMB(spec.limit, spec.request) \in 1 .. LimitMB(spec.limit)
                    /\ "MEMORY" \notin NamesOf(extra) =>
                          \E i \in DOMAIN env :
                              /\ env[i].name = "MEMORY"
                              /\ env[i].value \in MinHeapMB .. LimitMB(spec.limit)
  BY DEF MemoryFits
<1>1. /\ spec \in Specs /\ spec.limit \in Int /\ spec.request \in Int /\ spec.percent \in Int
      /\ extra \in Seq(Entry) /\ next \in 1 .. Len(extra) + 1
  BY SpecsAssumption, ExtrasAssumption DEF EnvInvariant, EnvTypeOK, CustomResources
<1>2. RequestMB(spec.limit, spec.request) \in 1 .. LimitMB(spec.limit)
  BY <1>1, RequestFits
<1>3. ASSUME "MEMORY" \notin NamesOf(extra)
      PROVE  \E i \in DOMAIN env : /\ env[i].name = "MEMORY"
                                   /\ env[i].value \in MinHeapMB .. LimitMB(spec.limit)
  <2>1. PICK i \in 1 .. Len(ManagedEnv(spec)) : ManagedEnv(spec)[i] = HeapEntry(spec)
    BY <1>1, ManagedInOrder DEF Occurs
  <2>2. i \in DOMAIN ManagedEnv(spec)
    BY <1>1, ManagedInOrder DEF InOrder
  <2>3. HeapEntry(spec).name = "MEMORY" /\ HeapEntry(spec).value = HeapMB(spec.limit, spec.percent)
    BY DEF HeapEntry
  <2>4. \A k \in 1 .. next - 1 : extra[k].name # "MEMORY"
    BY <1>1, <1>3 DEF NamesOf
  <2>5. i \in DOMAIN env /\ env[i] = HeapEntry(spec)
    BY <2>1, <2>2, <2>3, <2>4, LastWinsParts DEF ManagedStay
  <2> QED
    BY <1>1, <2>3, <2>5, HeapFits
<1> QED
  BY <1>2, <1>3

\* Request and heap fit into the limit of the container, for any numbers.
THEOREM TheHeapFits == EnvSpec => []MemoryFits
  BY LoopInvariant, TheLastWordStands, HeapStays, PTL

\* The list says what the user and the operator mean, and the heap fits.
THEOREM TheListSaysWhatIsMeant == EnvSpec => []SaysWhatIsMeant
  BY TheLastWordStands, TheHeapFits, PTL DEF SaysWhatIsMeant
=============================================================================
