------------------------- MODULE ServerProcessProofs -------------------------
(***************************************************************************)
(* Proofs about ServerProcess, for any configuration file, any             *)
(* surroundings and any number of requests.                                *)
(***************************************************************************)
EXTENDS ServerProcess, TLAPS

-----------------------------------------------------------------------------
(***************************************************************************)
(* The configuration.                                                      *)
(***************************************************************************)
\* A client is made for a cluster, or none can be.
LEMMA KubeConfigType ==
  ASSUME NEW w \in World, NEW k \in K8s \cup {Missing}
  PROVE  KubeConfig(k, w) \in Cluster \cup {NoCluster}
BY DEF KubeConfig, IsGood, Cluster

\* Complete leaves no section out.
LEMMA CompleteType ==
  ASSUME NEW w \in World, NEW c \in Config
  PROVE  /\ Complete(c, w) \in Config
         /\ \A section \in DOMAIN Complete(c, w) : Complete(c, w)[section] # Missing
<1> DEFINE d == Complete(c, w)
<1>1. d.http \in Http
  BY DEF Complete, Or, Config, DefaultHttp, Http, Port, File
<1>2. d.idpLoginStore \in IDPLoginStore
  BY DEF Complete, Or, Config, DefaultIDPLoginStore, IDPLoginStore
<1>3. d.ipProtector \in IPProtector
  BY DEF Complete, Or, Config, DefaultIPProtector, IPProtector
<1>4. d.k8s \in K8s
  BY DEF Complete, Or, Config, DefaultK8s, K8s
<1>5. d.login \in LoginConfig
  BY DEF Complete, Or, Config, DefaultLogin, LoginConfig
<1>6. d.oauth \in OAuth
  BY DEF Complete, Or, Config, DefaultOAuth, OAuth
<1>7. d = [http |-> d.http, idpLoginStore |-> d.idpLoginStore,
           ipProtector |-> d.ipProtector, k8s |-> d.k8s,
           login |-> d.login, oauth |-> d.oauth]
  BY DEF Complete
<1> HIDE DEF d
<1>8. d \in Config
  BY <1>1, <1>2, <1>3, <1>4, <1>5, <1>6, <1>7 DEF Config
<1>9. \A section \in DOMAIN d : d[section] # Missing
  BY <1>1, <1>2, <1>3, <1>4, <1>5, <1>6, <1>7, MissingAssumption
<1> QED BY <1>8, <1>9 DEF d

\* Nor does Validate, which changes nothing that it looks at.
LEMMA ValidatedType ==
  ASSUME NEW d \in Config, d.oauth # Missing
  PROVE  /\ Validated(d) \in Config
         /\ DOMAIN Validated(d) = DOMAIN d
         /\ \A section \in DOMAIN d \ {"oauth"} : Validated(d)[section] = d[section]
         /\ Validated(d).oauth # Missing
         /\ Errors(Validated(d)) = Errors(d)
<1> DEFINE v == Validated(d)
           o == [d.oauth EXCEPT !.codeTokenNamespace = TRUE]
<1>1. d.oauth \in OAuth
  BY DEF Config
<1>2. o \in OAuth /\ o.jwtKey = d.oauth.jwtKey /\ o.clients = d.oauth.clients
  BY <1>1 DEF OAuth
<1>3. v = [d EXCEPT !.oauth = o]
  BY DEF Validated
<1> HIDE DEF v, o
<1>4. /\ v \in Config /\ DOMAIN v = DOMAIN d /\ v.oauth = o
      /\ \A section \in DOMAIN d \ {"oauth"} : v[section] = d[section]
  BY <1>2, <1>3 DEF Config
<1>5. Errors(v) = Errors(d)
  BY <1>2, <1>4 DEF Errors, OAuthErrors, Config
<1> QED BY <1>2, <1>4, <1>5, MissingAssumption DEF v
-----------------------------------------------------------------------------
(***************************************************************************)
(* Every step keeps the inductive invariant.                               *)
(***************************************************************************)
LEMMA InitInv == Init => IInv
<1> SUFFICES ASSUME Init PROVE IInv
  OBVIOUS
<1>1. TypeOK
  BY FilesAssumption, NilAssumption DEF Init, TypeOK
<1>2. Phases /\ Ready /\ Serving /\ EndsForAReason
  BY DEF Init, Phases, Ready, Serving, EndsForAReason
<1>3. Clusters
  BY NilAssumption DEF Init, Clusters
<1> QED BY <1>1, <1>2, <1>3 DEF IInv

\* The part of the state that the end of the process changes.
LEMMA OutcomeType ==
  ASSUME TypeOK, NEW how \in {"0", "1", "panic", "killed"}, Exit(how) \/ Stay
  PROVE  /\ exit' \in {"running", "0", "1", "panic", "killed"}
         /\ listener' \in {"none", "http", "https"}
         /\ conn' \in [Req -> {"none", "active", "answered", "cut"}]
<1>1. CASE Stay
  BY <1>1 DEF Stay, TypeOK
<1>2. CASE Exit(how)
  BY <1>2 DEF Exit, TypeOK
<1> QED BY <1>1, <1>2

LEMMA ReadConfigStep ==
  ASSUME IInv, ReadConfig
  PROVE  IInv'
<1> USE DEF IInv, ReadConfig, Exit, Stay, Running
<1>0. KubeConfig(config.k8s, world) \in Cluster \cup {NoCluster}
  BY KubeConfigType DEF TypeOK, Config
<1>1. TypeOK'
  BY <1>0, NilAssumption DEF TypeOK
<1>2. Phases'
  BY DEF Phases
<1>3. Ready'
  BY DEF Ready, Phases
<1>4. Serving'
  BY DEF Serving
<1>5. Clusters'
  BY <1>0, NilAssumption DEF Clusters, Phases
<1>6. EndsForAReason'
  BY DEF EndsForAReason, Phases
<1> QED BY <1>1, <1>2, <1>3, <1>4, <1>5, <1>6

LEMMA SelectStep ==
  ASSUME IInv, Select
  PROVE  IInv'
<1> USE DEF IInv, Select, Exit, Stay, Running
<1>1. TypeOK'
  BY DEF TypeOK
<1>2. Phases'
  BY DEF Phases
<1>3. Ready'
  BY DEF Ready, Phases
<1>4. Serving'
  BY DEF Serving
<1>5. Clusters'
  BY DEF Clusters, Phases
<1>6. EndsForAReason'
  BY DEF EndsForAReason, Phases
<1> QED BY <1>1, <1>2, <1>3, <1>4, <1>5, <1>6

LEMMA ReturnStep ==
  ASSUME IInv, Return
  PROVE  IInv'
<1> USE DEF IInv, Return, Exit, Stay, Running
<1>1. TypeOK'
  BY DEF TypeOK
<1>2. Phases'
  BY DEF Phases
<1>3. Ready'
  BY DEF Ready, Phases
<1>4. Serving'
  BY DEF Serving
<1>5. Clusters'
  BY DEF Clusters, Phases
<1>6. EndsForAReason'
  BY DEF EndsForAReason, Phases
<1> QED BY <1>1, <1>2, <1>3, <1>4, <1>5, <1>6

LEMMA NewServerStep ==
  ASSUME IInv, NewServer
  PROVE  IInv'
<1> USE DEF IInv, NewServer, Exit, Stay, Running
<1>0. KubeConfig(config.k8s, world) \in Cluster \cup {NoCluster}
  BY KubeConfigType DEF TypeOK, Config
<1>1. TypeOK'
  BY <1>0, NilAssumption DEF TypeOK
<1>2. Phases'
  BY DEF Phases
<1>3. Ready'
  BY DEF Ready, Phases
<1>4. Serving'
  BY DEF Serving
<1>5. Clusters'
  BY <1>0, NilAssumption DEF Clusters, Phases
<1>6. EndsForAReason'
  BY DEF EndsForAReason, Phases
<1> QED BY <1>1, <1>2, <1>3, <1>4, <1>5, <1>6

LEMMA RunStep ==
  ASSUME IInv, Run
  PROVE  IInv'
<1> USE DEF IInv, Run, Exit, Stay, Running
<1>1. TypeOK'
  BY DEF TypeOK
<1>2. Phases'
  BY DEF Phases
<1>3. Ready'
  BY DEF Ready, Phases
<1>4. Serving'
  BY DEF Serving
<1>5. Clusters'
  BY DEF Clusters, Phases
<1>6. EndsForAReason'
  BY DEF EndsForAReason, Phases
<1> QED BY <1>1, <1>2, <1>3, <1>4, <1>5, <1>6

LEMMA ListenAndServeStep ==
  ASSUME IInv, ListenAndServe
  PROVE  IInv'
<1> USE DEF IInv, ListenAndServe, Exit, Stay, Running
<1>1. TypeOK'
  BY DEF TypeOK, Scheme
<1>2. Phases'
  BY DEF Phases
<1>3. Ready'
  BY DEF Ready, Phases
<1>4. Serving'
  BY DEF Serving
<1>5. Clusters'
  BY DEF Clusters, Phases
<1>6. EndsForAReason'
  BY DEF EndsForAReason, Phases
<1> QED BY <1>1, <1>2, <1>3, <1>4, <1>5, <1>6

LEMMA ServeReturnsStep ==
  ASSUME IInv, ServeReturns
  PROVE  IInv'
<1> USE DEF IInv, ServeReturns, Exit, Stay, Running
<1>1. TypeOK'
  BY DEF TypeOK
<1>2. Phases'
  BY DEF Phases
<1>3. Ready'
  BY DEF Ready, Phases
<1>4. Serving'
  BY DEF Serving
<1>5. Clusters'
  BY DEF Clusters, Phases
<1>6. EndsForAReason'
  BY DEF EndsForAReason, Phases
<1> QED BY <1>1, <1>2, <1>3, <1>4, <1>5, <1>6

LEMMA SendOnClosedStep ==
  ASSUME IInv, SendOnClosed
  PROVE  IInv'
<1> USE DEF IInv, SendOnClosed, Exit, Stay, Running
<1>1. TypeOK'
  BY DEF TypeOK
<1>2. Phases'
  BY DEF Phases
<1>3. Ready'
  BY DEF Ready, Phases
<1>4. Serving'
  BY DEF Serving
<1>5. Clusters'
  BY DEF Clusters, Phases
<1>6. EndsForAReason'
  BY DEF EndsForAReason, Phases
<1> QED BY <1>1, <1>2, <1>3, <1>4, <1>5, <1>6

LEMMA ShutdownStep ==
  ASSUME IInv, Shutdown
  PROVE  IInv'
<1> USE DEF IInv, Shutdown, Exit, Stay, Running
<1>1. TypeOK'
  BY DEF TypeOK
<1>2. Phases'
  BY DEF Phases
<1>3. Ready'
  BY DEF Ready, Phases
<1>4. Serving'
  BY DEF Serving
<1>5. Clusters'
  BY DEF Clusters, Phases
<1>6. EndsForAReason'
  BY DEF EndsForAReason, Phases
<1> QED BY <1>1, <1>2, <1>3, <1>4, <1>5, <1>6

LEMMA SignalStep ==
  ASSUME IInv, Signal
  PROVE  IInv'
<1> USE DEF IInv, Signal, Exit, Stay, Running
<1>1. TypeOK'
  <2>1. Exit("killed") \/ Exit("1") \/ Stay
    OBVIOUS
  <2> HIDE DEF Exit, Stay
  <2>2. /\ exit' \in {"running", "0", "1", "panic", "killed"}
        /\ listener' \in {"none", "http", "https"}
        /\ conn' \in [Req -> {"none", "active", "answered", "cut"}]
    BY <2>1, OutcomeType
  <2>3. outer' \in BOOLEAN
    BY DEF TypeOK
  <2>4. UNCHANGED <<config, world, pc, srv, closer, inner, errCh, keysFrom, usersIn>>
    OBVIOUS
  <2> HIDE DEF Signal
  <2> QED BY <2>2, <2>3, <2>4 DEF TypeOK
<1>2. Phases'
  BY DEF Phases
<1>3. Ready'
  BY DEF Ready, Phases
<1>4. Serving'
  BY DEF Serving
<1>5. Clusters'
  BY DEF Clusters, Phases
<1>6. EndsForAReason'
  BY DEF EndsForAReason, Phases
<1> QED BY <1>1, <1>2, <1>3, <1>4, <1>5, <1>6

LEMMA KillStep ==
  ASSUME IInv, Kill
  PROVE  IInv'
<1> USE DEF IInv, Kill, Exit, Stay, Running
<1>1. TypeOK'
  BY DEF TypeOK
<1>2. Phases'
  BY DEF Phases
<1>3. Ready'
  BY DEF Ready, Phases
<1>4. Serving'
  BY DEF Serving
<1>5. Clusters'
  BY DEF Clusters, Phases
<1>6. EndsForAReason'
  BY DEF EndsForAReason, Phases
<1> QED BY <1>1, <1>2, <1>3, <1>4, <1>5, <1>6

\* The sections are there before they are written to.
LEMMA ReadSecretsStep ==
  ASSUME IInv, ReadSecrets
  PROVE  IInv'
<1> USE DEF IInv, ReadSecrets, Running
<1>1. CASE UNCHANGED <<pc, config>>
  <2>0. Exit("1") \/ Exit("panic") \/ Stay
    OBVIOUS
  <2>1. TypeOK'
    BY <1>1, <2>0, OutcomeType DEF TypeOK
  <2>2. Phases' /\ Ready' /\ Serving'
    BY <1>1 DEF Phases, Ready, Serving, Exit, Stay
  <2>3. Clusters' /\ EndsForAReason'
    BY <1>1 DEF Clusters, EndsForAReason, Phases, Exit, Stay
  <2> QED BY <2>1, <2>2, <2>3
<1>2. CASE pc' = "validate"
  <2>1. /\ config.oauth \in OAuth /\ config.idpLoginStore \in IDPLoginStore
        /\ Stay
    BY <1>2 DEF TypeOK, Config
  <2>2. PICK some \in BOOLEAN :
          config' = [config EXCEPT !.oauth.jwtKey = TRUE,
                                   !.oauth.clients = some,
                                   !.idpLoginStore.keys = TRUE]
    BY <1>2
  <2> DEFINE o == [config.oauth EXCEPT !.jwtKey = TRUE, !.clients = some]
             l == [config.idpLoginStore EXCEPT !.keys = TRUE]
  <2>3. o \in OAuth /\ l \in IDPLoginStore
    BY <2>1 DEF OAuth, IDPLoginStore
  <2>4. config' = [config EXCEPT !.oauth = o, !.idpLoginStore = l]
    <3>1. DOMAIN config = {"http", "idpLoginStore", "ipProtector", "k8s",
                           "login", "oauth"}
      BY DEF TypeOK, Config
    <3> QED BY <2>2, <3>1
  <2> HIDE DEF o, l
  <2>5. /\ config' \in Config /\ config'.k8s = config.k8s
        /\ config'.idpLoginStore = l
    BY <2>3, <2>4 DEF TypeOK, Config
  <2>6. TypeOK'
    <3>1. UNCHANGED <<world, srv, closer, outer, inner, errCh, keysFrom, usersIn>>
      OBVIOUS
    <3> HIDE DEF ReadSecrets
    <3> QED BY <1>2, <2>1, <2>5, <3>1 DEF TypeOK, Stay
  <2>7. Phases' /\ Serving' /\ EndsForAReason'
    BY <1>2, <2>1 DEF Phases, Serving, EndsForAReason, Stay
  <2>8. Ready'
    <3>1. l # Missing /\ l.keys
      BY <2>1, <2>3, MissingAssumption DEF IDPLoginStore, l
    <3>2. errCh' = "none"
      BY DEF Phases
    <3> QED BY <2>5, <3>1, <3>2 DEF Ready
  <2>9. Clusters'
    BY <1>2, <2>1, <2>5 DEF Clusters, Phases, Stay
  <2> QED BY <2>6, <2>7, <2>8, <2>9
<1> QED BY <1>1, <1>2

\* A client made before Complete is one for the same cluster after it, or
\* Complete has named the file in the home directory.
LEMMA SameClient ==
  ASSUME NEW w \in World, NEW c \in Config,
         KubeConfig(c.k8s, w) # NoCluster
  PROVE  LET d == Complete(c, w) IN
         \/ KubeConfig(d.k8s, w) = KubeConfig(c.k8s, w)
         \/ /\ d.k8s.kubeConfigFile = "home"
            /\ KubeConfig(c.k8s, w) = "pod" /\ KubeConfig(d.k8s, w) = "home"
<1>1. CASE c.k8s # Missing
  BY <1>1 DEF Complete, Or
<1>2. CASE c.k8s = Missing
  <2>1. Complete(c, w).k8s = DefaultK8s(w)
    BY <1>2 DEF Complete, Or
  <2>2. DefaultK8s(w) \in K8s
    BY DEF DefaultK8s, K8s
  <2>3. DefaultK8s(w) # Missing
    BY <2>2, MissingAssumption
  <2>4. DefaultK8s(w).kubeConfigFile = IF w.home # "none" THEN "home" ELSE "unset"
    BY DEF DefaultK8s
  <2> QED BY <1>2, <2>1, <2>3, <2>4 DEF KubeConfig, IsGood, World
<1> QED BY <1>1, <1>2

LEMMA ValidateStep ==
  ASSUME IInv, Validate
  PROVE  IInv'
<1> USE DEF IInv, Validate, Exit, Stay, Running
<1> DEFINE d == Complete(config, world)
           v == Validated(d)
<1>1. d \in Config /\ \A section \in DOMAIN d : d[section] # Missing
  BY CompleteType DEF TypeOK
<1>2. DOMAIN d = {"http", "idpLoginStore", "ipProtector", "k8s", "login", "oauth"}
  BY DEF Complete
<1>3. config.idpLoginStore # Missing => d.idpLoginStore = config.idpLoginStore
  BY DEF Complete, Or
<1>4. config' = v
  OBVIOUS
<1>5. v = Validated(d)
  OBVIOUS
<1>6. \/ KubeConfig(d.k8s, world) = KubeConfig(config.k8s, world)
      \/ /\ d.k8s.kubeConfigFile = "home"
         /\ KubeConfig(config.k8s, world) = "pod" /\ KubeConfig(d.k8s, world) = "home"
  BY SameClient DEF TypeOK, Clusters
<1>7. \/ Exit("1") /\ UNCHANGED <<pc, srv, errCh>>
      \/ /\ Errors(d) = {}
         /\ pc' = "wait" /\ srv' = "make" /\ errCh' = "open" /\ Stay
  OBVIOUS
<1>8. /\ errCh = "none" /\ srv = "none" /\ ~ inner /\ closer # "done"
      /\ Running /\ pc = "validate"
      /\ UNCHANGED <<world, closer, outer, inner, keysFrom, usersIn>>
  BY DEF Phases
<1> HIDE DEF d, v, Validate, Exit, Stay
<1>9. /\ v \in Config
      /\ \A section \in DOMAIN v : v[section] # Missing
      /\ Errors(v) = Errors(d)
      /\ v.k8s = d.k8s /\ v.idpLoginStore = d.idpLoginStore
  BY <1>1, <1>2, <1>5, ValidatedType
<1>10. TypeOK'
  BY <1>4, <1>7, <1>8, <1>9, OutcomeType DEF TypeOK
<1>11. Phases'
  BY <1>7, <1>8 DEF Phases
<1>12. Serving' /\ EndsForAReason'
  BY <1>7, <1>8 DEF Serving, EndsForAReason, Phases, Exit, Stay
<1>13. Ready'
  BY <1>3, <1>4, <1>7, <1>8, <1>9 DEF Ready
<1>14. Clusters'
  BY <1>4, <1>6, <1>7, <1>8, <1>9 DEF Clusters, Exit, Stay
<1> QED BY <1>10, <1>11, <1>12, <1>13, <1>14

LEMMA ConnectStep ==
  ASSUME IInv, NEW r \in Req, Connect(r) \/ Respond(r)
  PROVE  IInv'
<1> USE DEF IInv, Connect, Respond, Running
<1>1. TypeOK'
  BY DEF TypeOK
<1>2. Phases' /\ Ready' /\ Serving' /\ Clusters' /\ EndsForAReason'
  BY DEF Phases, Ready, Serving, Clusters, EndsForAReason
<1> QED BY <1>1, <1>2

LEMMA StutterStep ==
  ASSUME IInv, UNCHANGED vars
  PROVE  IInv'
BY DEF IInv, vars, TypeOK, Phases, Ready, Serving, Clusters, EndsForAReason, Running

LEMMA NextInv == IInv /\ [Next]_vars => IInv'
<1> SUFFICES ASSUME IInv, [Next]_vars PROVE IInv'
  OBVIOUS
<1>1. CASE Main
  BY <1>1, ReadConfigStep, ReadSecretsStep, ValidateStep, SelectStep, ReturnStep
     DEF Main
<1>2. CASE Server
  BY <1>2, NewServerStep, RunStep, ListenAndServeStep, SendOnClosedStep DEF Server
<1>3. CASE ServeReturns \/ Shutdown \/ Signal \/ Kill
  BY <1>3, ServeReturnsStep, ShutdownStep, SignalStep, KillStep
<1>4. CASE \E r \in Req : Connect(r) \/ Respond(r)
  BY <1>4, ConnectStep
<1>5. CASE UNCHANGED vars
  BY <1>5, StutterStep
<1> QED BY <1>1, <1>2, <1>3, <1>4, <1>5 DEF Next

-----------------------------------------------------------------------------
(***************************************************************************)
(* The theorems.                                                           *)
(***************************************************************************)
\* The inductive invariant of the process: what its goroutines know of each
\* other, whenever they take their steps (server.go:68-88).
THEOREM ProcessInvariant == Spec => []IInv
BY InitInv, NextInv, PTL DEF Spec

\* A process that accepts requests has a complete and valid configuration and
\* its keys, and listens as the configuration says.
THEOREM ServingAsConfigured == Spec => []ServesAsConfigured
<1>1. IInv => ServesAsConfigured
  <2> SUFFICES ASSUME IInv, listener # "none" PROVE ServesAsConfigured
    BY DEF ServesAsConfigured
  <2>1. srv = "serving" /\ listener = Scheme(config.http) /\ Loads(config.http)
    BY DEF IInv, Serving
  <2>2. errCh # "none" /\ pc \notin {"read", "secrets"}
    BY <2>1 DEF IInv, Phases
  <2>3. Scheme(config.http) = "https" => config.http.https # "zero"
    BY DEF Scheme
  <2> QED BY <2>1, <2>2, <2>3 DEF IInv, Ready, ServesAsConfigured, Loads, Scheme
<1> QED BY <1>1, ProcessInvariant, PTL

\* Keys and users come from one cluster, but for the case that the default of
\* Complete names another.
THEOREM OneClusterOnly == Spec => []OneCluster
<1>1. IInv => OneCluster
  BY DEF IInv, Clusters, OneCluster
<1> QED BY <1>1, ProcessInvariant, PTL

\* A process ends with success only on a signal, and panics for two reasons.
THEOREM EndsExplained == Spec => []EndsForAReason
<1>1. IInv => EndsForAReason
  BY DEF IInv
<1> QED BY <1>1, ProcessInvariant, PTL
=============================================================================
