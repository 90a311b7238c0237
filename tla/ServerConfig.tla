---------------------------- MODULE ServerConfig -----------------------------
(***************************************************************************)
(* The configuration of the server: packages app/config, app/options,      *)
(* pkg/config and the options of pkg/httpserver.                           *)
(*                                                                         *)
(* The file has six sections, each of which may be left out.  ReadConfig   *)
(* adds keys and clients from secrets, Complete fills in missing sections  *)
(* and Validate refuses what is wrong in them.  A field is reduced to what *)
(* these distinguish: set or zero, a file that is absent, unusable or      *)
(* good, a port that is zero, usable or out of range.                      *)
(***************************************************************************)
CONSTANTS
  Missing,   \* a section that the file leaves out
  NoCluster  \* no way to reach an API server

Port == {"zero", "inRange", "outOfRange"}
File == {"unset", "absent", "unusable", "good"}

Http == [http : Port, https : Port, cert : File, key : File, ca : File]
IDPLoginStore == [sessionName : BOOLEAN, keys : BOOLEAN]
IPProtector == [failTimes : BOOLEAN, failDuration : BOOLEAN,
                lockDuration : BOOLEAN]
K8s == [kubeConfigFile : {"unset", "named", "home"}]
LoginConfig == [provider : BOOLEAN]
OAuth == [codeTokenNamespace : BOOLEAN, jwtKey : BOOLEAN, clients : BOOLEAN]

Config ==
  [http : Http \cup {Missing}, idpLoginStore : IDPLoginStore \cup {Missing},
   ipProtector : IPProtector \cup {Missing}, k8s : K8s \cup {Missing},
   login : LoginConfig \cup {Missing}, oauth : OAuth \cup {Missing}]

ASSUME MissingAssumption ==
  Missing \notin UNION {Http, IDPLoginStore, IPProtector, K8s, LoginConfig, OAuth}

\* Where the process runs: in a pod of a cluster or not, the kubeconfig in its
\* home directory, and whether the one the configuration names is good.
World == [inCluster : BOOLEAN, home : {"none", "bad", "good"}, named : BOOLEAN]

Cluster == {"pod", "home", "named"}

ASSUME ClusterAssumption == NoCluster \notin Cluster

-----------------------------------------------------------------------------
\* NewDefaultOAuthAPIServerServerConfig.
DefaultHttp ==
  [http |-> "inRange", https |-> "zero",
   cert |-> "unset", key |-> "unset", ca |-> "unset"]
DefaultIDPLoginStore == [sessionName |-> TRUE, keys |-> FALSE]
DefaultIPProtector ==
  [failTimes |-> TRUE, failDuration |-> TRUE, lockDuration |-> TRUE]
DefaultK8s(w) ==
  [kubeConfigFile |-> IF w.home # "none" THEN "home" ELSE "unset"]
DefaultLogin == [provider |-> TRUE]
DefaultOAuth == [codeTokenNamespace |-> TRUE, jwtKey |-> FALSE, clients |-> TRUE]

Or(section, default) == IF section = Missing THEN default ELSE section

Complete(c, w) ==
  [http |-> Or(c.http, DefaultHttp),
   idpLoginStore |-> Or(c.idpLoginStore, DefaultIDPLoginStore),
   ipProtector |-> Or(c.ipProtector, DefaultIPProtector),
   k8s |-> Or(c.k8s, DefaultK8s(w)),
   login |-> Or(c.login, DefaultLogin),
   oauth |-> Or(c.oauth, DefaultOAuth)]

-----------------------------------------------------------------------------
\* Validate of each section: the errors it returns.
HttpErrors(h) ==
  {e \in {"ports"} : h.http = "zero" /\ h.https = "zero"} \cup
  {f \in {"cert", "key", "ca"} :
     h.https = "inRange" /\ h[f] \in {"unset", "absent"}}

LoginErrors(l) == {e \in {"provider"} : ~ l.provider}

ProtectorErrors(p) ==
  {e \in {"protector"} :
     /\ ~ ((~ p.failTimes /\ ~ p.failDuration) \/ ~ p.lockDuration)
     /\ ~ p.failTimes \/ ~ p.failDuration \/ ~ p.lockDuration}

IDPLoginStoreErrors(s) == {e \in {"sessionName"} : ~ s.sessionName}

OAuthErrors(o) ==
  {e \in {"jwtKey"} : ~ o.jwtKey} \cup {e \in {"clients"} : ~ o.clients}

Errors(c) ==
  HttpErrors(c.http) \cup LoginErrors(c.login) \cup
  ProtectorErrors(c.ipProtector) \cup IDPLoginStoreErrors(c.idpLoginStore) \cup
  OAuthErrors(c.oauth)

\* Validate also puts the default namespace in.
Validated(c) == [c EXCEPT !.oauth.codeTokenNamespace = TRUE]

-----------------------------------------------------------------------------
\* GetKubeConfigOrInClusterConfig: the file of the section, else the pod's own
\* cluster, else the file in the home directory.
IsGood(file, w) ==
  \/ file = "named" /\ w.named
  \/ file = "home" /\ w.home = "good"

KubeConfig(k, w) ==
  IF k # Missing /\ IsGood(k.kubeConfigFile, w) THEN k.kubeConfigFile
  ELSE IF w.inCluster THEN "pod"
  ELSE IF IsGood("home", w) THEN "home" ELSE NoCluster

\* NewHttpServer: what it serves, or an error.
Scheme(h) == IF h.https = "zero" THEN "http" ELSE "https"
Loads(h) ==
  h.https # "zero" =>
    h.cert = "good" /\ h.key = "good" /\ h.ca \in {"unusable", "good"}
ListenPort(h) == IF h.https = "zero" THEN h.http ELSE h.https
=============================================================================
