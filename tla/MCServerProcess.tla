--------------------------- MODULE MCServerProcess ---------------------------
(***************************************************************************)
(* Instances of ServerProcess: files that differ from a good one in one    *)
(* section, or in two of those that meet each other at the start.          *)
(***************************************************************************)
EXTENDS ServerProcess, Naturals, FiniteSets

Good ==
  [http |-> [http |-> "zero", https |-> "inRange", cert |-> "good",
             key |-> "good", ca |-> "good"],
   idpLoginStore |-> [sessionName |-> TRUE, keys |-> FALSE],
   ipProtector |-> [failTimes |-> TRUE, failDuration |-> TRUE,
                    lockDuration |-> TRUE],
   k8s |-> [kubeConfigFile |-> "named"],
   login |-> [provider |-> TRUE],
   oauth |-> [codeTokenNamespace |-> FALSE, jwtKey |-> FALSE, clients |-> FALSE]]

K8sSections == {Missing} \cup [kubeConfigFile : {"unset", "named"}]

\* Any ports, and at most one file that is not good.
OneFileOff ==
  {h \in Http : Cardinality({f \in {"cert", "key", "ca"} : h[f] # "good"}) <= 1}

OneOff ==
  {[Good EXCEPT !.http = h] : h \in OneFileOff \cup {Missing}}
  \cup {[Good EXCEPT !.k8s = k] : k \in K8sSections}
  \cup {[Good EXCEPT !.ipProtector = p] : p \in IPProtector \cup {Missing}}
  \cup {[Good EXCEPT !.login = l] : l \in LoginConfig \cup {Missing}}
  \cup {[Good EXCEPT !.idpLoginStore = s, !.oauth = o] :
          s \in {Good.idpLoginStore, [Good.idpLoginStore EXCEPT !.sessionName = FALSE],
                 Missing},
          o \in {Good.oauth, Missing}}

==============================================================================
