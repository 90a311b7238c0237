---------------------------- MODULE ServerProcess ----------------------------
(***************************************************************************)
(* The life of one server process: RunE and wrapRunOAuthServerServer of    *)
(* app/server.go, ReadConfig of app/options and NewOAuthServerAPIServer    *)
(* and Run of pkg/apiserver.                                               *)
(*                                                                         *)
(* Three goroutines take part: main, the server's, and the one that Run    *)
(* starts to wait for the inner context and shut the server down.          *)
(***************************************************************************)
EXTENDS ServerConfig

CONSTANTS
  ConfigFiles,  \* configuration files, as viper unmarshals them
  Worlds,       \* surroundings in which the process may be started
  Req,          \* requests of clients
  Nil           \* not set

ASSUME FilesAssumption == ConfigFiles \subseteq Config /\ Worlds \subseteq World
ASSUME NilAssumption == Nil \notin Cluster \cup {NoCluster}

VARIABLES
  config,    \* the configuration, completed in place
  world,     \* the surroundings of the process
  pc,        \* where main is
  srv,       \* where the goroutine of the server is
  closer,    \* the goroutine that waits for the inner context
  outer,     \* the signal context is done
  inner,     \* the inner context is cancelled
  errCh,     \* the error channel
  listener,  \* what the process listens for
  keysFrom,  \* the cluster that the keys and client secrets were read from
  usersIn,   \* the cluster that users and tokens are kept in
  exit,      \* how the process ended
  conn       \* what became of each request

vars == <<config, world, pc, srv, closer, outer, inner, errCh, listener,
          keysFrom, usersIn, exit, conn>>

Running == exit = "running"

TypeOK ==
  /\ config \in Config /\ world \in World
  /\ pc \in {"read", "secrets", "validate", "wait", "return0", "return1"}
  /\ srv \in {"none", "make", "run", "listen", "serving", "failed", "ended"}
  /\ closer \in {"none", "waiting", "done"}
  /\ outer \in BOOLEAN /\ inner \in BOOLEAN
  /\ errCh \in {"none", "open", "closed"}
  /\ listener \in {"none", "http", "https"}
  /\ keysFrom \in Cluster \cup {NoCluster, Nil}
  /\ usersIn \in Cluster \cup {NoCluster, Nil}
  /\ exit \in {"running", "0", "1", "panic", "killed"}
  /\ conn \in [Req -> {"none", "active", "answered", "cut"}]

Init ==
  /\ config \in ConfigFiles /\ world \in Worlds
  /\ pc = "read" /\ srv = "none" /\ closer = "none"
  /\ outer = FALSE /\ inner = FALSE /\ errCh = "none"
  /\ listener = "none" /\ keysFrom = Nil /\ usersIn = Nil
  /\ exit = "running"
  /\ conn = [r \in Req |-> "none"]

\* The process ends: its sockets close, whatever is still being answered.
Exit(how) ==
  /\ exit' = how
  /\ listener' = "none"
  /\ conn' = [r \in Req |-> IF conn[r] = "active" THEN "cut" ELSE conn[r]]

Stay == UNCHANGED <<exit, listener, conn>>

-----------------------------------------------------------------------------
(* main *)

\* Mutant: ReadConfig asks for the default client, whatever the file says.
ReadConfigDefault ==
  /\ Running /\ pc = "read"
  /\ \/ Exit("1") /\ UNCHANGED <<pc, keysFrom>>
     \/ /\ KubeConfig(Missing, world) # NoCluster
        /\ keysFrom' = KubeConfig(Missing, world)
        /\ pc' = "secrets"
        /\ Stay
  /\ UNCHANGED <<config, world, srv, closer, outer, inner, errCh, usersIn>>

\* Options and ReadConfig up to GetKubernetesClient: no file, a file that
\* cannot be read and no cluster are fatal.
ReadConfig ==
  /\ Running /\ pc = "read"
  /\ \/ Exit("1") /\ UNCHANGED <<pc, keysFrom>>
     \/ /\ KubeConfig(config.k8s, world) # NoCluster
        /\ keysFrom' = KubeConfig(config.k8s, world)
        /\ pc' = "secrets"
        /\ Stay
  /\ UNCHANGED <<config, world, srv, closer, outer, inner, errCh, usersIn>>

\* The rest of ReadConfig: each secret that cannot be read is fatal, and what
\* is read is put in sections that Complete has not filled in yet.
ReadSecrets ==
  /\ Running /\ pc = "secrets"
  /\ \/ Exit("1") /\ UNCHANGED <<pc, config>>
     \/ /\ Missing \in {config.oauth, config.idpLoginStore}
        /\ Exit("panic") /\ UNCHANGED <<pc, config>>
     \/ /\ Missing \notin {config.oauth, config.idpLoginStore}
        /\ \E some \in BOOLEAN :
             config' = [config EXCEPT !.oauth.jwtKey = TRUE,
                                      !.oauth.clients = some,
                                      !.idpLoginStore.keys = TRUE]
        /\ pc' = "validate"
        /\ Stay
  /\ UNCHANGED <<world, srv, closer, outer, inner, errCh, keysFrom, usersIn>>

\* Mutant: errors of Validate are logged only.
ValidateLenient ==
  /\ Running /\ pc = "validate"
  /\ config' = Validated(Complete(config, world))
  /\ pc' = "wait" /\ srv' = "make" /\ errCh' = "open"
  /\ Stay
  /\ UNCHANGED <<world, closer, outer, inner, keysFrom, usersIn>>

\* Complete, Validate, SetupSignalContext and the start of the server.
Validate ==
  /\ Running /\ pc = "validate"
  /\ config' = Validated(Complete(config, world))
  /\ \/ /\ Errors(Complete(config, world)) # {}
        /\ Exit("1") /\ UNCHANGED <<pc, srv, errCh>>
     \/ /\ Errors(Complete(config, world)) = {}
        /\ pc' = "wait" /\ srv' = "make" /\ errCh' = "open"
        /\ Stay
  /\ UNCHANGED <<world, closer, outer, inner, keysFrom, usersIn>>

\* Mutant: the inner context is not cancelled when the wrapper returns.
SelectLeaks ==
  /\ Running /\ pc = "wait"
  /\ \/ outer /\ pc' = "return0" /\ UNCHANGED srv
     \/ srv = "failed" /\ pc' = "return1" /\ srv' = "ended"
  /\ errCh' = "closed"
  /\ Stay
  /\ UNCHANGED <<config, world, closer, outer, inner, keysFrom, usersIn>>

\* Mutant: after a signal the wrapper waits for an error of the server.
SelectOnlyCancels ==
  /\ Running /\ pc = "wait"
  /\ \/ outer /\ UNCHANGED <<pc, srv, errCh>>
     \/ srv = "failed" /\ pc' = "return1" /\ srv' = "ended" /\ errCh' = "closed"
  /\ inner' = TRUE
  /\ Stay
  /\ UNCHANGED <<config, world, closer, outer, keysFrom, usersIn>>

\* The select of wrapRunOAuthServerServer and its deferred close.
Select ==
  /\ Running /\ pc = "wait"
  /\ \/ outer /\ pc' = "return0" /\ UNCHANGED srv
     \/ srv = "failed" /\ pc' = "return1" /\ srv' = "ended"
  /\ inner' = TRUE /\ errCh' = "closed"
  /\ Stay
  /\ UNCHANGED <<config, world, closer, outer, keysFrom, usersIn>>

\* Mutant: the error of the server is dropped.
ReturnNil ==
  /\ Running /\ pc \in {"return0", "return1"} /\ Exit("0")
  /\ UNCHANGED <<config, world, pc, srv, closer, outer, inner, errCh,
                 keysFrom, usersIn>>

\* cli.Run returns and main ends.
Return ==
  /\ Running
  /\ \/ pc = "return0" /\ Exit("0")
     \/ pc = "return1" /\ Exit("1")
  /\ UNCHANGED <<config, world, pc, srv, closer, outer, inner, errCh,
                 keysFrom, usersIn>>

-----------------------------------------------------------------------------
(* The goroutine of the server *)

\* NewOAuthServerAPIServer: the HTTP server, then a second Kubernetes client,
\* from the completed section.
NewServer ==
  /\ Running /\ srv = "make"
  /\ \/ /\ ~ Loads(config.http)
        /\ srv' = "failed" /\ Stay /\ UNCHANGED usersIn
     \/ /\ Loads(config.http)
        /\ KubeConfig(config.k8s, world) = NoCluster
        /\ Exit("1") /\ UNCHANGED <<srv, usersIn>>
     \/ /\ Loads(config.http)
        /\ KubeConfig(config.k8s, world) # NoCluster
        /\ usersIn' = KubeConfig(config.k8s, world)
        /\ srv' = "run" /\ Stay
  /\ UNCHANGED <<config, world, pc, closer, outer, inner, errCh, keysFrom>>

\* Run starts the goroutine that will close the server.
Run ==
  /\ Running /\ srv = "run"
  /\ srv' = "listen" /\ closer' = "waiting"
  /\ Stay
  /\ UNCHANGED <<config, world, pc, outer, inner, errCh, keysFrom, usersIn>>

\* Mutant: a server that cannot listen ends without an error.
ListenQuietly ==
  /\ Running /\ srv = "listen"
  /\ \/ srv' = "ended" /\ UNCHANGED listener
     \/ /\ closer # "done"
        /\ ListenPort(config.http) = "inRange"
        /\ listener' = Scheme(config.http) /\ srv' = "serving"
  /\ UNCHANGED <<config, world, pc, closer, outer, inner, errCh, keysFrom,
                 usersIn, exit, conn>>

\* ListenAndServe: the port may be taken; a server already shut down returns
\* ErrServerClosed, which is no error.
ListenAndServe ==
  /\ Running /\ srv = "listen"
  /\ \/ closer = "done" /\ srv' = "ended" /\ UNCHANGED listener
     \/ closer # "done" /\ srv' = "failed" /\ UNCHANGED listener
     \/ /\ closer # "done"
        /\ ListenPort(config.http) = "inRange"
        /\ listener' = Scheme(config.http) /\ srv' = "serving"
  /\ UNCHANGED <<config, world, pc, closer, outer, inner, errCh, keysFrom,
                 usersIn, exit, conn>>

\* Serve returns: it was shut down, or the listener failed.
ServeReturns ==
  /\ Running /\ srv = "serving"
  /\ \/ closer = "done" /\ srv' = "ended"
     \/ closer # "done" /\ srv' = "failed"
  /\ listener' = "none"
  /\ UNCHANGED <<config, world, pc, closer, outer, inner, errCh, keysFrom,
                 usersIn, exit, conn>>

\* A goroutine that sends on the closed channel panics.
SendOnClosed ==
  /\ Running /\ srv = "failed" /\ errCh = "closed"
  /\ Exit("panic")
  /\ UNCHANGED <<config, world, pc, srv, closer, outer, inner, errCh,
                 keysFrom, usersIn>>

\* Shutdown closes the listener and begins to wait for active requests.  How long
\* it waits is left open, as nothing waits for it: the deferred cancel of Run ends
\* the wait once ListenAndServe has returned.
Shutdown ==
  /\ Running /\ closer = "waiting" /\ inner
  /\ closer' = "done" /\ listener' = "none"
  /\ UNCHANGED <<config, world, pc, srv, outer, inner, errCh, keysFrom,
                 usersIn, exit, conn>>

-----------------------------------------------------------------------------
(* What happens to the process *)

\* SIGINT or SIGTERM: fatal before SetupSignalContext has registered a handler
\* and the second time.
Signal ==
  /\ Running
  /\ \/ errCh = "none" /\ Exit("killed") /\ UNCHANGED outer
     \/ errCh # "none" /\ ~ outer /\ outer' = TRUE /\ Stay
     \/ outer /\ Exit("1") /\ UNCHANGED outer
  /\ UNCHANGED <<config, world, pc, srv, closer, inner, errCh, keysFrom, usersIn>>

Kill ==
  /\ Running /\ Exit("killed")
  /\ UNCHANGED <<config, world, pc, srv, closer, outer, inner, errCh,
                 keysFrom, usersIn>>

\* TLS asks for a certificate that a certificate of the CA file has signed.
Connect(r) ==
  /\ listener # "none" /\ conn[r] = "none"
  /\ listener = "https" => config.http.ca = "good"
  /\ conn' = [conn EXCEPT ![r] = "active"]
  /\ UNCHANGED <<config, world, pc, srv, closer, outer, inner, errCh, listener,
                 keysFrom, usersIn, exit>>

Respond(r) ==
  /\ Running /\ conn[r] = "active"
  /\ conn' = [conn EXCEPT ![r] = "answered"]
  /\ UNCHANGED <<config, world, pc, srv, closer, outer, inner, errCh, listener,
                 keysFrom, usersIn, exit>>

Main == ReadConfig \/ ReadSecrets \/ Validate \/ Select \/ Return
Server == NewServer \/ Run \/ ListenAndServe \/ SendOnClosed

Next ==
  \/ Main \/ Server \/ ServeReturns \/ Shutdown
  \/ Signal \/ Kill
  \/ \E r \in Req : Connect(r) \/ Respond(r)

Spec == Init /\ [][Next]_vars

\* The scheduler runs every goroutine that can run; a listener need not fail.
LiveSpec ==
  Spec /\ WF_vars(Main) /\ WF_vars(Server) /\ WF_vars(Shutdown)

-----------------------------------------------------------------------------
(* Properties *)

\* What the goroutines know of each other: where main is decides whether the
\* channel is open and the inner context alive, and while main waits the
\* goroutine of the server has not given up in silence (server.go:68-88).
Phases ==
  /\ errCh = "none" <=> pc \in {"read", "secrets", "validate"}
  /\ errCh = "closed" <=> pc \in {"return0", "return1"}
  /\ errCh = "none" <=> srv = "none"
  /\ inner <=> errCh = "closed"
  /\ closer = "done" => inner
  /\ pc = "wait" => srv # "ended"
  /\ pc = "return0" => outer
  /\ pc = "return1" => srv = "ended"

Ready ==
  /\ pc \notin {"read", "secrets"} =>
       config.idpLoginStore # Missing /\ config.idpLoginStore.keys
  /\ errCh # "none" =>
       /\ \A section \in DOMAIN config : config[section] # Missing
       /\ Errors(config) = {}

Serving ==
  /\ srv \in {"run", "listen", "serving"} => Loads(config.http)
  /\ listener # "none" => srv = "serving" /\ listener = Scheme(config.http)

Clusters ==
  /\ keysFrom # NoCluster
  /\ Running /\ pc \in {"secrets", "validate"} =>
       keysFrom = KubeConfig(config.k8s, world)
  /\ usersIn # Nil => errCh # "none" /\ usersIn = KubeConfig(config.k8s, world)
  /\ errCh # "none" =>
       \/ keysFrom = KubeConfig(config.k8s, world)
       \/ /\ config.k8s.kubeConfigFile = "home"
          /\ keysFrom = "pod" /\ KubeConfig(config.k8s, world) = "home"

\* A process that accepts requests does so with a complete and valid
\* configuration, with the keys that its cookies and tokens need, and over TLS
\* exactly if the configuration asks for it (options.go:55-79, server.go:47).
ServesAsConfigured ==
  listener # "none" =>
    /\ \A section \in DOMAIN config : config[section] # Missing
    /\ Errors(config) = {}
    /\ config.idpLoginStore.keys
    /\ listener = IF config.http.https = "zero" THEN "http" ELSE "https"
    /\ listener = "https" => config.http.cert = "good" /\ config.http.key = "good"

\* ReadConfig and NewOAuthServerAPIServer make a client each, before and after
\* Complete.  They may reach two clusters only if the file has no K8SConfig, in
\* a pod with a kubeconfig in its home (options.go:69, oauthserver.go:62).
OneCluster ==
  usersIn # Nil =>
    \/ keysFrom = usersIn
    \/ config.k8s.kubeConfigFile = "home" /\ keysFrom = "pod" /\ usersIn = "home"

\* The process ends with success only on a signal, and panics only over a file
\* without one of two sections, or if the server fails while a signal ends it
\* (options.go:76-88, server.go:69-85).
EndsForAReason ==
  /\ exit = "0" => outer
  /\ exit = "panic" =>
       \/ pc = "secrets" /\ Missing \in {config.oauth, config.idpLoginStore}
       \/ outer /\ srv = "failed"

\* The inductive invariant: the above and what is promised of the end.
IInv == TypeOK /\ Phases /\ Ready /\ Serving /\ Clusters /\ EndsForAReason

\* A process that has started serves or ends; it does not hang between
\* (server.go:72-88).
ServesOrEnds == Running ~> (listener # "none" \/ ~ Running)

\* A signal ends the process whatever its goroutines are doing (server.go:80).
SignalEnds == outer ~> ~ Running

\* "gracefully shutdown the server" (oauthserver.go:123): a process that ends
\* with success has answered every request that it took.
Drained == exit = "0" => \A r \in Req : conn[r] # "cut"
=============================================================================
