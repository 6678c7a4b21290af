------------------------------ MODULE CdsMain ------------------------------
(***************************************************************************)
(* The cds command (src/cmd/cds/main.go) and the ClusterWatcher it starts  *)
(* (src/unnamed/part_002): parse flags, create the xDS server and register *)
(* it with gRPC and /config_dump, connect to Kubernetes out of cluster or  *)
(* in cluster, load the glue config, start WatchServices on its own        *)
(* goroutine with context.Background(), then serve.  Every error on the   *)
(* way is zap's Fatal: log and os.Exit(1), which ends every goroutine.     *)
(*                                                                         *)
(* Once started, the watcher's reflector publishes versions of the store  *)
(* (its first list, then watch events).  Whether the reflector's list     *)
(* ever succeeds is up to the API server, so it is not assumed.           *)
(***************************************************************************)
EXTENDS Naturals, FiniteSets

CONSTANTS
    MaxVersion   \* bound on versions the reflector publishes

VARIABLES
    mpc,        \* where main is
    kubeconfig, \* --kubeconfig was given
    master,     \* --master was given
    cfgFile,    \* --config was given
    registered, \* the CDS service and /config_dump handler are registered
    watcher,    \* the ClusterWatcher: "none", "out" (of cluster) or "in"
    cfg,        \* the glue config: "none", "default" or "file"
    wpc,        \* the WatchServices goroutine: "off" or "running"
    wctx,       \* the context WatchServices runs with: "none" or "background"
    version     \* version of the server's store

vars == <<mpc, kubeconfig, master, cfgFile, registered, watcher, cfg, wpc, wctx, version>>

MainSteps == {"setup", "register", "connect", "config", "watch", "serve",
              "serving", "fatal"}

\* kflags and flags: only whether each string is empty matters.
Flags == [kubeconfig : BOOLEAN, master : BOOLEAN, cfgFile : BOOLEAN]

\* kf.Kubeconfig != "" || kf.Master != "": connect from outside the cluster.
OutOfCluster == kubeconfig \/ master

\* ConnectOutOfCluster: BuildConfigFromFlags, then NewForConfig; each can
\* fail.
OutOfClusterResults == {"ok", "build config", "new client"}

\* ConnectInCluster: InClusterConfig, then NewForConfig; each can fail.
InClusterResults == {"ok", "in-cluster config", "new client"}

\* glue.LoadConfig on the --config file.
LoadConfigResults == {"ok", "read config"}

Goto(step) == mpc' = step

\* zap.L().Fatal: log, then os.Exit(1).
Fatal == Goto("fatal")

\* server.Setup parses the flags into f and kf.
Setup ==
    /\ mpc = "setup"
    /\ \E fl \in Flags :
          kubeconfig' = fl.kubeconfig /\ master' = fl.master /\ cfgFile' = fl.cfgFile
    /\ Goto("register")
    /\ UNCHANGED <<registered, watcher, cfg, wpc, wctx, version>>

\* NewServer, AddService (RegisterClusterDiscoveryServiceServer) and
\* http.Handle("/config_dump", svc).
Register ==
    /\ mpc = "register"
    /\ registered' = TRUE
    /\ Goto("connect")
    /\ UNCHANGED <<kubeconfig, master, cfgFile, watcher, cfg, wpc, wctx, version>>

\* Mutant of ConnectOut: an error is logged but main carries on.
ConnectOutNotFatal ==
    /\ mpc = "connect" /\ OutOfCluster
    /\ \E r \in OutOfClusterResults :
          /\ watcher' = IF r = "ok" THEN "out" ELSE "none"
          /\ Goto("config")
    /\ UNCHANGED <<kubeconfig, master, cfgFile, registered, cfg, wpc, wctx, version>>

\* With a kubeconfig or a master URL: connect from outside the cluster.
ConnectOut ==
    /\ mpc = "connect" /\ OutOfCluster
    /\ \E r \in OutOfClusterResults :
          IF r = "ok" THEN watcher' = "out" /\ Goto("config")
                      ELSE UNCHANGED watcher /\ Fatal
    /\ UNCHANGED <<kubeconfig, master, cfgFile, registered, cfg, wpc, wctx, version>>

\* Otherwise: connect from a pod inside the cluster.
ConnectIn ==
    /\ mpc = "connect" /\ ~OutOfCluster
    /\ \E r \in InClusterResults :
          IF r = "ok" THEN watcher' = "in" /\ Goto("config")
                      ELSE UNCHANGED watcher /\ Fatal
    /\ UNCHANGED <<kubeconfig, master, cfgFile, registered, cfg, wpc, wctx, version>>

\* glue.DefaultConfig(), replaced by the --config file when one is given.
LoadConfig ==
    /\ mpc = "config"
    /\ IF ~cfgFile
       THEN cfg' = "default" /\ Goto("watch")
       ELSE \E r \in LoadConfigResults :
               IF r = "ok" THEN cfg' = "file" /\ Goto("watch")
                           ELSE UNCHANGED cfg /\ Fatal
    /\ UNCHANGED <<kubeconfig, master, cfgFile, registered, watcher, wpc, wctx, version>>

\* go watcher.WatchServices(context.Background(), store): the reflector
\* runs until the context is done, which Background never is.
StartWatcher ==
    /\ mpc = "watch"
    /\ wpc' = "running" /\ wctx' = "background"
    /\ Goto("serve")
    /\ UNCHANGED <<kubeconfig, master, cfgFile, registered, watcher, cfg, version>>

\* server.ListenAndServe: serve until the process is stopped.
ListenAndServe ==
    /\ mpc = "serve"
    /\ Goto("serving")
    /\ UNCHANGED <<kubeconfig, master, cfgFile, registered, watcher, cfg, wpc, wctx, version>>

\* The reflector stores its first list (Replace) or a watch event.
Reflect ==
    /\ wpc = "running" /\ mpc # "fatal" /\ version < MaxVersion
    /\ version' = version + 1
    /\ UNCHANGED <<mpc, kubeconfig, master, cfgFile, registered, watcher, cfg, wpc, wctx>>

Init ==
    /\ mpc = "setup" /\ kubeconfig = FALSE /\ master = FALSE /\ cfgFile = FALSE
    /\ registered = FALSE /\ watcher = "none" /\ cfg = "none"
    /\ wpc = "off" /\ wctx = "none"
    /\ version = 0

Next ==
    \/ Setup \/ Register \/ ConnectOut \/ ConnectIn \/ LoadConfig
    \/ StartWatcher \/ ListenAndServe \/ Reflect

\* main runs on one goroutine that is always runnable until it serves or
\* exits.  The reflector is not assumed to do anything.
Fairness ==
    WF_vars(Setup \/ Register \/ ConnectOut \/ ConnectIn \/ LoadConfig
            \/ StartWatcher \/ ListenAndServe)

Spec == Init /\ [][Next]_vars /\ Fairness

-----------------------------------------------------------------------------
\* Every error path of main is fatal: the WatchServices goroutine only ever
\* runs with a connected ClusterWatcher (a nil one would panic in
\* WatchServices) and a loaded config, and what it reads is the flags'
\* choice of connection.
WatcherConnected ==
    wpc = "running" =>
        /\ watcher = IF OutOfCluster THEN "out" ELSE "in"
        /\ cfg = IF cfgFile THEN "file" ELSE "default"

=============================================================================
