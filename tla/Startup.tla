------------------------------- MODULE Startup -------------------------------
(***************************************************************************)
(* The life of the server process (cmd/cloud-update/main.go): loading the  *)
(* configuration and TLS settings (infrastructure/config), the             *)
(* authenticator's demand on the secret (infrastructure/security/auth.go), *)
(* the listener, the goroutine that waits for a signal, and the deferred   *)
(* calls.  Of the pool there is whether it takes tasks, whether any are    *)
(* unfinished, and how its Shutdown ended; of the logger, whether it is    *)
(* open.                                                                   *)
(*                                                                         *)
(* The certificate and the key are looked at three times: by Validate,     *)
(* whose verdict is only logged, by GetTLSConfig and by ListenAndServeTLS. *)
(* Each is replaced by a renewal whenever that happens.  signal.Notify is  *)
(* called in the goroutine: a signal before it ends the process at once.   *)
(***************************************************************************)
EXTENDS Integers

CONSTANTS
    MaxVersion,  \* bound of the model: renewals of the certificate
    MaxSignals   \* bound of the model: signals sent

ASSUME StartupAssumption == MaxVersion \in Nat \ {0} /\ MaxSignals \in Nat \ {0}

VARIABLES
    envSecret,  \* CLOUD_UPDATE_SECRET: "empty", "short" or "good"
    portFree,   \* whether the port can be bound
    tlsEnv,     \* CLOUD_UPDATE_TLS_ENABLED and CLOUD_UPDATE_TLS_AUTO
    tls,        \* tlsConfig: "off", "auto" or "manual"
    cert, key,  \* on disk: the version of the certificate and of the key, 0 for none
    mainPc,     \* where main is
    read,       \* the version of the certificate that LoadX509KeyPair has read
    config,     \* serverTLSConfig: the version of its pair; 0 is nil
    served,     \* what the server speaks: "nothing", "http" or "https"
    pair,       \* the version of the pair that it serves
    floor,      \* the version that was complete on disk when the port was bound
    handler,    \* the goroutine: "absent", "spawned", "waiting" or "signalled"
    sigChan,    \* whether a signal is in the channel
    sent,       \* the number of signals sent
    logger,     \* "none", "open" or "closed"
    pool,       \* "none", "running", "closing", "stopped" or "abandoned"
    requests,   \* whether handlers are at work
    tasks,      \* whether the pool has tasks that are not finished
    process     \* "running", "exit0", "exit1" or "killed"

envVars == <<envSecret, portFree, tlsEnv, sent>>
fileVars == <<cert, key>>
serverVars == <<read, config, served, pair, floor>>
signalVars == <<handler, sigChan>>
workVars == <<requests, tasks>>
deferVars == <<logger, pool, workVars>>
processVars == <<envVars, tls, fileVars, mainPc, serverVars, signalVars, deferVars, process>>

\* LoadTLSConfig: Enabled and Auto as one mode.
LoadTLSConfig ==
    IF ~tlsEnv.enabled THEN "off" ELSE IF tlsEnv.auto THEN "auto" ELSE "manual"

ProcessInit ==
    /\ envSecret \in {"empty", "short", "good"}
    /\ portFree \in BOOLEAN
    /\ tlsEnv \in [enabled : BOOLEAN, auto : BOOLEAN] /\ tls = "off"
    /\ cert \in 0 .. 1 /\ key \in 0 .. 1
    /\ mainPc = "load"
    /\ read = 0 /\ config = 0 /\ served = "nothing" /\ pair = 0 /\ floor = 0
    /\ handler = "absent" /\ sigChan = FALSE /\ sent = 0
    /\ logger = "none" /\ pool = "none"
    /\ requests = FALSE /\ tasks = FALSE
    /\ process = "running"

At(label) == process = "running" /\ mainPc = label
Goto(label) == mainPc' = label /\ UNCHANGED process

\* log.Fatal and logger.Fatalf: the deferred calls do not run.
Fatal == process' = "exit1" /\ UNCHANGED mainPc

-----------------------------------------------------------------------------
(* main up to the listener.                                                *)

\* config.Load, which insists on a secret.
Load ==
    /\ At("load")
    /\ IF envSecret = "empty" THEN Fatal ELSE Goto("logger")
    /\ UNCHANGED <<envVars, tls, fileVars, serverVars, signalVars, deferVars>>

\* logger.Initialize; an error is not fatal.  Close is deferred.
InitializeLogger ==
    /\ At("logger")
    /\ logger' = "open"
    /\ Goto("authenticator")
    /\ UNCHANGED <<envVars, tls, fileVars, serverVars, signalVars, pool, workVars>>

\* NewHMACAuthenticator wants 32 characters.
Authenticate ==
    /\ At("authenticator")
    /\ IF envSecret # "good" THEN Fatal ELSE Goto("pool")
    /\ UNCHANGED <<envVars, tls, fileVars, serverVars, signalVars, deferVars>>

\* NewPool, its deferred Shutdown, the handlers and the routes.
StartPool ==
    /\ At("pool")
    /\ pool' = "running"
    /\ Goto("validate")
    /\ UNCHANGED <<envVars, tls, fileVars, serverVars, signalVars, logger, workVars>>

\* LoadTLSConfig; Validate, which looks for the domain or the files, and whose
\* error is only logged.
ConfigureTLS ==
    /\ At("validate")
    /\ tls' = LoadTLSConfig
    /\ Goto(IF tls' = "manual" THEN "configCert" ELSE "spawn")
    /\ UNCHANGED <<envVars, fileVars, serverVars, signalVars, deferVars>>

\* LoadX509KeyPair reads the certificate ...
ReadCert(label, next) ==
    /\ At(label)
    /\ IF cert = 0 THEN Fatal /\ UNCHANGED read ELSE read' = cert /\ Goto(next)
    /\ UNCHANGED <<envVars, tls, fileVars, config, served, pair, floor, signalVars,
                   deferVars>>

\* ... then the key, and fails unless they belong together.
GetTLSConfig ==
    /\ At("configKey")
    /\ IF key = read
       THEN config' = read /\ Goto("spawn")
       ELSE Fatal /\ UNCHANGED config
    /\ UNCHANGED <<envVars, tls, fileVars, read, served, pair, floor, signalVars, deferVars>>

\* The goroutine is created; it runs when it is scheduled.
Spawn ==
    /\ At("spawn")
    /\ handler' = "spawned"
    /\ Goto("listen")
    /\ UNCHANGED <<envVars, tls, fileVars, serverVars, sigChan, deferVars>>

-----------------------------------------------------------------------------
(* The server.  After Shutdown it does not begin to serve, and returns     *)
(* ErrServerClosed if it does already.                                     *)

ShutDown == handler = "signalled"

\* ListenAndServe and ListenAndServeTLS bind the port first.
Listen ==
    /\ At("listen")
    /\ CASE ShutDown -> Goto("stop") /\ UNCHANGED floor
         [] ~ShutDown /\ ~portFree -> Fatal /\ UNCHANGED floor
         [] OTHER -> /\ Goto(IF tls = "manual" THEN "serveCert" ELSE "serve")
                     /\ floor' = key
    /\ UNCHANGED <<envVars, tls, fileVars, read, config, served, pair, signalVars, deferVars>>

\* Bug: ListenAndServeTLS without file names serves the pair of the TLS config.
ServeTLSConfigured ==
    /\ At("serveKey")
    /\ IF ShutDown
       THEN Goto("stop") /\ UNCHANGED <<served, pair>>
       ELSE served' = "https" /\ pair' = config /\ Goto("serving")
    /\ UNCHANGED <<envVars, tls, fileVars, read, config, floor, signalVars, deferVars>>

\* ListenAndServeTLS loads the files again, although TLSConfig has a pair.
ServeTLS ==
    /\ At("serveKey")
    /\ CASE key # read -> Fatal /\ UNCHANGED <<served, pair>>
         [] key = read /\ ShutDown -> Goto("stop") /\ UNCHANGED <<served, pair>>
         [] OTHER -> served' = "https" /\ pair' = read /\ Goto("serving")
    /\ UNCHANGED <<envVars, tls, fileVars, read, config, floor, signalVars, deferVars>>

\* ListenAndServe, also when automatic certificates are asked for, which are
\* "not yet implemented".
Serve ==
    /\ At("serve")
    /\ IF ShutDown
       THEN Goto("stop") /\ UNCHANGED served
       ELSE served' = "http" /\ Goto("serving")
    /\ UNCHANGED <<envVars, tls, fileVars, read, config, pair, floor, signalVars, deferVars>>

\* Bug: every error of the server is fatal, ErrServerClosed too.
ServeReturnsFatal ==
    /\ At("serving") /\ ShutDown
    /\ served' = "nothing"
    /\ Fatal
    /\ UNCHANGED <<envVars, tls, fileVars, read, config, pair, floor, signalVars, deferVars>>

\* ErrServerClosed is not fatal: main returns.
ServeReturns ==
    /\ At("serving") /\ ShutDown
    /\ served' = "nothing"
    /\ Goto("stop")
    /\ UNCHANGED <<envVars, tls, fileVars, read, config, pair, floor, signalVars, deferVars>>

\* Bug: the pool is shut down in a goroutine, for which main does not wait.
StopPoolUnawaited ==
    /\ At("stop")
    /\ pool' = "closing"
    /\ Goto("close")
    /\ UNCHANGED <<envVars, tls, fileVars, serverVars, signalVars, logger, workVars>>

\* The deferred calls, the last one first.  Pool.Shutdown takes no more tasks ...
StopPool ==
    /\ At("stop")
    /\ pool' = "closing"
    /\ Goto("waiting")
    /\ UNCHANGED <<envVars, tls, fileVars, serverVars, signalVars, logger, workVars>>

\* ... and returns when the last one has finished ...
PoolDrained ==
    /\ At("waiting") /\ ~tasks
    /\ pool' = "stopped"
    /\ Goto("close")
    /\ UNCHANGED <<envVars, tls, fileVars, serverVars, signalVars, logger, workVars>>

\* ... or after 30 seconds, with an error that is only logged.
PoolTimedOut ==
    /\ At("waiting")
    /\ pool' = "abandoned"
    /\ Goto("close")
    /\ UNCHANGED <<envVars, tls, fileVars, serverVars, signalVars, logger, workVars>>

\* logger.Close.
CloseLogger ==
    /\ At("close")
    /\ logger' = "closed"
    /\ Goto("return")
    /\ UNCHANGED <<envVars, tls, fileVars, serverVars, signalVars, pool, workVars>>

\* main returns, whatever still runs.
MainReturns ==
    /\ At("return")
    /\ process' = "exit0"
    /\ UNCHANGED <<envVars, tls, fileVars, mainPc, serverVars, signalVars, deferVars>>

Main ==
    \/ Load \/ InitializeLogger \/ Authenticate \/ StartPool \/ ConfigureTLS
    \/ ReadCert("configCert", "configKey") \/ GetTLSConfig \/ Spawn
    \/ Listen \/ ReadCert("serveCert", "serveKey") \/ ServeTLS \/ Serve
    \/ ServeReturns \/ StopPool \/ PoolDrained \/ PoolTimedOut \/ CloseLogger \/ MainReturns

-----------------------------------------------------------------------------
(* Signals, and the files on disk.                                         *)

Notify ==
    /\ process = "running" /\ handler = "spawned"
    /\ handler' = "waiting"
    /\ UNCHANGED <<envVars, tls, fileVars, mainPc, serverVars, sigChan, deferVars, process>>

\* The signal is received and server.Shutdown is called.
Shutdown ==
    /\ process = "running" /\ handler = "waiting" /\ sigChan
    /\ handler' = "signalled" /\ sigChan' = FALSE
    /\ UNCHANGED <<envVars, tls, fileVars, mainPc, serverVars, deferVars, process>>

Goroutine == Notify \/ Shutdown

\* Bug: a channel without a buffer; a signal is lost unless its receiver waits.
SignalUnbuffered ==
    /\ process = "running" /\ sent < MaxSignals
    /\ sent' = sent + 1
    /\ IF handler \in {"absent", "spawned"}
       THEN process' = "killed" /\ UNCHANGED sigChan
       ELSE sigChan' \in {sigChan, TRUE} /\ UNCHANGED process
    /\ UNCHANGED <<envSecret, portFree, tlsEnv, tls, fileVars, mainPc, serverVars, handler,
                   deferVars>>

\* SIGINT or SIGTERM.  The channel has room for one; more are dropped.
Signal ==
    /\ process = "running" /\ sent < MaxSignals
    /\ sent' = sent + 1
    /\ IF handler \in {"absent", "spawned"}
       THEN process' = "killed" /\ UNCHANGED sigChan
       ELSE sigChan' = TRUE /\ UNCHANGED process
    /\ UNCHANGED <<envSecret, portFree, tlsEnv, tls, fileVars, mainPc, serverVars, handler,
                   deferVars>>

\* A renewal writes the certificate, then the key.
Renew ==
    /\ process = "running"
    /\ \/ cert <= key /\ cert < MaxVersion /\ cert' = cert + 1 /\ UNCHANGED key
       \/ cert > key /\ key' = cert /\ UNCHANGED cert
    /\ UNCHANGED <<envVars, tls, mainPc, serverVars, signalVars, deferVars, process>>

-----------------------------------------------------------------------------
(* Webhooks.                                                               *)

ReceiveRequest ==
    /\ process = "running" /\ served # "nothing"
    /\ requests' = TRUE
    /\ UNCHANGED <<envVars, tls, fileVars, mainPc, serverVars, signalVars, logger, pool, tasks,
                   process>>

\* A handler submits its task, if it has one and the pool takes it, and returns;
\* perhaps it was the last one at work.  A Submit that has looked at the flag
\* before Pool.Shutdown set it may still send.  server.Shutdown waits for
\* handlers, but main does not wait for server.Shutdown.
HandleRequest ==
    /\ process = "running" /\ requests
    /\ requests' \in BOOLEAN
    /\ \/ UNCHANGED tasks
       \/ pool \in {"running", "closing"} /\ tasks' = TRUE
    /\ UNCHANGED <<envVars, tls, fileVars, mainPc, serverVars, signalVars, logger, pool, process>>

\* The last of the pool's tasks ends.
TasksEnd ==
    /\ process = "running" /\ tasks
    /\ tasks' = FALSE
    /\ UNCHANGED <<envVars, tls, fileVars, mainPc, serverVars, signalVars, logger, pool, requests,
                   process>>

Work == ReceiveRequest \/ HandleRequest \/ TasksEnd

\* The server handles requests; a process that has ended stays so.
Rest == (mainPc = "serving" \/ process # "running") /\ UNCHANGED processVars

ProcessNext == Main \/ Goroutine \/ Signal \/ Renew \/ Work \/ Rest

\* main, its goroutine and the timer of Pool.Shutdown run; nobody need send a
\* signal, a request or a renewal, and a task need not end.
ProcessSpec ==
    /\ ProcessInit /\ [][ProcessNext]_processVars
    /\ WF_processVars(Main) /\ WF_processVars(Goroutine)

-----------------------------------------------------------------------------
(* Properties.                                                             *)

\* The service is reached only as it was configured: with a secret of full
\* length; by HTTPS only if TLS is enabled with files, and then with a pair no
\* older than the one that was complete on disk when the port was bound,
\* although an older one may be in the TLS config (ListenAndServeTLS); by plain
\* HTTP never where those files were asked for, whatever Validate found and
\* whatever happened to them since.  Automatic certificates are the exception:
\* with them TLS is enabled, main announces HTTPS and serves plain HTTP.
ServedAsConfigured ==
    served # "nothing" =>
        /\ envSecret = "good"
        /\ served = "https" => tlsEnv.enabled /\ ~tlsEnv.auto /\ pair >= floor
        /\ served = "http" => ~tlsEnv.enabled \/ tlsEnv.auto

\* The end is orderly.  Workers log, and are lost when main returns: the logger
\* is closed, which is the last thing before that, only when no task is
\* unfinished, or when Pool.Shutdown has given one up after its timeout.  The
\* process reports failure only for a cause outside it, and never once it has
\* begun to serve: a bad secret, a port in use, or files that are missing or do
\* not belong together when they are read.  A stop by a signal, at whatever
\* moment of the start, is none.
OrderlyEnd ==
    /\ logger = "closed" /\ tasks => pool = "abandoned"
    /\ process = "exit1" =>
          /\ mainPc # "serving"
          /\ \/ envSecret # "good"
             \/ ~portFree
             \/ tlsEnv.enabled /\ ~tlsEnv.auto /\ (cert = 0 \/ key # read)

\* A signal ends the process, whenever it comes: before the goroutine has
\* registered, between that and the receive, while the server is still being
\* set up, or while another signal is handled.
SignalEnds == sent > 0 ~> process # "running"

=============================================================================
