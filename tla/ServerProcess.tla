---------------------------- MODULE ServerProcess ----------------------------
(***************************************************************************)
(* The process of the API: cmd/server/main.go with what it builds and, in   *)
(* reverse order, takes down.  main runs from one stage to the next; beside *)
(* it run the goroutine of ListenAndServe, the periodic reader of the meter *)
(* provider and the handlers of the requests (module RequestChain).         *)
(*                                                                          *)
(* exit says how the process ended: "no" while it runs, "orderly", "panic"  *)
(* (an uncaught panic of main), "fatal" (os.Exit without deferred calls),   *)
(* "killed" (a signal before NotifyContext) or "crash" (a panic in another  *)
(* goroutine).                                                              *)
(***************************************************************************)
EXTENDS EnvConfig, Naturals, Sequences

CONSTANTS
  Requests,   \* the requests that clients may send
  Envs,       \* the environments the process may be started in
  Outages     \* what may fail besides: see OutageKinds

OutageKinds == {"otel", "db", "migrate", "storage", "listen", "sync"}

ASSUME EnvAssumption == Envs \subseteq Environments /\ NoConfig \notin Configs
ASSUME OutageAssumption == Outages \subseteq OutageKinds

VARIABLES
  env,        \* the environment, fixed
  instance,   \* config.instance
  main,       \* the stage of main
  exit,       \* how the process ended
  panicking,  \* a deferred call of main has panicked
  signalled,  \* serverCtx is done
  expired,    \* the ten seconds of Shutdown ran out
  db,         \* the connection pool
  tracer,     \* the tracer provider
  meter,      \* the meter provider
  redis,      \* the client the queue and its depth callback hold
  listener,   \* the goroutine of ListenAndServe
  active,     \* HTTPActiveRequests
  records,    \* the statuses recorded for each request by HTTPRequestCount
  exported    \* the requests that are part of the last export

startVars == <<env, instance, tracer, redis>>
stopVars == <<exit, panicking, signalled, expired>>
meterVars == <<meter, active, records, exported>>
processVars == <<startVars, stopVars, meterVars, main, db, listener>>

ProcessInit ==
  /\ env \in Envs
  /\ instance = NoConfig
  /\ main = "config"
  /\ exit = "no"
  /\ panicking = FALSE
  /\ signalled = FALSE
  /\ expired = FALSE
  /\ db = "none"
  /\ tracer = "none"
  /\ meter = "none"
  /\ redis = "none"
  /\ listener = "none"
  /\ active = 0
  /\ records = [r \in Requests |-> <<>>]
  /\ exported = {}

Alive == exit = "no"

\* main leaves the stage "from" for the stage "to".
Step(from, to) == Alive /\ main = from /\ main' = to

\* The process ends in the stage "from" without running deferred calls.
End(from, how) ==
  /\ Alive
  /\ main = from
  /\ exit' = how
  /\ UNCHANGED <<startVars, panicking, signalled, expired, meterVars, main, db,
                 listener>>

Fatal(from, cause) == cause \in Outages /\ End(from, "fatal")

-----------------------------------------------------------------------------
(* Starting *)

\* InitializeConfig, config.Init, NotifyContext and the logger.
Configure ==
  /\ Step("config", "tracer")
  /\ GetEnvConfig(env) # NoConfig
  /\ instance' = GetEnvConfig(env)
  /\ UNCHANGED <<env, tracer, redis, stopVars, meterVars, db, listener>>

ConfigPanics == GetEnvConfig(env) = NoConfig /\ End("config", "panic")

\* Resource attributes that cannot be found are only a warning; the exporter
\* must be created.
InitTracer ==
  /\ Step("tracer", "metrics")
  /\ tracer' = "open"
  /\ UNCHANGED <<env, instance, redis, stopVars, meterVars, db, listener>>

InitMetrics ==
  /\ Step("metrics", "db")
  /\ meter' = "open"
  /\ UNCHANGED <<startVars, stopVars, active, records, exported, db, listener>>

NewPostgresDB ==
  /\ Step("db", "migrate")
  /\ db' = "open"
  /\ UNCHANGED <<startVars, stopVars, meterVars, listener>>

\* RunMigrations, when AUTO_MIGRATE asks for it (see module Migrations).
Migrate ==
  /\ Step("migrate", "server")
  /\ UNCHANGED <<startVars, stopVars, meterVars, db, listener>>

\* NewAssetService: without a storage client it is fatal; the error of the Redis
\* client is not looked at, and NewRedisQueue registers the depth callback with
\* what there is.
NewAssetService ==
  /\ StorageNew(instance)
  /\ redis' = MustGetRedisClient(instance)

\* NewServer with NewRouter; then the goroutine that will listen is started.
NewServer ==
  /\ Step("server", "wait")
  /\ NewAssetService
  /\ listener' = "starting"
  /\ UNCHANGED <<env, instance, tracer, stopVars, meterVars, db>>

StartFails ==
  \/ Fatal("tracer", "otel")
  \/ Fatal("metrics", "otel")
  \/ Fatal("db", "db")
  \/ Fatal("migrate", "migrate") /\ instance.autoMigrate
  \/ Fatal("server", "storage") /\ StorageNew(instance)
  \/ End("server", "fatal") /\ ~ StorageNew(instance)

\* A mutant: a listener that starts late opens all the same.
ListenAnyway ==
  /\ Alive
  /\ listener = "starting"
  /\ listener' = "listening"
  /\ UNCHANGED <<startVars, stopVars, meterVars, main, db>>

\* Start: after Shutdown has begun ListenAndServe returns ErrServerClosed.
ListenAndServe ==
  /\ Alive
  /\ listener = "starting"
  /\ listener' = IF main = "wait" THEN "listening" ELSE "closed"
  /\ UNCHANGED <<startVars, stopVars, meterVars, main, db>>

\* The listening socket cannot be had; the goroutine may find out after the
\* signal, between its look at the shutdown flag and net.Listen.
ListenFails == listener = "starting" /\ Fatal(main, "listen")

-----------------------------------------------------------------------------
(* Running *)

\* A signal ends serverCtx; before NotifyContext it ends the process, and
\* once the context is done another one changes nothing.
Signal ==
  /\ Alive
  /\ ~ signalled
  /\ IF main = "config" THEN exit' = "killed" /\ UNCHANGED signalled
                        ELSE signalled' = TRUE /\ UNCHANGED exit
  /\ UNCHANGED <<startVars, panicking, expired, meterVars, main, db, listener>>

\* The periodic reader calls the callbacks of the gauges; the one of the queue
\* depth reads the stream's length through a client that may be nil.  What a
\* tick exports is left out: the sums are cumulative, so that each export, the
\* last one included, stands for all before it.
DepthCallbackPanics == redis = "nil"

CollectPanics == meter = "open" /\ DepthCallbackPanics /\ End(main, "crash")

-----------------------------------------------------------------------------
(* Stopping: Shutdown, then the deferred calls in reverse order *)

\* Shutdown closes the listener first.
Stop ==
  /\ Step("wait", "stop")
  /\ signalled
  /\ listener' = IF listener = "listening" THEN "closed" ELSE listener
  /\ UNCHANGED <<startVars, stopVars, meterVars, db>>

\* A mutant: Close instead of Shutdown, which does not wait.
DrainedAtOnce(busy) ==
  /\ Step("stop", "closeDB")
  /\ UNCHANGED <<startVars, stopVars, meterVars, db, listener>>

\* Shutdown returns when no connection is busy, or after ten seconds.
Drained(busy) ==
  /\ ~ busy
  /\ Step("stop", "closeDB")
  /\ UNCHANGED <<startVars, stopVars, meterVars, db, listener>>

\* A mutant: Shutdown with a context that never ends.
GraceUnlimited(busy) == busy /\ Alive /\ FALSE /\ UNCHANGED processVars

GraceExpires(busy) ==
  /\ busy
  /\ Step("stop", "closeDB")
  /\ expired' = TRUE
  /\ UNCHANGED <<startVars, exit, panicking, signalled, meterVars, db, listener>>

CloseDB ==
  /\ Step("closeDB", "stopMetrics")
  /\ db' = "closed"
  /\ UNCHANGED <<startVars, stopVars, meterVars, listener>>

Recorded == {r \in Requests : records[r] # <<>>}

\* A mutant: the provider is dropped without a last collection.
StopWithoutFlush ==
  /\ Step("stopMetrics", "stopTracer")
  /\ meter' = "flushed"
  /\ UNCHANGED <<startVars, stopVars, active, records, exported, db, listener>>

\* shutdownMetrics collects and exports once more.  Its callbacks may panic
\* here too; the deferred calls that are left then run all the same.
StopMetrics ==
  /\ Step("stopMetrics", "stopTracer")
  /\ \/ /\ ~ DepthCallbackPanics
        /\ meter' = "flushed"
        /\ exported' = Recorded
        /\ UNCHANGED panicking
     \/ /\ ~ DepthCallbackPanics /\ "otel" \in Outages
        /\ meter' = "lost"
        /\ UNCHANGED <<exported, panicking>>
     \/ /\ DepthCallbackPanics
        /\ meter' = "lost"
        /\ panicking' = TRUE
        /\ UNCHANGED exported
  /\ UNCHANGED <<startVars, exit, signalled, expired, active, records, db, listener>>

\* A mutant: the deferred calls are left out when one of them has panicked.
StopTracerUnlessPanic ==
  /\ Step("stopTracer", "sync")
  /\ tracer' = IF panicking THEN tracer ELSE "shut"
  /\ UNCHANGED <<env, instance, redis, stopVars, meterVars, db, listener>>

StopTracer ==
  /\ Step("stopTracer", "sync")
  /\ tracer' = "shut"
  /\ UNCHANGED <<env, instance, redis, stopVars, meterVars, db, listener>>

\* The deferred logger.Sync panics when the sink cannot be synced.
SyncLogger ==
  /\ Step("sync", "over")
  /\ \/ exit' = IF panicking THEN "panic" ELSE "orderly"
     \/ "sync" \in Outages /\ exit' = "panic"
  /\ UNCHANGED <<startVars, panicking, signalled, expired, meterVars, db, listener>>

\* The steps of main itself, which go on as long as the process runs.
MainNext(busy) ==
  \/ Configure \/ ConfigPanics \/ InitTracer \/ InitMetrics \/ NewPostgresDB
  \/ Migrate \/ NewServer \/ StartFails
  \/ Stop \/ Drained(busy) \/ GraceExpires(busy)
  \/ CloseDB \/ StopMetrics \/ StopTracer \/ SyncLogger

ProcessNext(busy) ==
  \/ MainNext(busy)
  \/ ListenAndServe \/ ListenFails
  \/ Signal \/ CollectPanics
=============================================================================
