------------------------------ MODULE ApiServer ------------------------------
(***************************************************************************)
(* The API as a whole: the process and the requests it serves.  They share  *)
(* the listener, the database pool, the Redis client and the instruments of *)
(* the meter; Shutdown waits for the requests, for ten seconds.             *)
(***************************************************************************)
EXTENDS RequestChain, FiniteSets

ASSUME RequestsAssumption == IsFiniteSet(Requests)

vars == requestVars

Init == ProcessInit /\ RequestInit

\* Shutdown waits for connections that are neither idle nor closed.
Busy == \E r \in Requests : req[r].stage \notin {"idle", "done"}

Next ==
  \/ ProcessNext(Busy) /\ UNCHANGED req
  \/ \E r \in Requests : RequestNext(r)

Spec == Init /\ [][Next]_vars

\* The goroutines of main, of ListenAndServe and of each request are scheduled,
\* and the ten seconds of Shutdown pass.  Signals, the reader's ticks, and what
\* a client sends or when it goes away, are left open.
Fairness ==
  /\ WF_vars(MainNext(Busy) /\ UNCHANGED req)
  /\ WF_vars(ListenAndServe /\ UNCHANGED req)
  /\ \A r \in Requests : WF_vars(Handle(r))

FairSpec == Spec /\ Fairness

-----------------------------------------------------------------------------
Stages == {"idle", "conn", "metrics", "route", "auth", "limiter", "handler",
           "service", "tracing", "done"}
MainStages == {"config", "tracer", "metrics", "db", "migrate", "server", "wait",
               "stop", "closeDB", "stopMetrics", "stopTracer", "sync", "over"}

RequestRecords ==
  [kind : Kinds, stage : Stages, dir : {"in", "out", "panic"},
   ctx : {"live", "deadline", "gone"}, code : Statuses, sent : Statuses \cup {0},
   span : Statuses \cup {0}, logged : Statuses \cup {0}]

\* Every variable has its type.
TypeOK ==
  /\ env \in Environments
  /\ instance \in Configs \cup {NoConfig}
  /\ main \in MainStages
  /\ exit \in {"no", "orderly", "panic", "fatal", "killed", "crash"}
  /\ panicking \in BOOLEAN /\ signalled \in BOOLEAN /\ expired \in BOOLEAN
  /\ db \in {"none", "open", "closed"}
  /\ tracer \in {"none", "open", "shut"}
  /\ meter \in {"none", "open", "flushed", "lost"}
  /\ redis \in {"none", "nil", "client"}
  /\ listener \in {"none", "starting", "listening", "closed"}
  /\ active \in Nat
  /\ records \in [Requests -> Seq(Statuses)]
  /\ exported \subseteq Requests
  /\ req \in [Requests -> RequestRecords]

\* The requests between the increment and the decrement of the gauge.
Measured == {r \in Requests : \/ req[r].stage \in {"route", "auth", "limiter", "handler", "service"}
                              \/ req[r].stage = "metrics" /\ req[r].dir # "in"}

\* http.server.active_requests is the number of requests inside the metrics
\* middleware, however they leave it: by returning, by a refusal of an inner
\* middleware or by a panic.
ActiveIsInFlight == active = Cardinality(Measured)

Done(r) == req[r].stage = "done"
Panicked(r) == req[r].dir = "panic"

\* The four views of an answer fit together.  A request that passed CORS is
\* counted once; its count and its span carry the status the client was sent,
\* unless Timeout answered 504 behind their backs; its log entry carries that
\* status, or 0 when no handler wrote one; and a panic leaves no log entry and
\* no status on the span.
ReportsAgree ==
  \A r \in Requests : Done(r) /\ req[r].kind # "preflight" =>
    /\ Len(records[r]) = 1
    /\ records[r][1] = req[r].sent \/ (req[r].sent = 504 /\ req[r].ctx = "deadline")
    /\ req[r].span = IF Panicked(r) THEN 0 ELSE records[r][1]
    /\ req[r].logged = IF Panicked(r) \/ (req[r].ctx = "gone" /\ req[r].sent = 200)
                       THEN 0 ELSE req[r].sent

\* A panic of a handler ends in a 500, or in the 504 of a deadline that had
\* passed before; it never leaves the request without an answer.
PanicsAreAnswered ==
  \A r \in Requests : Done(r) /\ Panicked(r) =>
    req[r].sent = IF req[r].ctx = "deadline" THEN 504 ELSE 500

\* As long as the grace of Shutdown lasts, what requests use outlives them: no
\* request is under way when the database is closed, when the last metrics are
\* exported or when the process ends in order.
ClosesAfterDrain ==
  (db = "closed" \/ meter \in {"flushed", "lost"}) /\ Busy => expired

\* When Shutdown drained the server and the last export succeeded, the collector
\* knows of every request that was served, up to the last.
ServedIsExported ==
  meter = "flushed" /\ ~ expired =>
    \A r \in Requests : Done(r) /\ req[r].kind # "preflight" => r \in exported

\* Whenever main returns, or panics after it was configured, everything it had
\* opened has been closed, even if a deferred call panicked on the way.
ReleasedOnExit ==
  exit = "orderly" \/ (exit = "panic" /\ instance # NoConfig) =>
    db = "closed" /\ tracer = "shut" /\ meter \in {"flushed", "lost"} /\ listener # "listening"

\* The life of the process as module GracefulServer tells it.
Phase ==
  CASE Alive /\ main \in {"config", "tracer", "metrics", "db", "migrate", "server"} -> "starting"
    [] Alive /\ main = "wait" -> "serving"
    [] Alive /\ main = "stop" -> "draining"
    [] Alive /\ main \in {"closeDB", "stopMetrics", "stopTracer", "sync", "over"} -> "closing"
    [] ~ Alive /\ main = "over" -> "ended"
    [] ~ Alive /\ main # "over" -> "lost"

Connected == {r \in Requests : req[r].stage = "conn"}

Taken == {r \in Requests : req[r].stage \notin {"idle", "conn", "done"}}

AnswerOf == [r \in Requests |-> IF Done(r) THEN req[r].sent ELSE 0]

Graceful == INSTANCE GracefulServer WITH
  phase <- Phase, asked <- signalled, connected <- Connected, taken <- Taken,
  answer <- AnswerOf, overdue <- expired

\* main, the goroutine that listens, Shutdown, the deferred calls and the
\* handlers together implement a graceful stop, whenever the signal comes: from
\* the call of Shutdown on no connection is accepted; each request that was read
\* is answered, once, before the pool is closed or the grace is over; and only a
\* process that was asked to stop does so.
GracefulSpec == Graceful!Spec

\* A process that was asked to stop ends, although a client may never send the
\* rest of its request.
SignalEndsProcess == signalled ~> ~ Alive

\* A request that has been read is answered, unless the process ends or it is
\* one to /presign, whose body may never come.
ReadIsAnswered ==
  \A r \in Requests :
    (req[r].stage = "metrics" /\ req[r].kind # "presign") ~> (Done(r) \/ ~ Alive)
=============================================================================
