--------------------------- MODULE ApiServerProofs ---------------------------
(***************************************************************************)
(* Proofs about ApiServer, for any finite set of requests, any environments *)
(* and any outages.  A step is one of the process, which leaves the requests *)
(* alone, or one of a request, which leaves the stages of main alone.        *)
(***************************************************************************)
EXTENDS ApiServer, FiniteSetTheorems, TLAPS

(* The type invariant without the gauge, whose type depends on its meaning. *)
Types ==
  /\ env \in Environments
  /\ instance \in Configs \cup {NoConfig}
  /\ main \in MainStages
  /\ exit \in {"no", "orderly", "panic", "fatal", "killed", "crash"}
  /\ panicking \in BOOLEAN /\ signalled \in BOOLEAN /\ expired \in BOOLEAN
  /\ db \in {"none", "open", "closed"}
  /\ tracer \in {"none", "open", "shut"}
  /\ meter \in {"none", "open", "flushed", "lost"}
  /\ redis \in {"none", "nil", "client"}
  /\ listener \in {"none", "starting", "listening", "closed"}
  /\ records \in [Requests -> Seq(Statuses)]
  /\ exported \subseteq Requests
  /\ req \in [Requests -> RequestRecords]

(* A configuration has its type. *)
LEMMA ConfigType ==
  ASSUME NEW e \in Environments
  PROVE  GetEnvConfig(e) \in Configs \cup {NoConfig}
<1> DEFINE c == [redis       |-> e["REDIS_CONNECTION_STRING"],
                 provider    |-> envOr(e, "BUCKET_PROVIDER", "gcs"),
                 sa          |-> e["GCS_SA_PATH"],
                 autoMigrate |-> e["AUTO_MIGRATE"] = "good"]
<1>1. e["REDIS_CONNECTION_STRING"] \in Values /\ e["GCS_SA_PATH"] \in Values
      /\ e["BUCKET_PROVIDER"] \in Values
  BY DEF Environments, EnvVars, Required
<1>2. envOr(e, "BUCKET_PROVIDER", "gcs") \in Values \cup {"gcs"}
  BY <1>1 DEF envOr
<1>3. c \in Configs
  BY <1>1, <1>2 DEF Configs
<1>4. GetEnvConfig(e) = NoConfig \/ GetEnvConfig(e) = c
  BY DEF GetEnvConfig
<1> QED
  BY <1>3, <1>4

(* The steps of the process and what they do to the types. *)
LEMMA ProcessTypes ==
  ASSUME Types, ProcessNext(Busy), UNCHANGED req
  PROVE  Types'
<1> USE DEF Types, MainStages, Step, End, startVars, stopVars, meterVars
<1>1. CASE Configure
  BY <1>1, ConfigType DEF Configure
<1>2. CASE ConfigPanics \/ CollectPanics
  BY <1>2 DEF ConfigPanics, CollectPanics
<1>3. CASE InitTracer \/ InitMetrics \/ NewPostgresDB \/ Migrate
  BY <1>3 DEF InitTracer, InitMetrics, NewPostgresDB, Migrate
<1>4. CASE NewServer
  BY <1>4 DEF NewServer, NewAssetService, MustGetRedisClient
<1>5. CASE StartFails
  BY <1>5 DEF StartFails, Fatal
<1>6. CASE ListenAndServe \/ ListenFails
  BY <1>6 DEF ListenAndServe, ListenFails, Fatal
<1>7. CASE Signal
  <2>1. signalled' \in BOOLEAN /\ exit' \in {"no", "killed"}
    <3>1. CASE main = "config"
      BY <1>7, <3>1 DEF Signal, Alive
    <3>2. CASE main # "config"
      BY <1>7, <3>2 DEF Signal, Alive
    <3> QED
      BY <3>1, <3>2
  <2>2. UNCHANGED <<env, instance, tracer, redis, panicking, expired, meter,
                    records, exported, main, db, listener>>
    BY <1>7 DEF Signal
  <2> QED
    BY <2>1, <2>2
<1>8. CASE Stop \/ Drained(Busy) \/ GraceExpires(Busy) \/ CloseDB
  BY <1>8 DEF Stop, Drained, GraceExpires, CloseDB
<1>9. CASE StopMetrics
  <2>1. UNCHANGED <<env, instance, tracer, redis, exit, signalled, expired,
                    records, db, listener>>
        /\ main' = "stopTracer"
    BY <1>9 DEF StopMetrics
  <2>2. meter' \in {"flushed", "lost"}
    BY <1>9 DEF StopMetrics
  <2>3. panicking' \in BOOLEAN
    <3>1. panicking' = TRUE \/ panicking' = panicking
      BY <1>9 DEF StopMetrics
    <3> QED
      BY <3>1
  <2>4. exported' \subseteq Requests
    <3>1. exported' = Recorded \/ exported' = exported
      BY <1>9 DEF StopMetrics
    <3> QED
      BY <3>1 DEF Recorded
  <2> QED
    BY <2>1, <2>2, <2>3, <2>4
<1>10. CASE StopTracer \/ SyncLogger
  BY <1>10 DEF StopTracer, SyncLogger
<1> QED
  BY <1>1, <1>2, <1>3, <1>4, <1>5, <1>6, <1>7, <1>8, <1>9, <1>10
  DEF ProcessNext, MainNext

(***************************************************************************)
(* The operators on a request's record, field by field.                     *)
(***************************************************************************)

(* Going to another stage changes nothing else. *)
LEMMA StageFields ==
  ASSUME NEW q \in RequestRecords, NEW s \in Stages
  PROVE  LET p == [q EXCEPT !.stage = s] IN
           /\ p \in RequestRecords
           /\ p.stage = s /\ p.kind = q.kind /\ p.dir = q.dir /\ p.ctx = q.ctx
           /\ p.code = q.code /\ p.sent = q.sent /\ p.span = q.span /\ p.logged = q.logged
BY DEF RequestRecords

(* Return leads out of metrics, with whatever was answered. *)
LEMMA ReturnFields ==
  ASSUME NEW q \in RequestRecords
  PROVE  LET p == Return(q) IN
           /\ p \in RequestRecords
           /\ p.stage = "metrics" /\ p.kind = q.kind /\ p.dir = "out" /\ p.ctx = q.ctx
           /\ p.code = q.code /\ p.sent = q.sent /\ p.span = q.span /\ p.logged = q.logged
BY DEF RequestRecords, Return, Stages

LEMMA PanicFields ==
  ASSUME NEW q \in RequestRecords
  PROVE  LET p == Panic(q) IN
           /\ p \in RequestRecords
           /\ p.stage = "metrics" /\ p.kind = q.kind /\ p.dir = "panic" /\ p.ctx = q.ctx
           /\ p.code = q.code /\ p.sent = q.sent /\ p.span = q.span /\ p.logged = q.logged
BY DEF RequestRecords, Panic, Stages

(* A status reaches the inner wrappers always, the outer ones as the first. *)
LEMMA WriteFields ==
  ASSUME NEW q \in RequestRecords, NEW s \in Statuses
  PROVE  LET p == WriteHeader(q, s) IN
           /\ p \in RequestRecords
           /\ p.stage = q.stage /\ p.kind = q.kind /\ p.dir = q.dir /\ p.ctx = q.ctx
           /\ p.code = s /\ p.sent = First(q.sent, s) /\ p.span = q.span /\ p.logged = q.logged
<1>1. First(q.sent, s) \in Statuses \cup {0}
  BY DEF RequestRecords, First
<1>2. q.sent \in Statuses \cup {0}
  BY DEF RequestRecords
<1> QED
  BY <1>1, <1>2 DEF RequestRecords, WriteHeader

LEMMA RespondFields ==
  ASSUME NEW q \in RequestRecords, NEW s \in Statuses
  PROVE  LET p == RespondJSON(q, s) IN
           /\ p \in RequestRecords
           /\ p.stage = "metrics" /\ p.kind = q.kind /\ p.dir = "out" /\ p.ctx = q.ctx
           /\ p.code = s /\ p.sent = First(q.sent, s) /\ p.span = q.span /\ p.logged = q.logged
BY WriteFields, ReturnFields DEF RespondJSON
(* The way out: the deferred functions of tracing, Timeout, the logger and    *)
(* Recovery, one after the other.                                            *)
LEMMA TracingFields ==
  ASSUME NEW q \in RequestRecords
  PROVE  LET p == TracingOut(q) IN
           /\ p \in RequestRecords
           /\ p.stage = q.stage /\ p.kind = q.kind /\ p.dir = q.dir /\ p.ctx = q.ctx
           /\ p.code = q.code /\ p.sent = q.sent /\ p.logged = q.logged
           /\ p.span = IF q.dir = "out" THEN q.code ELSE q.span
<1>1. CASE q.dir = "out"
  BY <1>1 DEF TracingOut, RequestRecords
<1>2. CASE q.dir # "out"
  BY <1>2 DEF TracingOut
<1> QED
  BY <1>1, <1>2

LEMMA TimeoutFields ==
  ASSUME NEW q \in RequestRecords, NEW why
  PROVE  LET p == TimeoutOut(q, why) IN
           /\ p \in RequestRecords
           /\ p.stage = q.stage /\ p.kind = q.kind /\ p.dir = q.dir
           /\ p.code = q.code /\ p.span = q.span /\ p.logged = q.logged
           /\ p.ctx = IF why = "deadline" THEN "deadline" ELSE q.ctx
           /\ p.sent = IF why = "deadline" THEN First(q.sent, 504) ELSE q.sent
<1> DEFINE s == First(q.sent, 504)
<1>1. CASE why = "deadline"
  <2>1. s \in Statuses \cup {0}
    BY DEF RequestRecords, First, Statuses
  <2> DEFINE u == [q EXCEPT !.ctx = "deadline", !.sent = s]
  <2>2. TimeoutOut(q, why) = u
    BY <1>1 DEF TimeoutOut, RequestRecords
  <2> HIDE DEF s
  <2>3. /\ u \in RequestRecords
        /\ u.stage = q.stage /\ u.kind = q.kind /\ u.dir = q.dir
        /\ u.code = q.code /\ u.span = q.span /\ u.logged = q.logged
        /\ u.ctx = "deadline" /\ u.sent = s
    BY <2>1 DEF RequestRecords
  <2> HIDE DEF u
  <2> QED
    BY <1>1, <2>2, <2>3 DEF s
<1>2. CASE why # "deadline"
  BY <1>2 DEF TimeoutOut
<1> QED
  BY <1>1, <1>2

LEMMA LoggerFields ==
  ASSUME NEW q \in RequestRecords
  PROVE  LET p == LoggerOut(q) IN
           /\ p \in RequestRecords
           /\ p.stage = q.stage /\ p.kind = q.kind /\ p.dir = q.dir /\ p.ctx = q.ctx
           /\ p.code = q.code /\ p.sent = q.sent /\ p.span = q.span
           /\ p.logged = IF q.dir = "out" THEN q.sent ELSE q.logged
<1>1. CASE q.dir = "out"
  BY <1>1 DEF LoggerOut, RequestRecords
<1>2. CASE q.dir # "out"
  BY <1>2 DEF LoggerOut
<1> QED
  BY <1>1, <1>2

LEMMA RecoveryFields ==
  ASSUME NEW q \in RequestRecords
  PROVE  LET p == RecoveryOut(q) IN
           /\ p \in RequestRecords
           /\ p.stage = "done" /\ p.kind = q.kind /\ p.dir = q.dir /\ p.ctx = q.ctx
           /\ p.code = q.code /\ p.span = q.span /\ p.logged = q.logged
           /\ p.sent = First(q.sent, IF q.dir = "panic" THEN 500 ELSE 200)
<1> DEFINE s == First(q.sent, IF q.dir = "panic" THEN 500 ELSE 200)
<1>1. s \in Statuses \cup {0}
  BY DEF RequestRecords, First, Statuses, OpenStatuses
<1>2. RecoveryOut(q) = [q EXCEPT !.stage = "done", !.sent = s]
  BY DEF RecoveryOut, RequestRecords
<1>3. "done" \in Stages
  BY DEF Stages
<1> HIDE DEF s
<1>4. LET p == [q EXCEPT !.stage = "done", !.sent = s] IN
        /\ p \in RequestRecords
        /\ p.stage = "done" /\ p.kind = q.kind /\ p.dir = q.dir /\ p.ctx = q.ctx
        /\ p.code = q.code /\ p.span = q.span /\ p.logged = q.logged
        /\ p.sent = s
  BY <1>1, <1>3 DEF RequestRecords
<1> QED
  BY <1>2, <1>4 DEF s

(* The whole of Unwind in one lemma. *)
LEMMA UnwindFields ==
  ASSUME NEW q \in RequestRecords, NEW why
  PROVE  LET p == RecoveryOut(LoggerOut(TimeoutOut(TracingOut(q), why)))
             t == IF why = "deadline" THEN First(q.sent, 504) ELSE q.sent IN
           /\ p \in RequestRecords
           /\ p.stage = "done" /\ p.kind = q.kind /\ p.dir = q.dir /\ p.code = q.code
           /\ p.ctx = IF why = "deadline" THEN "deadline" ELSE q.ctx
           /\ p.span = IF q.dir = "out" THEN q.code ELSE q.span
           /\ p.logged = IF q.dir = "out" THEN t ELSE q.logged
           /\ p.sent = First(t, IF q.dir = "panic" THEN 500 ELSE 200)
<1> DEFINE a == TracingOut(q)
           b == TimeoutOut(a, why)
           c == LoggerOut(b)
<1>1. /\ a \in RequestRecords
      /\ a.kind = q.kind /\ a.dir = q.dir /\ a.ctx = q.ctx
      /\ a.code = q.code /\ a.sent = q.sent /\ a.logged = q.logged
      /\ a.span = IF q.dir = "out" THEN q.code ELSE q.span
  BY TracingFields
<1> HIDE DEF a
<1>2. /\ b \in RequestRecords
      /\ b.kind = a.kind /\ b.dir = a.dir
      /\ b.code = a.code /\ b.span = a.span /\ b.logged = a.logged
      /\ b.ctx = IF why = "deadline" THEN "deadline" ELSE a.ctx
      /\ b.sent = IF why = "deadline" THEN First(a.sent, 504) ELSE a.sent
  BY <1>1, TimeoutFields
<1> HIDE DEF b
<1>3. /\ c \in RequestRecords
      /\ c.kind = b.kind /\ c.dir = b.dir /\ c.ctx = b.ctx
      /\ c.code = b.code /\ c.sent = b.sent /\ c.span = b.span
      /\ c.logged = IF b.dir = "out" THEN b.sent ELSE b.logged
  BY <1>2, LoggerFields
<1> HIDE DEF c
<1>4. LET p == RecoveryOut(c) IN
        /\ p \in RequestRecords
        /\ p.stage = "done" /\ p.kind = c.kind /\ p.dir = c.dir /\ p.ctx = c.ctx
        /\ p.code = c.code /\ p.span = c.span /\ p.logged = c.logged
        /\ p.sent = First(c.sent, IF c.dir = "panic" THEN 500 ELSE 200)
  BY <1>3, RecoveryFields
<1>5. RecoveryOut(c) = RecoveryOut(LoggerOut(TimeoutOut(TracingOut(q), why)))
  BY DEF a, b, c
<1> QED
  BY <1>1, <1>2, <1>3, <1>4, <1>5

(***************************************************************************)
(* The inductive invariant of a request q for which rec was recorded.       *)
(***************************************************************************)
Inner == {"route", "auth", "limiter", "handler", "service"}

(* Inside the metrics middleware. *)
Inside(q) == q.stage \in Inner \/ (q.stage = "metrics" /\ q.dir # "in")

(* Nothing was written, or exactly one status, or the request was dropped. *)
Untouched(q) == q.sent = 0 /\ q.code = 200 /\ q.ctx = "live"
Answered(q) == \/ q.sent = q.code /\ q.ctx = "live"
               \/ q.sent = 0 /\ q.code = 200 /\ q.ctx # "live"

(* Before the end: the three ways the middleware can be passed, and what has *)
(* been recorded by each of them.                                            *)
Underway(q, rec) ==
  /\ q.span = 0 /\ q.logged = 0
  /\ q.stage \in {"idle", "conn"} \cup Inner => q.dir = "in"
  /\ q.stage = "tracing" => q.dir # "in"
  /\ q.dir = "in" => Untouched(q)
  /\ q.dir = "out" => Answered(q)
  /\ q.dir = "panic" => q.sent = 0 /\ q.ctx = "live"
  /\ q.stage # "tracing" => rec = <<>>
  /\ q.stage = "tracing" => rec = <<IF q.dir = "panic" THEN 500 ELSE q.code>>
  /\ q.kind # "preflight"

(* At the end: the four views of the answer. *)
Settled(q, rec) ==
  /\ rec = <<rec[1]>>
  /\ rec[1] = q.sent \/ (q.sent = 504 /\ q.ctx = "deadline")
  /\ q.span = IF q.dir = "panic" THEN 0 ELSE rec[1]
  /\ q.logged = IF q.dir = "panic" \/ (q.ctx = "gone" /\ q.sent = 200) THEN 0 ELSE q.sent
  /\ q.dir = "panic" => q.sent = IF q.ctx = "deadline" THEN 504 ELSE 500

Reported(q, rec) ==
  /\ q.stage # "done" => Underway(q, rec)
  /\ q.stage = "done" /\ q.kind = "preflight" => q.dir = "in"
  /\ q.stage = "done" /\ q.kind # "preflight" => Settled(q, rec)

(* What a step of the request r does: it puts a record q in the place of r's, *)
(* moves the gauge when r enters or leaves the metrics middleware, and        *)
(* reports what it should.                                                    *)
Advance(r, q) ==
  /\ q \in RequestRecords
  /\ req' = [req EXCEPT ![r] = q]
  /\ Reported(q, records'[r])
  /\ \/ Inside(req[r]) /\ Inside(q) /\ active' = active
     \/ ~ Inside(req[r]) /\ ~ Inside(q) /\ active' = active
     \/ ~ Inside(req[r]) /\ Inside(q) /\ active' = active + 1
     \/ Inside(req[r]) /\ ~ Inside(q) /\ active' = active - 1

(* On the way in, outside the metrics middleware, within it, or entering it. *)
LEMMA StageStep ==
  ASSUME NEW r, req[r] \in RequestRecords, Reported(req[r], records[r]),
         NEW s \in Stages, req' = [req EXCEPT ![r] = [req[r] EXCEPT !.stage = s]],
         req[r].dir = "in", records' = records,
         \/ /\ req[r].stage \in {"idle", "conn"} /\ s \in {"idle", "conn", "metrics"}
            /\ active' = active
         \/ req[r].stage \in Inner /\ s \in Inner /\ active' = active
         \/ req[r].stage = "metrics" /\ s \in Inner /\ active' = active + 1
  PROVE  \E q : Advance(r, q)
<1> DEFINE q == [req[r] EXCEPT !.stage = s]
<1>1. /\ q \in RequestRecords
      /\ q.stage = s /\ q.kind = req[r].kind /\ q.dir = req[r].dir
      /\ q.ctx = req[r].ctx /\ q.code = req[r].code /\ q.sent = req[r].sent
      /\ q.span = req[r].span /\ q.logged = req[r].logged
  BY StageFields
<1>2. req' = [req EXCEPT ![r] = q]
  OBVIOUS
<1> HIDE DEF q
<1>3. Underway(req[r], records[r])
  BY DEF Reported, Inner
<1>4. s # "done" /\ Underway(q, records[r])
  BY <1>1, <1>3 DEF Underway, Untouched, Inner
<1>5. \/ ~ Inside(req[r]) /\ ~ Inside(q) /\ active' = active
      \/ Inside(req[r]) /\ Inside(q) /\ active' = active
      \/ ~ Inside(req[r]) /\ Inside(q) /\ active' = active + 1
  BY <1>1 DEF Inside, Inner
<1>6. Advance(r, q)
  BY <1>1, <1>2, <1>4, <1>5 DEF Advance, Reported
<1> QED
  BY <1>6

(* A stage inside the metrics middleware returns or panics. *)
LEMMA TurnStep ==
  ASSUME NEW r, req[r] \in RequestRecords, Reported(req[r], records[r]),
         NEW q \in RequestRecords, req' = [req EXCEPT ![r] = q],
         req[r].stage \in Inner, records' = records, active' = active,
         q.stage = "metrics", q.kind = req[r].kind, q.span = req[r].span,
         q.logged = req[r].logged,
         \/ q.dir = "out" /\ Answered(q)
         \/ q.dir = "panic" /\ q.sent = 0 /\ q.ctx = "live"
  PROVE  Advance(r, q)
<1>1. Underway(req[r], records[r])
  BY DEF Reported, Inner
<1>2. Underway(q, records[r])
  BY <1>1 DEF Underway, Inner
<1>3. Inside(req[r]) /\ Inside(q)
  BY DEF Inside
<1> QED
  BY <1>2, <1>3 DEF Advance, Reported

LEMMA RespondStep ==
  ASSUME NEW r, req[r] \in RequestRecords, Reported(req[r], records[r]),
         NEW s \in Statuses, req' = [req EXCEPT ![r] = RespondJSON(req[r], s)],
         req[r].stage \in Inner, records' = records, active' = active
  PROVE  \E q : Advance(r, q)
<1> DEFINE q == RespondJSON(req[r], s)
<1>1. /\ q \in RequestRecords
      /\ q.stage = "metrics" /\ q.kind = req[r].kind /\ q.dir = "out"
      /\ q.ctx = req[r].ctx /\ q.code = s /\ q.sent = First(req[r].sent, s)
      /\ q.span = req[r].span /\ q.logged = req[r].logged
  BY RespondFields
<1>2. req' = [req EXCEPT ![r] = q]
  OBVIOUS
<1> HIDE DEF q
<1>3. req[r].sent = 0 /\ req[r].ctx = "live"
  BY DEF Reported, Underway, Untouched, Inner
<1>4. Answered(q)
  BY <1>1, <1>3 DEF Answered, First
<1>5. Advance(r, q)
  BY <1>1, <1>2, <1>4, TurnStep
<1> QED
  BY <1>5

(* Every step of a request is an advance. *)
LEMMA RequestAdvances ==
  ASSUME Types, NEW r \in Requests, Reported(req[r], records[r]), RequestNext(r)
  PROVE  \E q : Advance(r, q)
<1>0. req[r] \in RequestRecords
  BY DEF Types
<1> USE DEF At, Goto
<1> DEFINE Still == records' = records /\ active' = active
<1>1. CASE Accept(r)
  <2>1. req' = [req EXCEPT ![r] = [req[r] EXCEPT !.stage = "conn"]] /\ Still
        /\ req[r].stage = "idle" /\ req[r].dir = "in"
    BY <1>1 DEF Accept, processVars, meterVars
  <2> QED
    BY <1>0, <2>1, StageStep DEF Stages
<1>2. CASE CloseIdle(r)
  <2>1. req' = [req EXCEPT ![r] = [req[r] EXCEPT !.stage = "idle"]] /\ Still
        /\ req[r].stage = "conn" /\ req[r].dir = "in"
    BY <1>2 DEF CloseIdle, processVars, meterVars
  <2> QED
    BY <1>0, <2>1, StageStep DEF Stages
<1>3. CASE MetricsIn(r)
  <2>1. req' = [req EXCEPT ![r] = [req[r] EXCEPT !.stage = "route"]]
        /\ records' = records /\ active' = active + 1
        /\ req[r].stage = "metrics" /\ req[r].dir = "in"
    BY <1>3 DEF MetricsIn
  <2> QED
    BY <1>0, <2>1, StageStep DEF Stages, Inner
<1>4. CASE Route(r)
  <2>0. Still /\ req[r].stage = "route" /\ req[r].dir = "in"
    BY <1>4 DEF Route, processVars, meterVars
  <2>1. \/ \E s \in Statuses : req' = [req EXCEPT ![r] = RespondJSON(req[r], s)]
        \/ req' = [req EXCEPT ![r] = [req[r] EXCEPT !.stage = "auth"]]
    BY <1>4 DEF Route, Statuses
  <2> QED
    BY <1>0, <2>0, <2>1, RespondStep, StageStep DEF Stages, Inner
<1>5. CASE AuthMiddleware(r)
  <2>0. Still /\ req[r].stage = "auth" /\ req[r].dir = "in"
    BY <1>5 DEF AuthMiddleware, processVars, meterVars
  <2>1. \/ req' = [req EXCEPT ![r] = RespondJSON(req[r], 401)]
        \/ \E s \in {"limiter", "handler"} :
             req' = [req EXCEPT ![r] = [req[r] EXCEPT !.stage = s]]
    BY <1>5 DEF AuthMiddleware, WriteErrorResponse
  <2> QED
    BY <1>0, <2>0, <2>1, RespondStep, StageStep DEF Stages, Inner, Statuses
<1>6. CASE PresignLimiter(r)
  <2>0. Still /\ req[r].stage = "limiter" /\ req[r].dir = "in"
    BY <1>6 DEF PresignLimiter, processVars, meterVars
  <2>1. \/ req' = [req EXCEPT ![r] = RespondJSON(req[r], 429)]
        \/ req' = [req EXCEPT ![r] = [req[r] EXCEPT !.stage = "handler"]]
    BY <1>6 DEF PresignLimiter
  <2> QED
    BY <1>0, <2>0, <2>1, RespondStep, StageStep DEF Stages, Inner, Statuses
<1>7. CASE MarkAssetUploaded(r)
  <2>0. Still /\ req[r].stage = "handler" /\ req[r].dir = "in"
    BY <1>7 DEF MarkAssetUploaded, processVars, meterVars
  <2>1. \/ req' = [req EXCEPT ![r] = RespondJSON(req[r], 400)]
        \/ req' = [req EXCEPT ![r] = [req[r] EXCEPT !.stage = "service"]]
    BY <1>7 DEF MarkAssetUploaded
  <2> QED
    BY <1>0, <2>0, <2>1, RespondStep, StageStep DEF Stages, Inner, Statuses
<1>8. CASE CreateAsset(r)
  <2>0. Still /\ req[r].stage = "handler" /\ req[r].dir = "in"
    BY <1>8 DEF CreateAsset, processVars, meterVars
  <2>1. \/ req' = [req EXCEPT ![r] = RespondJSON(req[r], 400)]
        \/ \E why \in CtxErr(req[r]) \ {"live"} :
             req' = [req EXCEPT ![r] = Return([req[r] EXCEPT !.ctx = why])]
        \/ req' = [req EXCEPT ![r] = [req[r] EXCEPT !.stage = "service"]]
    BY <1>8 DEF CreateAsset
  <2>2. ASSUME NEW why \in CtxErr(req[r]) \ {"live"},
               req' = [req EXCEPT ![r] = Return([req[r] EXCEPT !.ctx = why])]
        PROVE  \E q : Advance(r, q)
    <3> DEFINE p == [req[r] EXCEPT !.ctx = why]
               q == Return(p)
    <3>1. why \in {"deadline", "gone"}
      BY <1>0 DEF CtxErr, RequestRecords
    <3>2. /\ p \in RequestRecords
          /\ p.kind = req[r].kind /\ p.ctx = why /\ p.code = req[r].code
          /\ p.sent = req[r].sent /\ p.span = req[r].span /\ p.logged = req[r].logged
      BY <1>0, <3>1 DEF RequestRecords
    <3>3. req' = [req EXCEPT ![r] = q]
      BY <2>2
    <3> HIDE DEF p
    <3>4. /\ q \in RequestRecords
          /\ q.stage = "metrics" /\ q.kind = p.kind /\ q.dir = "out" /\ q.ctx = p.ctx
          /\ q.code = p.code /\ q.sent = p.sent /\ q.span = p.span /\ q.logged = p.logged
      BY <3>2, ReturnFields
    <3> HIDE DEF q
    <3>5. req[r].sent = 0 /\ req[r].code = 200
      BY <2>0 DEF Reported, Underway, Untouched
    <3>6. Answered(q)
      BY <3>1, <3>2, <3>4, <3>5 DEF Answered
    <3>7. Advance(r, q)
      BY <1>0, <2>0, <3>2, <3>3, <3>4, <3>6, TurnStep DEF Inner
    <3> QED
      BY <3>7
  <2>3. CASE req' = [req EXCEPT ![r] = RespondJSON(req[r], 400)]
    <3>1. 400 \in Statuses /\ req[r].stage \in Inner
      BY <2>0 DEF Inner, Statuses
    <3> QED
      BY <1>0, <2>0, <2>3, <3>1, RespondStep
  <2>4. CASE req' = [req EXCEPT ![r] = [req[r] EXCEPT !.stage = "service"]]
    BY <1>0, <2>0, <2>4, StageStep DEF Stages, Inner
  <2> QED
    BY <2>1, <2>2, <2>3, <2>4
<1>9. CASE Service(r)
  <2>0. Still /\ req[r].stage = "service" /\ req[r].dir = "in"
    BY <1>9 DEF Service, processVars, meterVars
  <2>1. \/ \E s \in Statuses : req' = [req EXCEPT ![r] = RespondJSON(req[r], s)]
        \/ req' = [req EXCEPT ![r] = Panic(req[r])]
    BY <1>9 DEF Service, Statuses, OpenStatuses
  <2>2. CASE req' = [req EXCEPT ![r] = Panic(req[r])]
    <3> DEFINE q == Panic(req[r])
    <3>1. /\ q \in RequestRecords
          /\ q.stage = "metrics" /\ q.kind = req[r].kind /\ q.dir = "panic"
          /\ q.ctx = req[r].ctx /\ q.sent = req[r].sent
          /\ q.span = req[r].span /\ q.logged = req[r].logged
      BY <1>0, PanicFields
    <3>2. req' = [req EXCEPT ![r] = q]
      BY <2>2
    <3> HIDE DEF q
    <3>3. q.sent = 0 /\ q.ctx = "live"
      BY <2>0, <3>1 DEF Reported, Underway, Untouched
    <3>4. Advance(r, q)
      BY <1>0, <2>0, <3>1, <3>2, <3>3, TurnStep DEF Inner
    <3> QED
      BY <3>4
  <2> QED
    BY <1>0, <2>0, <2>1, <2>2, RespondStep DEF Inner
<1>10. CASE MetricsOut(r)
  <2> DEFINE q == [req[r] EXCEPT !.stage = "tracing"]
             c == IF req[r].dir = "panic" THEN 500 ELSE req[r].code
  <2>1. /\ q \in RequestRecords
        /\ q.stage = "tracing" /\ q.kind = req[r].kind /\ q.dir = req[r].dir
        /\ q.ctx = req[r].ctx /\ q.code = req[r].code /\ q.sent = req[r].sent
        /\ q.span = req[r].span /\ q.logged = req[r].logged
    BY <1>0, StageFields DEF Stages
  <2>2. /\ req' = [req EXCEPT ![r] = q] /\ req[r].stage = "metrics"
        /\ req[r].dir \in {"out", "panic"} /\ active' = active - 1
        /\ records' = [records EXCEPT ![r] = Append(records[r], c)]
    BY <1>10 DEF MetricsOut
  <2> HIDE DEF q
  <2>3. Underway(req[r], records[r])
    BY <2>2 DEF Reported
  <2>4. records'[r] = <<c>>
    <3>1. records[r] = <<>> /\ records \in [Requests -> Seq(Statuses)]
      BY <2>2, <2>3 DEF Underway, Types
    <3> QED
      BY <2>2, <3>1
  <2>5. Underway(q, records'[r])
    BY <2>1, <2>2, <2>3, <2>4 DEF Underway, Answered, Inner
  <2>6. Inside(req[r]) /\ ~ Inside(q)
    BY <2>1, <2>2 DEF Inside, Inner
  <2>7. Advance(r, q)
    BY <2>1, <2>2, <2>5, <2>6 DEF Advance, Reported
  <2> QED
    BY <2>7
<1>11. CASE Unwind(r)
  <2>0. Still /\ req[r].stage = "tracing" /\ req[r].dir \in {"out", "panic"}
    BY <1>11 DEF Unwind, processVars, meterVars
  <2>1. PICK why \in CtxErr(req[r]) :
          req' = [req EXCEPT ![r] =
                    RecoveryOut(LoggerOut(TimeoutOut(TracingOut(req[r]), why)))]
    BY <1>11 DEF Unwind
  <2> DEFINE q == RecoveryOut(LoggerOut(TimeoutOut(TracingOut(req[r]), why)))
             t == IF why = "deadline" THEN First(req[r].sent, 504) ELSE req[r].sent
  <2>2. /\ q \in RequestRecords
        /\ q.stage = "done" /\ q.kind = req[r].kind /\ q.dir = req[r].dir
        /\ q.code = req[r].code
        /\ q.ctx = IF why = "deadline" THEN "deadline" ELSE req[r].ctx
        /\ q.span = IF req[r].dir = "out" THEN req[r].code ELSE req[r].span
        /\ q.logged = IF req[r].dir = "out" THEN t ELSE req[r].logged
        /\ q.sent = First(t, IF req[r].dir = "panic" THEN 500 ELSE 200)
    BY <1>0, UnwindFields
  <2>3. req' = [req EXCEPT ![r] = q]
    BY <2>1
  <2> HIDE DEF q
  <2>4. /\ req[r].span = 0 /\ req[r].logged = 0 /\ req[r].kind # "preflight"
        /\ records[r] = <<IF req[r].dir = "panic" THEN 500 ELSE req[r].code>>
        /\ req[r].dir = "out" => Answered(req[r])
        /\ req[r].dir = "panic" => req[r].sent = 0 /\ req[r].ctx = "live"
    BY <2>0 DEF Reported, Underway
  <2>5. req[r].code # 0 /\ req[r].ctx \in {"live", "deadline", "gone"}
    BY <1>0 DEF RequestRecords, Statuses, OpenStatuses
  <2>6. why = req[r].ctx \/ req[r].ctx = "live"
    BY <2>1 DEF CtxErr
  <2>7. Settled(q, records[r])
    <3>1. CASE req[r].dir = "panic"
      BY <2>2, <2>4, <3>1 DEF Settled, First
    <3>2. CASE req[r].dir = "out" /\ req[r].ctx = "live"
      BY <2>2, <2>4, <2>5, <3>2 DEF Settled, First, Answered
    <3>3. CASE req[r].dir = "out" /\ req[r].ctx # "live"
      BY <2>2, <2>4, <2>5, <2>6, <3>3 DEF Settled, First, Answered
    <3> QED
      BY <2>0, <3>1, <3>2, <3>3
  <2>8. ~ Inside(req[r]) /\ ~ Inside(q)
    BY <2>0, <2>2 DEF Inside, Inner
  <2>9. Advance(r, q)
    BY <2>0, <2>2, <2>3, <2>4, <2>7, <2>8 DEF Advance, Reported
  <2> QED
    BY <2>9
<1>12. ASSUME NEW kind \in Kinds, ServeHTTP(r, kind)
       PROVE  \E q : Advance(r, q)
  <2>0. Still /\ req[r].stage = "conn" /\ req[r].dir = "in"
    BY <1>12 DEF ServeHTTP, processVars, meterVars
  <2>1. CASE kind = "preflight"
    <3> DEFINE q == [req[r] EXCEPT !.kind = kind, !.stage = "done", !.sent = 200]
    <3>1. q \in RequestRecords /\ q.stage = "done" /\ q.kind = kind /\ q.dir = req[r].dir
      <4>1. "done" \in Stages /\ 200 \in Statuses
        BY DEF Stages, Statuses, OpenStatuses
      <4> QED
        BY <1>0, <4>1 DEF RequestRecords
    <3>2. req' = [req EXCEPT ![r] = q]
      BY <1>12, <2>1 DEF ServeHTTP
    <3> HIDE DEF q
    <3>3. ~ Inside(req[r]) /\ ~ Inside(q) /\ Reported(q, records[r])
      BY <2>0, <2>1, <3>1 DEF Inside, Inner, Reported
    <3>4. Advance(r, q)
      BY <2>0, <3>1, <3>2, <3>3 DEF Advance
    <3> QED
      BY <3>4
  <2>2. CASE kind # "preflight"
    <3> DEFINE q == [req[r] EXCEPT !.kind = kind, !.stage = "metrics"]
    <3>1. /\ q \in RequestRecords
          /\ q.stage = "metrics" /\ q.kind = kind /\ q.dir = req[r].dir
          /\ q.ctx = req[r].ctx /\ q.code = req[r].code /\ q.sent = req[r].sent
          /\ q.span = req[r].span /\ q.logged = req[r].logged
      BY <1>0 DEF RequestRecords, Stages
    <3>2. req' = [req EXCEPT ![r] = q]
      BY <1>12, <2>2 DEF ServeHTTP
    <3> HIDE DEF q
    <3>3. ~ Inside(req[r]) /\ ~ Inside(q)
      BY <2>0, <3>1 DEF Inside, Inner
    <3>4. Underway(q, records[r])
      BY <2>0, <2>2, <3>1 DEF Reported, Underway, Untouched, Inner
    <3>5. Advance(r, q)
      BY <2>0, <3>1, <3>2, <3>3, <3>4 DEF Advance, Reported
    <3> QED
      BY <3>5
  <2> QED
    BY <2>1, <2>2
<1> QED
  BY <1>1, <1>2, <1>3, <1>4, <1>5, <1>6, <1>7, <1>8, <1>9, <1>10, <1>11, <1>12
  DEF RequestNext, Handle
(* The rest of what a step of a request does: the process stays as it is, and *)
(* so do the counts of the other requests.                                    *)
LEMMA RequestFrame ==
  ASSUME Types, NEW r \in Requests, RequestNext(r)
  PROVE  /\ UNCHANGED <<env, instance, tracer, redis, exit, panicking, signalled,
                        expired, meter, exported, main, db, listener>>
         /\ records' \in [Requests -> Seq(Statuses)]
         /\ \A o \in Requests \ {r} : records'[o] = records[o]
         /\ req[r].stage # "done"
         /\ req[r].stage = "idle" => listener = "listening"
<1> USE DEF At, processVars, startVars, stopVars, meterVars
<1>0. req[r] \in RequestRecords /\ records \in [Requests -> Seq(Statuses)]
  BY DEF Types
<1>1. CASE MetricsOut(r)
  <2>1. PICK c \in Statuses : records' = [records EXCEPT ![r] = Append(records[r], c)]
    <3>1. req[r].code \in Statuses /\ 500 \in Statuses
      BY <1>0 DEF RequestRecords, Statuses
    <3> QED
      BY <1>1, <3>1 DEF MetricsOut
  <2>2. Append(records[r], c) \in Seq(Statuses)
    BY <1>0, <2>1
  <2>3. /\ records' \in [Requests -> Seq(Statuses)]
        /\ \A o \in Requests \ {r} : records'[o] = records[o]
    BY <1>0, <2>1, <2>2
  <2> QED
    BY <1>1, <2>3 DEF MetricsOut
<1>2. CASE MetricsIn(r)
  BY <1>0, <1>2 DEF MetricsIn
<1>3. CASE Accept(r) \/ CloseIdle(r) \/ \E kind \in Kinds : ServeHTTP(r, kind)
  BY <1>0, <1>3 DEF Accept, CloseIdle, ServeHTTP
<1>4. CASE Route(r) \/ AuthMiddleware(r) \/ PresignLimiter(r)
  BY <1>0, <1>4 DEF Route, AuthMiddleware, PresignLimiter
<1>5. CASE CreateAsset(r) \/ MarkAssetUploaded(r) \/ Service(r) \/ Unwind(r)
  BY <1>0, <1>5 DEF CreateAsset, MarkAssetUploaded, Service, Unwind
<1> QED
  BY <1>1, <1>2, <1>3, <1>4, <1>5 DEF RequestNext, Handle

(***************************************************************************)
(* The inductive invariant of the process.                                  *)
(***************************************************************************)

(* How far main has come says what is configured, open and closed. *)
Progress ==
  /\ main = "config" <=> instance = NoConfig
  /\ listener = "listening" => main = "wait"
  /\ db = "closed" <=> main \in {"stopMetrics", "stopTracer", "sync", "over"}
  /\ meter \in {"flushed", "lost"} <=> main \in {"stopTracer", "sync", "over"}
  /\ tracer = "shut" <=> main \in {"sync", "over"}

(* How the process can have ended. *)
Ends ==
  /\ exit = "no" => main # "over"
  /\ exit = "orderly" => main = "over"
  /\ exit = "panic" => main \in {"config", "over"}

(* Once Shutdown has returned in time, no request is under way. *)
Drain ==
  main \in {"closeDB", "stopMetrics", "stopTracer", "sync", "over"} /\ Busy => expired

AllReported == \A r \in Requests : Reported(req[r], records[r])

IInv ==
  Types /\ ActiveIsInFlight /\ AllReported /\ Progress /\ Ends /\ Drain /\ ServedIsExported

LEMMA ProgressStep ==
  ASSUME Types, Progress, ProcessNext(Busy)
  PROVE  Progress'
<1> USE DEF Progress, Step, End, startVars, stopVars, meterVars
<1>1. CASE Configure
  BY <1>1 DEF Configure
<1>2. CASE ConfigPanics \/ CollectPanics \/ StartFails \/ ListenFails
  BY <1>2 DEF ConfigPanics, CollectPanics, StartFails, ListenFails, Fatal
<1>3. CASE InitTracer \/ InitMetrics \/ NewPostgresDB \/ Migrate \/ NewServer
  BY <1>3 DEF InitTracer, InitMetrics, NewPostgresDB, Migrate, NewServer
<1>4. CASE ListenAndServe
  BY <1>4 DEF ListenAndServe
<1>5. CASE Signal
  BY <1>5 DEF Signal
<1>6. CASE Stop \/ Drained(Busy) \/ GraceExpires(Busy)
  BY <1>6 DEF Stop, Drained, GraceExpires
<1>7. CASE CloseDB \/ StopTracer \/ SyncLogger
  BY <1>7 DEF CloseDB, StopTracer, SyncLogger
<1>8. CASE StopMetrics
  BY <1>8 DEF StopMetrics
<1> QED
  BY <1>1, <1>2, <1>3, <1>4, <1>5, <1>6, <1>7, <1>8 DEF ProcessNext, MainNext

LEMMA EndsStep ==
  ASSUME Types, Progress, Ends, ProcessNext(Busy)
  PROVE  Ends'
<1> USE DEF Ends, Step, End, Alive, startVars, stopVars, meterVars
<1>1. CASE Configure \/ InitTracer \/ InitMetrics \/ NewPostgresDB \/ Migrate
  BY <1>1 DEF Configure, InitTracer, InitMetrics, NewPostgresDB, Migrate
<1>2. CASE ConfigPanics \/ StartFails \/ ListenFails
  BY <1>2 DEF ConfigPanics, StartFails, ListenFails, Fatal
<1>3. CASE CollectPanics
  BY <1>3 DEF CollectPanics
<1>4. CASE NewServer
  BY <1>4 DEF NewServer
<1>5. CASE ListenAndServe \/ Stop \/ Drained(Busy) \/ GraceExpires(Busy)
  BY <1>5 DEF ListenAndServe, Stop, Drained, GraceExpires
<1>6. CASE Signal
  BY <1>6 DEF Signal
<1>7. CASE CloseDB \/ StopMetrics \/ StopTracer
  BY <1>7 DEF CloseDB, StopMetrics, StopTracer
<1>8. CASE SyncLogger
  BY <1>8 DEF SyncLogger
<1> QED
  BY <1>1, <1>2, <1>3, <1>4, <1>5, <1>6, <1>7, <1>8 DEF ProcessNext, MainNext

(* Shutdown lets main go on when nothing is busy or sets expired; the last    *)
(* collection exports whatever has been counted by then.                      *)
LEMMA DrainStep ==
  ASSUME Types, Drain, ServedIsExported, AllReported, ProcessNext(Busy), UNCHANGED req
  PROVE  Drain' /\ ServedIsExported' /\ UNCHANGED <<active, records>>
<1> USE DEF Step, End, startVars, stopVars, meterVars
<1>0. (Busy' <=> Busy) /\ \A r \in Requests : Done(r)' <=> Done(r)
  BY DEF Busy, Done
<1>1. CASE GraceExpires(Busy)
  BY <1>1 DEF GraceExpires, Drain, ServedIsExported
<1>2. CASE Drained(Busy)
  BY <1>0, <1>2 DEF Drained, Drain, ServedIsExported
<1>3. CASE StopMetrics
  <2>1. Drain' /\ UNCHANGED <<active, records, expired>>
    BY <1>0, <1>3 DEF StopMetrics, Drain
  <2>2. meter' = "flushed" => exported' = Recorded
    BY <1>3 DEF StopMetrics
  <2>3. ASSUME NEW r \in Requests, Done(r), req[r].kind # "preflight"
        PROVE  r \in Recorded
    BY <2>3 DEF AllReported, Reported, Settled, Done, Recorded
  <2>4. ServedIsExported'
    BY <1>0, <2>2, <2>3 DEF ServedIsExported
  <2> QED
    BY <2>1, <2>4
<1>4. CASE \/ Configure \/ InitTracer \/ NewPostgresDB \/ Migrate \/ NewServer
           \/ ListenAndServe \/ Stop \/ CloseDB \/ StopTracer
  BY <1>0, <1>4 DEF Configure, InitTracer, NewPostgresDB, Migrate, NewServer,
                    ListenAndServe, Stop, CloseDB, StopTracer, Drain, ServedIsExported
<1>5. CASE InitMetrics
  BY <1>0, <1>5 DEF InitMetrics, Drain, ServedIsExported
<1>6. CASE ConfigPanics \/ CollectPanics \/ StartFails \/ ListenFails
  BY <1>0, <1>6 DEF ConfigPanics, CollectPanics, StartFails, ListenFails, Fatal, Drain,
                    ServedIsExported
<1>7. CASE Signal \/ SyncLogger
  BY <1>0, <1>7 DEF Signal, SyncLogger, Drain, ServedIsExported
<1> QED
  BY <1>1, <1>2, <1>3, <1>4, <1>5, <1>6, <1>7 DEF ProcessNext, MainNext

(* The gauge follows the set of the requests inside the metrics middleware. *)
LEMMA GaugeStep ==
  ASSUME Types, ActiveIsInFlight, NEW r \in Requests, NEW q, Advance(r, q)
  PROVE  ActiveIsInFlight'
<1>1. /\ Measured = {o \in Requests : Inside(req[o])}
      /\ Measured' = {o \in Requests : Inside(req'[o])}
  BY DEF Measured, Inside, Inner
<1>2. req'[r] = q /\ \A o \in Requests \ {r} : req'[o] = req[o]
  BY DEF Advance, Types
<1>3. IsFiniteSet(Measured) /\ active = Cardinality(Measured) /\ active \in Nat
  <2>1. Measured \subseteq Requests
    BY DEF Measured
  <2>2. IsFiniteSet(Measured)
    BY <2>1, RequestsAssumption, FS_Subset
  <2> QED
    BY <2>2, FS_CardinalityType DEF ActiveIsInFlight
<1>4. CASE (Inside(req[r]) <=> Inside(q)) /\ active' = active
  <2>1. Measured' = Measured
    BY <1>1, <1>2, <1>4
  <2> QED
    BY <1>3, <1>4, <2>1 DEF ActiveIsInFlight
<1>5. CASE ~ Inside(req[r]) /\ Inside(q) /\ active' = active + 1
  <2>1. r \notin Measured /\ Measured' = Measured \cup {r}
    BY <1>1, <1>2, <1>5
  <2>2. Cardinality(Measured') = Cardinality(Measured) + 1
    BY <1>3, <2>1, FS_AddElement
  <2> QED
    BY <1>3, <1>5, <2>2 DEF ActiveIsInFlight
<1>6. CASE Inside(req[r]) /\ ~ Inside(q) /\ active' = active - 1
  <2>1. r \in Measured /\ Measured' = Measured \ {r}
    BY <1>1, <1>2, <1>6
  <2>2. Cardinality(Measured') = Cardinality(Measured) - 1
    BY <1>3, <2>1, FS_RemoveElement
  <2> QED
    BY <1>3, <1>6, <2>2 DEF ActiveIsInFlight
<1> QED
  BY <1>4, <1>5, <1>6 DEF Advance

(* A step of the process preserves the invariant. *)
LEMMA ProcessStep ==
  ASSUME IInv, ProcessNext(Busy), UNCHANGED req
  PROVE  IInv'
<1>1. Types' /\ Progress' /\ Ends'
  BY ProcessTypes, ProgressStep, EndsStep DEF IInv
<1>2. Drain' /\ ServedIsExported' /\ UNCHANGED <<active, records>>
  BY DrainStep DEF IInv
<1>3. ActiveIsInFlight'
  BY <1>2 DEF IInv, ActiveIsInFlight, Measured
<1>4. AllReported'
  BY <1>2 DEF IInv, AllReported
<1> QED
  BY <1>1, <1>2, <1>3, <1>4 DEF IInv

(* A step of a request preserves the invariant: after Shutdown has returned   *)
(* in time there is none.                                                     *)
LEMMA RequestStep ==
  ASSUME IInv, NEW r \in Requests, RequestNext(r)
  PROVE  IInv'
<1>1. PICK q : Advance(r, q)
  BY RequestAdvances DEF IInv, AllReported
<1>2. /\ UNCHANGED <<env, instance, tracer, redis, exit, panicking, signalled,
                     expired, meter, exported, main, db, listener>>
      /\ records' \in [Requests -> Seq(Statuses)]
      /\ \A o \in Requests \ {r} : records'[o] = records[o]
      /\ req[r].stage # "done"
      /\ req[r].stage = "idle" => listener = "listening"
  BY RequestFrame DEF IInv
<1>3. req' \in [Requests -> RequestRecords] /\ req'[r] = q
      /\ \A o \in Requests \ {r} : req'[o] = req[o]
  BY <1>1 DEF Advance, IInv, Types
<1>4. Types'
  BY <1>2, <1>3 DEF IInv, Types
<1>5. ActiveIsInFlight'
  BY <1>1, GaugeStep DEF IInv
<1>6. AllReported'
  BY <1>1, <1>2, <1>3 DEF IInv, AllReported, Advance
<1>7. Progress' /\ Ends'
  BY <1>2 DEF IInv, Progress, Ends
<1>8. main \in {"closeDB", "stopMetrics", "stopTracer", "sync", "over"} => expired
  <2>1. req[r].stage # "idle" => Busy
    BY <1>2 DEF Busy
  <2>2. listener = "listening" => main = "wait"
    BY DEF IInv, Progress
  <2> QED
    BY <1>2, <2>1, <2>2 DEF IInv, Drain
<1>9. Drain'
  BY <1>2, <1>8 DEF Drain
<1>10. ServedIsExported'
  <2>1. meter = "flushed" => expired
    BY <1>8 DEF IInv, Progress
  <2> QED
    BY <1>2, <2>1 DEF ServedIsExported
<1> QED
  BY <1>4, <1>5, <1>6, <1>7, <1>9, <1>10 DEF IInv

LEMMA InitInv == Init => IInv
<1> SUFFICES ASSUME Init PROVE IInv
  OBVIOUS
<1> USE DEF Init, ProcessInit, RequestInit
<1>1. NewRequest \in RequestRecords
  BY DEF NewRequest, RequestRecords, Kinds, Stages, Statuses, OpenStatuses
<1>2. Types
  <2>1. env \in Environments /\ instance \in Configs \cup {NoConfig}
    BY EnvAssumption
  <2>2. panicking \in BOOLEAN /\ signalled \in BOOLEAN /\ expired \in BOOLEAN
    OBVIOUS
  <2>3. records \in [Requests -> Seq(Statuses)] /\ exported \subseteq Requests
    OBVIOUS
  <2>4. req \in [Requests -> RequestRecords]
    BY <1>1
  <2>5. main = "config" /\ exit = "no" /\ db = "none" /\ tracer = "none"
        /\ meter = "none" /\ redis = "none" /\ listener = "none"
    OBVIOUS
  <2> QED
    BY <2>1, <2>2, <2>3, <2>4, <2>5 DEF Types, MainStages
<1>3. ActiveIsInFlight
  <2>1. Measured = {}
    BY DEF Measured, NewRequest
  <2> QED
    BY <2>1, FS_EmptySet DEF ActiveIsInFlight
<1>4. AllReported
  BY DEF AllReported, Reported, Underway, Untouched, Inner, NewRequest
<1>5. Progress /\ Ends
  BY DEF Progress, Ends
<1>6. Drain /\ ServedIsExported
  BY DEF Drain, ServedIsExported
<1> QED
  BY <1>2, <1>3, <1>4, <1>5, <1>6 DEF IInv

(* The invariant holds in every reachable state. *)
LEMMA Inductive == Spec => []IInv
<1>1. ASSUME IInv, [Next]_vars
      PROVE  IInv'
  <2>1. CASE ProcessNext(Busy) /\ UNCHANGED req
    BY <1>1, <2>1, ProcessStep
  <2>2. CASE \E r \in Requests : RequestNext(r)
    BY <1>1, <2>2, RequestStep
  <2>3. CASE UNCHANGED vars
    <3>1. UNCHANGED <<env, instance, tracer, redis, exit, panicking, signalled, expired,
                      meter, active, records, exported, main, db, listener, req>>
      BY <2>3 DEF vars, requestVars, processVars, startVars, stopVars, meterVars
    <3>2. Types'
      BY <1>1, <3>1 DEF IInv, Types
    <3>3. ActiveIsInFlight' /\ AllReported'
      BY <1>1, <3>1 DEF IInv, ActiveIsInFlight, Measured, AllReported
    <3>4. Progress' /\ Ends'
      BY <1>1, <3>1 DEF IInv, Progress, Ends
    <3>5. Drain' /\ ServedIsExported'
      BY <1>1, <3>1 DEF IInv, Drain, Busy, ServedIsExported, Done
    <3> QED
      BY <3>2, <3>3, <3>4, <3>5 DEF IInv
  <2> QED
    BY <1>1, <2>1, <2>2, <2>3 DEF Next
<1> QED
  BY <1>1, InitInv, PTL DEF Spec

(***************************************************************************)
(* The theorems.                                                            *)
(***************************************************************************)

(* Every variable has its type; the gauge of active requests is a natural     *)
(* number because it is the size of a finite set.                             *)
THEOREM TypeCorrect == Spec => []TypeOK
<1>1. IInv => TypeOK
  <2> SUFFICES ASSUME IInv PROVE TypeOK
    OBVIOUS
  <2>1. active \in Nat
    <3>1. Measured \subseteq Requests
      BY DEF Measured
    <3>2. IsFiniteSet(Measured)
      BY <3>1, RequestsAssumption, FS_Subset
    <3> QED
      BY <3>2, FS_CardinalityType DEF IInv, ActiveIsInFlight
  <2> QED
    BY <2>1 DEF IInv, Types, TypeOK
<1> QED
  BY <1>1, Inductive, PTL

(* http.server.active_requests counts the requests inside the metrics         *)
(* middleware, whichever way they leave it.                                   *)
THEOREM GaugeIsRight == Spec => []ActiveIsInFlight
<1>1. IInv => ActiveIsInFlight
  BY DEF IInv
<1> QED
  BY <1>1, Inductive, PTL

(* Counter, span, log entry and answer of a served request fit together. *)
THEOREM ReportsFit == Spec => []ReportsAgree
<1>1. IInv => ReportsAgree
  <2> SUFFICES ASSUME IInv, NEW r \in Requests, Done(r), req[r].kind # "preflight"
               PROVE  /\ Len(records[r]) = 1
                      /\ \/ records[r][1] = req[r].sent
                         \/ req[r].sent = 504 /\ req[r].ctx = "deadline"
                      /\ req[r].span = IF Panicked(r) THEN 0 ELSE records[r][1]
                      /\ req[r].logged =
                           IF Panicked(r) \/ (req[r].ctx = "gone" /\ req[r].sent = 200)
                           THEN 0 ELSE req[r].sent
    BY DEF ReportsAgree
  <2>1. Settled(req[r], records[r])
    BY DEF IInv, AllReported, Reported, Done
  <2>2. Len(records[r]) = 1
    BY <2>1 DEF Settled
  <2> QED
    BY <2>1, <2>2 DEF Settled, Panicked
<1> QED
  BY <1>1, Inductive, PTL

(* A panicking handler's client gets 500, or 504 after the deadline. *)
THEOREM PanicsGetAnswers == Spec => []PanicsAreAnswered
<1>1. IInv => PanicsAreAnswered
  BY DEF IInv, AllReported, Reported, Settled, PanicsAreAnswered, Done, Panicked
<1> QED
  BY <1>1, Inductive, PTL

(* Within the grace of Shutdown the database and the meter outlive every      *)
(* request.                                                                   *)
THEOREM DrainsFirst == Spec => []ClosesAfterDrain
<1>1. IInv => ClosesAfterDrain
  BY DEF IInv, Progress, Drain, ClosesAfterDrain
<1> QED
  BY <1>1, Inductive, PTL

(* The last export of a drained server holds every request it served. *)
THEOREM ExportIsComplete == Spec => []ServedIsExported
<1>1. IInv => ServedIsExported
  BY DEF IInv
<1> QED
  BY <1>1, Inductive, PTL

(* main releases what it opened, whichever deferred call panics. *)
THEOREM MainReleases == Spec => []ReleasedOnExit
<1>1. IInv => ReleasedOnExit
  BY DEF IInv, Progress, Ends, ReleasedOnExit
<1> QED
  BY <1>1, Inductive, PTL

(***************************************************************************)
(* The graceful stop: the refinement of GracefulServer.                     *)
(***************************************************************************)

(* The phases, case by case, before and after a step. *)
PhaseTable ==
  /\ Alive /\ main \in {"config", "tracer", "metrics", "db", "migrate", "server"}
       => Phase = "starting"
  /\ Alive /\ main = "wait" => Phase = "serving"
  /\ Alive /\ main = "stop" => Phase = "draining"
  /\ Alive /\ main \in {"closeDB", "stopMetrics", "stopTracer", "sync", "over"}
       => Phase = "closing"
  /\ ~ Alive /\ main = "over" => Phase = "ended"
  /\ ~ Alive /\ main # "over" => Phase = "lost"

LEMMA Phases == PhaseTable /\ PhaseTable'
<1>1. PhaseTable
  BY DEF PhaseTable, Phase, Alive
<1>2. PhaseTable'
  BY DEF PhaseTable, Phase, Alive
<1> QED
  BY <1>1, <1>2

(* What is left of a step of a request when only its stage counts. *)
LEMMA RequestMoves ==
  ASSUME Types, NEW r \in Requests, RequestNext(r)
  PROVE  /\ Alive
         /\ \E q \in RequestRecords :
              /\ req' = [req EXCEPT ![r] = q]
              /\ \/ req[r].stage = "idle" /\ q.stage = "conn" /\ listener = "listening"
                 \/ req[r].stage = "conn" /\ q.stage = "idle" /\ main = "stop"
                 \/ req[r].stage = "conn" /\ q.stage = "metrics"
                 \/ /\ req[r].stage \notin {"idle", "done"}
                    /\ q.stage = "done"
                    /\ q.sent # 0
                 \/ /\ req[r].stage \notin {"idle", "conn", "done"}
                    /\ q.stage \notin {"idle", "conn", "done"}
<1>0. req[r] \in RequestRecords /\ req \in [Requests -> RequestRecords]
  BY DEF Types
<1> DEFINE Within(q) == /\ q \in RequestRecords
                        /\ req' = [req EXCEPT ![r] = q]
                        /\ req[r].stage \notin {"idle", "conn", "done"}
                        /\ q.stage \notin {"idle", "conn", "done"}
<1>a. ASSUME NEW s \in Stages \ {"idle", "conn", "done"},
             req' = [req EXCEPT ![r] = [req[r] EXCEPT !.stage = s]],
             req[r].stage \notin {"idle", "conn", "done"}
      PROVE  \E q : Within(q)
  <2>1. Within([req[r] EXCEPT !.stage = s])
    BY <1>0, <1>a, StageFields
  <2> QED
    BY <2>1
<1>b. ASSUME NEW s \in Statuses, req' = [req EXCEPT ![r] = RespondJSON(req[r], s)],
             req[r].stage \notin {"idle", "conn", "done"}
      PROVE  \E q : Within(q)
  <2>1. Within(RespondJSON(req[r], s))
    BY <1>0, <1>b, RespondFields
  <2> QED
    BY <2>1
<1> HIDE DEF Within
<1> USE DEF At, Goto
<1>1. CASE Accept(r)
  BY <1>0, <1>1, StageFields DEF Accept, Stages
<1>2. CASE CloseIdle(r)
  BY <1>0, <1>2, StageFields DEF CloseIdle, Stages
<1>3. ASSUME NEW kind \in Kinds, ServeHTTP(r, kind)
      PROVE  Alive /\ \E q \in RequestRecords :
               /\ req' = [req EXCEPT ![r] = q]
               /\ \/ req[r].stage = "conn" /\ q.stage = "metrics"
                  \/ req[r].stage = "conn" /\ q.stage = "done" /\ q.sent # 0
  <2>1. Alive /\ req[r].stage = "conn"
    BY <1>3 DEF ServeHTTP
  <2>2. CASE kind = "preflight"
    <3> DEFINE q == [req[r] EXCEPT !.kind = kind, !.stage = "done", !.sent = 200]
    <3>1. "done" \in Stages /\ 200 \in Statuses \cup {0}
      BY DEF Stages, Statuses, OpenStatuses
    <3>2. q \in RequestRecords /\ q.stage = "done" /\ q.sent = 200
      BY <1>0, <1>3, <3>1 DEF RequestRecords
    <3>3. req' = [req EXCEPT ![r] = q]
      BY <1>3, <2>2 DEF ServeHTTP
    <3> HIDE DEF q
    <3>4. q.sent # 0
      BY <3>2
    <3> QED
      BY <2>1, <3>2, <3>3, <3>4
  <2>3. CASE kind # "preflight"
    <3> DEFINE q == [req[r] EXCEPT !.kind = kind, !.stage = "metrics"]
    <3>1. q \in RequestRecords /\ q.stage = "metrics"
      BY <1>0, <1>3 DEF RequestRecords, Stages
    <3>2. req' = [req EXCEPT ![r] = q]
      BY <1>3, <2>3 DEF ServeHTTP
    <3> HIDE DEF q
    <3> QED
      BY <2>1, <3>1, <3>2
  <2> QED
    BY <2>2, <2>3
<1>4. CASE MetricsIn(r) \/ MetricsOut(r)
  <2>1. Alive /\ \E q : Within(q)
    BY <1>0, <1>4, StageFields DEF MetricsIn, MetricsOut, Stages, Within
  <2> QED
    BY <2>1 DEF Within
<1>5. CASE Route(r)
  <2>1. Alive /\ req[r].stage = "route" /\ req[r].stage \notin {"idle", "conn", "done"}
    BY <1>5 DEF Route
  <2>2. OpenStatuses \subseteq Statuses /\ "auth" \in Stages \ {"idle", "conn", "done"}
    BY DEF Statuses, Stages
  <2>3. \E q : Within(q)
    <3>1. CASE req' = [req EXCEPT ![r] = [req[r] EXCEPT !.stage = "auth"]]
      BY <1>a, <2>1, <2>2, <3>1
    <3>2. ASSUME NEW s \in OpenStatuses, req' = [req EXCEPT ![r] = RespondJSON(req[r], s)]
          PROVE  \E q : Within(q)
      BY <1>b, <2>1, <2>2, <3>2
    <3> QED
      BY <1>5, <3>1, <3>2 DEF Route
  <2> QED
    BY <2>1, <2>3 DEF Within
<1>6. CASE AuthMiddleware(r) \/ PresignLimiter(r)
  <2>1. Alive /\ req[r].stage \in {"auth", "limiter"}
    BY <1>6 DEF AuthMiddleware, PresignLimiter
  <2>2. {401, 429} \subseteq Statuses /\ {"limiter", "handler"} \subseteq Stages
    BY DEF Statuses, Stages
  <2>3. \E q : Within(q)
    <3>1. PICK s \in {"limiter", "handler"}, c \in {401, 429} :
            \/ req' = [req EXCEPT ![r] = [req[r] EXCEPT !.stage = s]]
            \/ req' = [req EXCEPT ![r] = RespondJSON(req[r], c)]
      BY <1>6 DEF AuthMiddleware, PresignLimiter, WriteErrorResponse
    <3> QED
      BY <1>a, <1>b, <2>1, <2>2, <3>1
  <2> QED
    BY <2>1, <2>3 DEF Within
<1>7. CASE CreateAsset(r)
  <2>1. Alive /\ req[r].stage = "handler" /\ req[r].stage \notin {"idle", "conn", "done"}
    BY <1>7 DEF CreateAsset
  <2>2. 400 \in Statuses /\ "service" \in Stages \ {"idle", "conn", "done"}
    BY DEF Statuses, Stages
  <2>3. ASSUME NEW why \in CtxErr(req[r]),
               req' = [req EXCEPT ![r] = Return([req[r] EXCEPT !.ctx = why])]
        PROVE  \E q : Within(q)
    <3>1. why \in {"live", "deadline", "gone"}
      BY <1>0, <2>3 DEF CtxErr, RequestRecords
    <3>2. [req[r] EXCEPT !.ctx = why] \in RequestRecords
      BY <1>0, <3>1 DEF RequestRecords
    <3>3. Within(Return([req[r] EXCEPT !.ctx = why]))
      BY <2>1, <2>3, <3>2, ReturnFields DEF Within
    <3> QED
      BY <3>3
  <2>4. \E q : Within(q)
    <3>1. CASE req' = [req EXCEPT ![r] = RespondJSON(req[r], 400)]
      BY <1>b, <2>1, <2>2, <3>1
    <3>2. CASE req' = [req EXCEPT ![r] = [req[r] EXCEPT !.stage = "service"]]
      BY <1>a, <2>1, <2>2, <3>2
    <3> QED
      BY <1>7, <2>3, <3>1, <3>2 DEF CreateAsset
  <2> QED
    BY <2>1, <2>4 DEF Within
<1>8. CASE MarkAssetUploaded(r) \/ Service(r)
  <2>1. Alive /\ req[r].stage \in {"handler", "service"}
    BY <1>8 DEF MarkAssetUploaded, Service
  <2>2. {200, 400, 500} \subseteq Statuses /\ "service" \in Stages
    BY DEF Statuses, OpenStatuses, Stages
  <2>3. \E q : Within(q)
    <3>1. PICK c \in {200, 400, 500} :
            \/ req' = [req EXCEPT ![r] = [req[r] EXCEPT !.stage = "service"]]
            \/ req' = [req EXCEPT ![r] = RespondJSON(req[r], c)]
            \/ req' = [req EXCEPT ![r] = Panic(req[r])]
      BY <1>8 DEF MarkAssetUploaded, Service
    <3>2. CASE req' = [req EXCEPT ![r] = Panic(req[r])]
      <4>1. Within(Panic(req[r]))
        BY <1>0, <2>1, <3>2, PanicFields DEF Within
      <4> QED
        BY <4>1
    <3> QED
      BY <1>a, <1>b, <2>1, <2>2, <3>1, <3>2
  <2> QED
    BY <2>1, <2>3 DEF Within
<1>9. CASE Unwind(r)
  <2>1. PICK why : req' = [req EXCEPT ![r] =
                            RecoveryOut(LoggerOut(TimeoutOut(TracingOut(req[r]), why)))]
    BY <1>9 DEF Unwind
  <2> DEFINE q == RecoveryOut(LoggerOut(TimeoutOut(TracingOut(req[r]), why)))
  <2>2. q \in RequestRecords /\ q.stage = "done" /\ q.sent # 0
    <3>1. \A old, new : new # 0 => First(old, new) # 0
      BY DEF First
    <3> QED
      BY <1>0, <3>1, UnwindFields
  <2> HIDE DEF q
  <2>3. Alive /\ req[r].stage = "tracing"
    BY <1>9 DEF Unwind
  <2> QED
    BY <2>1, <2>2, <2>3 DEF q
<1> QED
  BY <1>1, <1>2, <1>3, <1>4, <1>5, <1>6, <1>7, <1>8, <1>9 DEF RequestNext, Handle

GracefulVars == <<Phase, signalled, Connected, Taken, AnswerOf, expired>>

(* The steps of main, of the listening goroutine and of the reader: each      *)
(* moves the phase as promised or does not show.                              *)
LEMMA ProcessIsGraceful ==
  ASSUME Types, Ends, ProcessNext(Busy), UNCHANGED req
  PROVE  Graceful!Next \/ UNCHANGED GracefulVars
<1>0. UNCHANGED <<Connected, Taken, AnswerOf>>
  BY DEF Connected, Taken, AnswerOf, Done
<1>1. Busy <=> Connected \cup Taken # {}
  BY DEF Busy, Connected, Taken
<1>2. PhaseTable /\ PhaseTable'
  BY Phases
<1> USE DEF Step, End, startVars, stopVars, meterVars
<1>3. ASSUME Alive, Alive', UNCHANGED <<signalled, expired>>,
             \/ UNCHANGED main
             \/ /\ main \in {"config", "tracer", "metrics", "db", "migrate", "server"}
                /\ main' \in {"config", "tracer", "metrics", "db", "migrate", "server"}
             \/ /\ main \in {"closeDB", "stopMetrics", "stopTracer", "sync", "over"}
                /\ main' \in {"closeDB", "stopMetrics", "stopTracer", "sync", "over"}
      PROVE  UNCHANGED GracefulVars
  <2>1. Phase' = Phase
    BY <1>2, <1>3 DEF PhaseTable, Types, MainStages
  <2> QED
    BY <1>0, <1>3, <2>1 DEF GracefulVars
<1>4. ASSUME Alive, ~ Alive', main # "over", UNCHANGED <<main, signalled, expired>>
      PROVE  Graceful!Lose
  <2>1. Phase \notin {"ended", "lost"} /\ Phase' = "lost"
    BY <1>2, <1>4 DEF PhaseTable, Types, MainStages
  <2> QED
    BY <1>0, <1>4, <2>1 DEF Graceful!Lose, Graceful!Running, Graceful!Move
<1>5. CASE Configure \/ InitTracer \/ InitMetrics \/ NewPostgresDB \/ Migrate
  BY <1>3, <1>5 DEF Configure, InitTracer, InitMetrics, NewPostgresDB, Migrate, Alive
<1>6. CASE CloseDB \/ StopMetrics \/ StopTracer \/ ListenAndServe
  BY <1>3, <1>6 DEF CloseDB, StopMetrics, StopTracer, ListenAndServe, Alive
<1>7. CASE ConfigPanics \/ StartFails \/ ListenFails
  <2>1. Graceful!Lose
    BY <1>4, <1>7 DEF ConfigPanics, StartFails, ListenFails, Fatal, Alive, Ends
  <2> QED
    BY <2>1 DEF Graceful!Next
<1>8. CASE CollectPanics
  <2>1. main # "over"
    BY <1>8 DEF CollectPanics, Ends, Alive
  <2>2. Graceful!Lose
    BY <1>4, <1>8, <2>1 DEF CollectPanics, Alive
  <2> QED
    BY <2>2 DEF Graceful!Next
<1>9. CASE NewServer
  <2>1. Phase = "starting" /\ Phase' = "serving" /\ UNCHANGED <<signalled, expired>>
    BY <1>2, <1>9 DEF NewServer, Alive, PhaseTable
  <2> QED
    BY <1>0, <2>1 DEF Graceful!Next, Graceful!Serve, Graceful!Move
<1>10. CASE Signal /\ main = "config"
  <2>1. Graceful!Lose
    BY <1>4, <1>10 DEF Signal, Alive
  <2> QED
    BY <2>1 DEF Graceful!Next
<1>11. CASE Signal /\ main # "config"
  <2>1. Alive /\ Alive' /\ UNCHANGED <<main, expired>> /\ ~ signalled /\ signalled' = TRUE
    BY <1>11 DEF Signal, Alive
  <2>2. Phase' = Phase /\ Phase \notin {"ended", "lost"}
    BY <1>2, <2>1 DEF PhaseTable, Types, MainStages
  <2> QED
    BY <1>0, <2>1, <2>2 DEF Graceful!Next, Graceful!Ask, Graceful!Running
<1>12. CASE Stop
  <2>1. Phase = "serving" /\ Phase' = "draining" /\ signalled /\ UNCHANGED <<signalled, expired>>
    BY <1>2, <1>12 DEF Stop, Alive, PhaseTable
  <2> QED
    BY <1>0, <2>1 DEF Graceful!Next, Graceful!Drain, Graceful!Move
<1>13. CASE Drained(Busy)
  <2>1. /\ Phase = "draining" /\ Phase' = "closing" /\ UNCHANGED <<signalled, expired>>
        /\ Connected \cup Taken = {}
    BY <1>1, <1>2, <1>13 DEF Drained, Alive, PhaseTable
  <2> QED
    BY <1>0, <2>1 DEF Graceful!Next, Graceful!Close, Graceful!Move
<1>14. CASE GraceExpires(Busy)
  <2>1. /\ Phase = "draining" /\ Phase' = "closing" /\ UNCHANGED signalled /\ expired' = TRUE
        /\ Connected \cup Taken # {}
    BY <1>1, <1>2, <1>14 DEF GraceExpires, Alive, PhaseTable
  <2> QED
    BY <1>0, <2>1 DEF Graceful!Next, Graceful!Close, Graceful!Move
<1>15. CASE SyncLogger
  <2>1. Phase = "closing" /\ Phase' = "ended" /\ UNCHANGED <<signalled, expired>>
    BY <1>2, <1>15 DEF SyncLogger, Alive, PhaseTable
  <2> QED
    BY <1>0, <2>1 DEF Graceful!Next, Graceful!End, Graceful!Move
<1> QED
  BY <1>5, <1>6, <1>7, <1>8, <1>9, <1>10, <1>11, <1>12, <1>13, <1>14, <1>15
  DEF ProcessNext, MainNext

(* The steps of a request: it comes in while main waits, is never dropped     *)
(* once it has been read, and is answered once.                               *)
LEMMA RequestIsGraceful ==
  ASSUME IInv, NEW r \in Requests, RequestNext(r)
  PROVE  Graceful!Next \/ UNCHANGED GracefulVars
<1>0. Types /\ Progress /\ Drain /\ req \in [Requests -> RequestRecords]
  BY DEF IInv, Types
<1>1. UNCHANGED <<exit, signalled, expired, main, listener>>
  BY <1>0, RequestFrame
<1>2. PICK q \in RequestRecords :
        /\ req' = [req EXCEPT ![r] = q]
        /\ \/ req[r].stage = "idle" /\ q.stage = "conn" /\ listener = "listening"
           \/ req[r].stage = "conn" /\ q.stage = "idle" /\ main = "stop"
           \/ req[r].stage = "conn" /\ q.stage = "metrics"
           \/ /\ req[r].stage \notin {"idle", "done"}
              /\ q.stage = "done"
              /\ q.sent # 0
           \/ /\ req[r].stage \notin {"idle", "conn", "done"}
              /\ q.stage \notin {"idle", "conn", "done"}
  BY <1>0, RequestMoves
<1>3. req'[r] = q /\ \A o \in Requests \ {r} : req'[o] = req[o]
  BY <1>0, <1>2
<1>4. Alive /\ PhaseTable /\ Phase' = Phase
  <2>1. Alive /\ Alive'
    BY <1>0, <1>1, RequestMoves DEF Alive
  <2> QED
    BY <1>0, <1>1, <2>1, Phases DEF PhaseTable, Types, MainStages
<1>5. Phase \notin {"ended", "lost"} /\ (Busy /\ Phase = "closing" => expired)
  BY <1>0, <1>4 DEF PhaseTable, Types, MainStages, Drain
<1>6. CASE req[r].stage = "idle" /\ q.stage = "conn" /\ listener = "listening"
  <2>1. Phase = "serving"
    BY <1>0, <1>4, <1>6 DEF PhaseTable, Progress
  <2>2. /\ Connected' = Connected \cup {r} /\ Taken' = Taken /\ AnswerOf' = AnswerOf
        /\ r \notin Connected \cup Taken /\ AnswerOf[r] = 0
    BY <1>3, <1>6 DEF Connected, Taken, AnswerOf, Done
  <2> QED
    BY <1>1, <1>4, <2>1, <2>2 DEF Graceful!Next, Graceful!Connect
<1>7. CASE req[r].stage = "conn" /\ q.stage = "idle" /\ main = "stop"
  <2>1. Phase = "draining"
    BY <1>4, <1>7 DEF PhaseTable
  <2>2. /\ Connected' = Connected \ {r} /\ Taken' = Taken /\ AnswerOf' = AnswerOf
        /\ r \in Connected
    BY <1>3, <1>7 DEF Connected, Taken, AnswerOf, Done
  <2> QED
    BY <1>1, <1>4, <2>1, <2>2 DEF Graceful!Next, Graceful!Drop
<1>8. CASE req[r].stage = "conn" /\ q.stage = "metrics"
  <2>1. Busy
    BY <1>8 DEF Busy
  <2>2. /\ Connected' = Connected \ {r} /\ Taken' = Taken \cup {r} /\ AnswerOf' = AnswerOf
        /\ r \in Connected
    BY <1>3, <1>8 DEF Connected, Taken, AnswerOf, Done
  <2> QED
    BY <1>1, <1>4, <1>5, <2>1, <2>2
    DEF Graceful!Next, Graceful!Take, Graceful!Working, Graceful!Running
<1>9. CASE req[r].stage \notin {"idle", "done"} /\ q.stage = "done" /\ q.sent # 0
  <2>1. Busy
    BY <1>9 DEF Busy
  <2>2. /\ Connected' = Connected \ {r} /\ Taken' = Taken \ {r}
        /\ r \in Connected \cup Taken
    BY <1>3, <1>9 DEF Connected, Taken
  <2>3. /\ AnswerOf[r] = 0 /\ AnswerOf'[r] # 0
        /\ AnswerOf' = [AnswerOf EXCEPT ![r] = AnswerOf'[r]]
    BY <1>3, <1>9 DEF AnswerOf, Done
  <2> QED
    BY <1>1, <1>4, <1>5, <2>1, <2>2, <2>3
    DEF Graceful!Next, Graceful!Answer, Graceful!Working, Graceful!Running
<1>10. CASE /\ req[r].stage \notin {"idle", "conn", "done"}
            /\ q.stage \notin {"idle", "conn", "done"}
  <2>1. UNCHANGED <<Connected, Taken, AnswerOf>>
    BY <1>3, <1>10 DEF Connected, Taken, AnswerOf, Done
  <2> QED
    BY <1>1, <1>4, <2>1 DEF GracefulVars
<1> QED
  BY <1>2, <1>6, <1>7, <1>8, <1>9, <1>10

(* For any finite set of requests, any environments and outages and a signal  *)
(* at any moment, the process stops gracefully: Shutdown, the deferred calls, *)
(* the late listener and the unwinding of the handlers fit together.          *)
THEOREM StopsGracefully == Spec => GracefulSpec
<1>1. Init => Graceful!Init
  <2> SUFFICES ASSUME Init PROVE Graceful!Init
    OBVIOUS
  <2> USE DEF Init, ProcessInit, RequestInit, NewRequest
  <2>1. Phase = "starting"
    BY Phases DEF PhaseTable, Alive
  <2>2. Connected = {} /\ Taken = {} /\ AnswerOf = [r \in Requests |-> 0]
    BY DEF Connected, Taken, AnswerOf, Done
  <2>3. signalled = FALSE /\ expired = FALSE
    OBVIOUS
  <2> QED
    BY <2>1, <2>2, <2>3, Zenon DEF Graceful!Init
<1>2. IInv /\ [Next]_vars => [Graceful!Next]_GracefulVars
  <2> SUFFICES ASSUME IInv, [Next]_vars PROVE Graceful!Next \/ UNCHANGED GracefulVars
    OBVIOUS
  <2>1. CASE ProcessNext(Busy) /\ UNCHANGED req
    BY <2>1, ProcessIsGraceful DEF IInv
  <2>2. CASE \E r \in Requests : RequestNext(r)
    BY <2>2, RequestIsGraceful
  <2>3. CASE UNCHANGED vars
    BY <2>3 DEF vars, requestVars, processVars, startVars, stopVars, GracefulVars, Phase,
                Alive, Connected, Taken, AnswerOf, Done
  <2> QED
    BY <2>1, <2>2, <2>3 DEF Next
<1>3. IInv /\ [Next]_vars
        => [Graceful!Next]_<<Phase, signalled, Connected, Taken, AnswerOf, expired>>
  BY <1>2 DEF GracefulVars
<1> QED
  BY <1>1, <1>3, Inductive, PTL DEF Spec, GracefulSpec, Graceful!Spec

=============================================================================
