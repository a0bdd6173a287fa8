---------------------------- MODULE RequestChain ----------------------------
(***************************************************************************)
(* One HTTP request's way through the middleware of NewRouter and back.     *)
(* On the way in it meets Recovery, CORS, the logger, chi's 30 s Timeout,   *)
(* tracing, metrics, the routes, authorization, the presign limiter and the *)
(* handler; on the way out, returning or panicking, the same in reverse.    *)
(* RequestID, RealIP, Compress and SlowRequest change nothing seen here.    *)
(*                                                                          *)
(* A status passes outward through the wrappers of the response writer:     *)
(* those of metrics and tracing keep the last one written (code, 200 at     *)
(* first), the logger's and net/http's the first (sent, 0 for none).        *)
(***************************************************************************)
EXTENDS ServerProcess

CONSTANT MayPanic   \* the service may panic, for a reason the code does not show

ASSUME PanicAssumption == MayPanic \in BOOLEAN

Kinds == {"preflight", "open", "presign", "complete"}
OpenStatuses == {200, 404}    \* 204 is like the one, 405 like the other
Statuses == OpenStatuses \cup {400, 401, 429, 500, 504}

VARIABLE req

requestVars == <<processVars, req>>

NewRequest == [kind |-> "open", stage |-> "idle", dir |-> "in", ctx |-> "live",
               code |-> 200, sent |-> 0, span |-> 0, logged |-> 0]

RequestInit == req = [r \in Requests |-> NewRequest]

\* The request r is where the handler "stage" is about to run (dir is "in"),
\* to go on after next.ServeHTTP returned ("out") or to unwind ("panic").
At(r, stage, dir) == Alive /\ req[r].stage = stage /\ req[r].dir = dir

Goto(r, q) == req' = [req EXCEPT ![r] = q]

First(old, new) == IF old = 0 THEN new ELSE old

\* A mutant: the wrappers do not override WriteHeader.
WriteHeaderUnseen(q, status) == [q EXCEPT !.sent = First(@, status)]

WriteHeader(q, status) ==
  [q EXCEPT !.code = status, !.sent = First(@, status)]

\* The stages inside metrics have nothing to do on the way out.
Return(q) == [q EXCEPT !.stage = "metrics", !.dir = "out"]

RespondJSON(q, status) == Return(WriteHeader(q, status))

WriteErrorResponse(q) == RespondJSON(q, 401)   \* an UnauthorizedError

Panic(q) == [q EXCEPT !.stage = "metrics", !.dir = "panic"]

-----------------------------------------------------------------------------
(* The way in *)

\* A connection is accepted, and its request has not been read.
Accept(r) ==
  /\ At(r, "idle", "in")
  /\ listener = "listening"
  /\ Goto(r, [req[r] EXCEPT !.stage = "conn"])
  /\ UNCHANGED processVars

\* The request is read; CORS answers a preflight itself, any other request
\* starts a log entry, the timer of Timeout and a span.
ServeHTTP(r, kind) ==
  /\ At(r, "conn", "in")
  /\ Goto(r, IF kind = "preflight"
             THEN [req[r] EXCEPT !.kind = kind, !.stage = "done", !.sent = 200]
             ELSE [req[r] EXCEPT !.kind = kind, !.stage = "metrics"])
  /\ UNCHANGED processVars

\* Shutdown closes connections whose request does not come.
CloseIdle(r) ==
  /\ At(r, "conn", "in")
  /\ main = "stop"
  /\ Goto(r, [req[r] EXCEPT !.stage = "idle"])
  /\ UNCHANGED processVars

\* A mutant: only the decrement is there.
MetricsInUncounted(r) ==
  /\ At(r, "metrics", "in")
  /\ Goto(r, [req[r] EXCEPT !.stage = "route"])
  /\ UNCHANGED processVars

MetricsIn(r) ==
  /\ At(r, "metrics", "in")
  /\ active' = active + 1
  /\ Goto(r, [req[r] EXCEPT !.stage = "route"])
  /\ UNCHANGED <<startVars, stopVars, meter, records, exported, main, db, listener>>

\* The routes without authorization, and the ones that do not exist, answer.
Route(r) ==
  /\ At(r, "route", "in")
  /\ \/ /\ req[r].kind = "open"
        /\ \E s \in OpenStatuses : Goto(r, RespondJSON(req[r], s))
     \/ /\ req[r].kind # "open"
        /\ Goto(r, [req[r] EXCEPT !.stage = "auth"])
  /\ UNCHANGED processVars

\* A header that is missing, malformed or empty, or a token that DecryptToken
\* refuses, is answered here.
AuthMiddleware(r) ==
  /\ At(r, "auth", "in")
  /\ \/ Goto(r, WriteErrorResponse(req[r]))
     \/ Goto(r, [req[r] EXCEPT !.stage = IF req[r].kind = "presign"
                                         THEN "limiter" ELSE "handler"])
  /\ UNCHANGED processVars

\* Which requests the limiter lets through is the subject of RateLimiter.
PresignLimiter(r) ==
  /\ At(r, "limiter", "in")
  /\ \/ Goto(r, RespondJSON(req[r], 429))
     \/ Goto(r, [req[r] EXCEPT !.stage = "handler"])
  /\ UNCHANGED processVars

\* What ctx.Err() may report: the context of a request ends when the deadline
\* of Timeout passes or the client goes away, at any moment, for good.
CtxErr(q) == IF q.ctx = "live" THEN {"live", "deadline", "gone"} ELSE {q.ctx}

\* The body is read and validated; a request whose context has ended by then
\* is dropped without an answer.
CreateAsset(r) ==
  /\ At(r, "handler", "in")
  /\ req[r].kind = "presign"
  /\ \/ Goto(r, RespondJSON(req[r], 400))
     \/ \E why \in CtxErr(req[r]) \ {"live"} :
          Goto(r, Return([req[r] EXCEPT !.ctx = why]))
     \/ "live" \in CtxErr(req[r]) /\ Goto(r, [req[r] EXCEPT !.stage = "service"])
  /\ UNCHANGED processVars

MarkAssetUploaded(r) ==
  /\ At(r, "handler", "in")
  /\ req[r].kind = "complete"
  /\ \/ Goto(r, RespondJSON(req[r], 400))
     \/ Goto(r, [req[r] EXCEPT !.stage = "service"])
  /\ UNCHANGED processVars

\* The service's answer.  A nil Redis client is an error of Enqueue, and a pool
\* that is closed one of its next query; a connection in use survives Close, so
\* that a late request may still succeed.
Service(r) ==
  /\ At(r, "service", "in")
  /\ \/ \E s \in {200, 500} : Goto(r, RespondJSON(req[r], s))
     \/ MayPanic /\ Goto(r, Panic(req[r]))
  /\ UNCHANGED processVars

-----------------------------------------------------------------------------
(* The way out *)

\* A mutant: the decrement is not deferred, and a panic passes by it.
MetricsOutNotDeferred(r) ==
  /\ \/ At(r, "metrics", "out") /\ active' = active - 1
        /\ records' = [records EXCEPT ![r] = Append(@, req[r].code)]
     \/ At(r, "metrics", "panic") /\ UNCHANGED active
        /\ records' = [records EXCEPT ![r] = Append(@, 500)]
  /\ Goto(r, [req[r] EXCEPT !.stage = "tracing"])
  /\ UNCHANGED <<startVars, stopVars, meter, exported, main, db, listener>>

\* recordHTTPMetrics with the last status or, before panicking again, 500;
\* then the deferred decrement.
MetricsOut(r) ==
  /\ \/ At(r, "metrics", "out")
        /\ records' = [records EXCEPT ![r] = Append(@, req[r].code)]
     \/ At(r, "metrics", "panic")
        /\ records' = [records EXCEPT ![r] = Append(@, 500)]
  /\ active' = active - 1
  /\ Goto(r, [req[r] EXCEPT !.stage = "tracing"])
  /\ UNCHANGED <<startVars, stopVars, meter, exported, main, db, listener>>

\* What is left of the chain touches nothing but the request q.  The span ends
\* either way and has a status only without a panic.
TracingOut(q) == IF q.dir = "out" THEN [q EXCEPT !.span = q.code] ELSE q

\* The deferred function of Timeout answers 504 once the deadline has passed,
\* past the wrappers of metrics and tracing.
TimeoutOut(q, why) ==
  IF why = "deadline" THEN [q EXCEPT !.ctx = "deadline", !.sent = First(@, 504)] ELSE q

\* "Request completed" with the first status written; a panic passes by.
LoggerOut(q) == IF q.dir = "out" THEN [q EXCEPT !.logged = q.sent] ELSE q

\* A mutant: the panic is logged and not answered.
RecoverySilent(q) == [q EXCEPT !.stage = "done", !.sent = First(@, 200)]

\* Recovery turns a panic into 500, and net/http a missing answer into 200.
RecoveryOut(q) ==
  [q EXCEPT !.stage = "done", !.sent = First(@, IF q.dir = "panic" THEN 500 ELSE 200)]

\* A mutant: the deferred functions wait for a return that does not come.
UnwindReturns(r) ==
  /\ At(r, "tracing", "out")
  /\ \E why \in CtxErr(req[r]) :
       Goto(r, RecoveryOut(LoggerOut(TimeoutOut(TracingOut(req[r]), why))))
  /\ UNCHANGED processVars

Unwind(r) ==
  /\ At(r, "tracing", "out") \/ At(r, "tracing", "panic")
  /\ \E why \in CtxErr(req[r]) :
       Goto(r, RecoveryOut(LoggerOut(TimeoutOut(TracingOut(req[r]), why))))
  /\ UNCHANGED processVars

-----------------------------------------------------------------------------
\* The steps of r's goroutine that wait for nothing but bounded calls.  The
\* reads of a request and of the body of /presign wait for the client: the
\* server sets no read timeout.
Handle(r) ==
  \/ MetricsIn(r) \/ Route(r) \/ AuthMiddleware(r) \/ PresignLimiter(r)
  \/ MarkAssetUploaded(r) \/ Service(r)
  \/ MetricsOut(r) \/ Unwind(r)

RequestNext(r) ==
  \/ Accept(r) \/ CloseIdle(r) \/ CreateAsset(r) \/ Handle(r)
  \/ \E kind \in Kinds : ServeHTTP(r, kind)
=============================================================================
