----------------------------- MODULE JobConsumer -----------------------------
(***************************************************************************)
(* The worker: the loop of main(), Consumer.consume with its two message   *)
(* handlers and its recovery sweep, and process_asset_dispatch with the    *)
(* image and video pipelines.  Every database transaction, storage call    *)
(* and stream command that another process can observe is a step.          *)
(*                                                                         *)
(* The pending-entries list of the consumer group is not part of the       *)
(* state: XACK removes entries from it and no code reads it, so leaving a  *)
(* message unacknowledged and acknowledging it have the same effect here.  *)
(***************************************************************************)
EXTENDS MediaStore

CONSTANTS
  Workers,     \* the worker processes
  MaxRetries,  \* cfg.redis.max_retries; attempts are counted up to it
  StreamCap    \* bound: no recovery sweep becomes due and no worker crashes
               \* while this many messages wait

ASSUME RetryAssumption == MaxRetries \in Nat \ {0}

VARIABLES
  pc,       \* where worker w is
  cur,      \* the asset of the message worker w is handling
  due,      \* the workers whose recovery interval has elapsed
  booting,  \* the workers still in the first consume(), outside main's try
  scan,     \* scan[w]: the jobs the recovery sweep of w still has to re-add
  nxt,      \* nxt[w]: the index of the variant worker w makes next
  exc,      \* exc[w]: the kind of exception dispatch raised
  seen      \* seen[w]: the attempts the failure handler of w read

workerVars == <<pc, cur, due, booting, scan, nxt, exc, seen>>

WorkerPc == {"down", "idle", "requeue", "ensure", "claim", "load", "mark",
             "prepare", "generate", "insert", "link", "finish", "videofail",
             "catch", "fail"}

(* The places where a worker holds a message. *)
Busy == WorkerPc \ {"down", "idle", "requeue"}

(* The places inside process_asset_dispatch. *)
Dispatching == {"load", "mark", "prepare", "generate", "insert", "link", "videofail"}

ConsumerInit ==
  /\ pc = [w \in Workers |-> "down"]
  /\ cur = [w \in Workers |-> NoAsset]
  /\ due = {}
  /\ booting = {}
  /\ scan = [w \in Workers |-> {}]
  /\ nxt = [w \in Workers |-> 1]
  /\ exc = [w \in Workers |-> "none"]
  /\ seen = [w \in Workers |-> 0]

Goto(w, to) == pc' = [pc EXCEPT ![w] = to]

(* consume() returns to the loop, with or without having acknowledged. *)
Return(w) ==
  /\ Goto(w, "idle")
  /\ cur' = [cur EXCEPT ![w] = NoAsset]
  /\ booting' = booting \ {w}
  /\ nxt' = [nxt EXCEPT ![w] = 1]
  /\ exc' = [exc EXCEPT ![w] = "none"]
  /\ seen' = [seen EXCEPT ![w] = 0]
  /\ UNCHANGED <<due, scan>>

(* The process is gone; whatever it held in memory is lost. *)
Die(w) ==
  /\ Goto(w, "down")
  /\ cur' = [cur EXCEPT ![w] = NoAsset]
  /\ booting' = booting \ {w}
  /\ due' = due \ {w}
  /\ scan' = [scan EXCEPT ![w] = {}]
  /\ nxt' = [nxt EXCEPT ![w] = 1]
  /\ exc' = [exc EXCEPT ![w] = "none"]
  /\ seen' = [seen EXCEPT ![w] = 0]

(* dispatch raises: control is in the except clause of _handle_job. *)
Raise(w, kind) ==
  /\ Goto(w, "catch")
  /\ exc' = [exc EXCEPT ![w] = kind]
  /\ UNCHANGED <<cur, due, booting, scan, nxt, seen>>

Step(w, to) == Goto(w, to) /\ UNCHANGED <<cur, due, booting, scan, nxt, exc, seen>>

-----------------------------------------------------------------------------
(* Starting, polling and recovery *)

(* Consumer.__init__: the group is created if missing, and _last_recovery = 0 *)
(* makes the first sweep due at once.                                         *)
Start(w) ==
  /\ pc[w] = "down"
  /\ Goto(w, "idle")
  /\ due' = due \cup {w}
  /\ booting' = booting \cup {w}
  /\ group' = TRUE
  /\ UNCHANGED <<cur, scan, nxt, exc, seen, dbVars, storageVars, stream, faults>>

(* The recovery interval of worker w elapses. *)
Elapse(w) ==
  /\ pc[w] # "down"
  /\ w \notin due
  /\ Len(stream) < StreamCap
  /\ due' = due \cup {w}
  /\ UNCHANGED <<pc, cur, booting, scan, nxt, exc, seen, storeVars>>

(* An exception outside the try of consume(): it kills a worker in its first  *)
(* call, and main's loop logs it afterwards.  A sweep it interrupts is over;  *)
(* stillDue are the workers whose next sweep is due then.                     *)
Escape(w, stillDue) ==
  IF w \in booting
  THEN Die(w)
  ELSE /\ Goto(w, "idle")
       /\ scan' = [scan EXCEPT ![w] = {}]
       /\ due' = stillDue
       /\ UNCHANGED <<cur, booting, nxt, exc, seen>>

(* A mutant: the sweep looks at 'pending' only, as its name says. *)
StuckPending == {a \in Assets : job[a] = "pending" /\ a \in stale}

(* The query of _recover_stuck_pending. *)
Stuck == {a \in Assets : job[a] \in {"pending", "in_progress"} /\ a \in stale}

(* _maybe_recover: the interval is restarted before the sweep runs. *)
Recover(w) ==
  /\ pc[w] = "idle"
  /\ w \in due
  /\ \/ /\ NoFault
        /\ Goto(w, "requeue")
        /\ due' = due \ {w}
        /\ scan' = [scan EXCEPT ![w] = Stuck]
        /\ UNCHANGED <<cur, booting, nxt, exc, seen>>
     \/ Fault("db") /\ Escape(w, due \ {w})
  /\ UNCHANGED <<dbVars, storageVars, redisVars>>

(* One XADD of the sweep; the row is not touched. *)
Requeue(w) ==
  /\ pc[w] = "requeue"
  /\ \E a \in scan[w] :
       \/ /\ NoFault
          /\ Xadd(JobMessage(a))
          /\ scan' = [scan EXCEPT ![w] = @ \ {a}]
          /\ UNCHANGED <<pc, cur, due, booting, nxt, exc, seen>>
       \/ /\ Fault("redis")
          /\ Xadd(JobMessage(a)) \/ UNCHANGED stream
          /\ Escape(w, due)
  /\ UNCHANGED <<dbVars, storageVars, group>>

(* XREADGROUP with ">" delivers the oldest undelivered message. *)
Polling(w) == \/ pc[w] = "idle" /\ w \notin due
              \/ pc[w] = "requeue" /\ scan[w] = {}

Deliver(w, m) ==
  /\ Goto(w, IF m.kind = "job" THEN "claim" ELSE "ensure")
  /\ cur' = [cur EXCEPT ![w] = m.asset]
  /\ UNCHANGED <<due, booting, scan, nxt, exc, seen>>

Read(w) ==
  /\ Polling(w)
  /\ stream # <<>>
  /\ stream' = Tail(stream)
  /\ IF Head(stream).kind = "malformed" THEN Return(w) ELSE Deliver(w, Head(stream))
  /\ UNCHANGED <<dbVars, storageVars, group, faults>>

(* Nothing to read within the block time. *)
ReadNothing(w) ==
  /\ pc[w] = "requeue"
  /\ scan[w] = {}
  /\ stream = <<>>
  /\ Return(w)
  /\ UNCHANGED storeVars

(* XREADGROUP fails.  The server may already have moved the message to the    *)
(* pending-entries list.                                                      *)
ReadFails(w) ==
  /\ Polling(w)
  /\ Fault("redis")
  /\ \/ UNCHANGED stream
     \/ stream # <<>> /\ stream' = Tail(stream)
  /\ Escape(w, due)
  /\ UNCHANGED <<dbVars, storageVars, group>>

-----------------------------------------------------------------------------
(* The message handlers *)

SetJob(a, s) == /\ job' = [job EXCEPT ![a] = s]
                /\ stale' = stale \ {a}

SetAsset(a, s) == asset' = [asset EXCEPT ![a] = s]

(* An exception inside the try of consume(): logged, not acknowledged. *)
Abandon(w) == Return(w)

(* A mutant: any asset that exists gets a job. *)
AnyStatus(a) == asset[a] # "none"

(* Only uploaded assets and those already processing are accepted. *)
Processable(a) == asset[a] \in {"uploaded", "processing"}

(* INSERT INTO jobs ... ON CONFLICT DO NOTHING *)
InsertJob(a) == IF job[a] = "none" THEN SetJob(a, "pending") ELSE UNCHANGED <<job, stale>>

(* _handle_asset_message: the job row is made if it is missing. *)
EnsureJob(w) ==
  LET a == cur[w] IN
  /\ pc[w] = "ensure"
  /\ \/ /\ ~Processable(a)
        /\ Return(w)
        /\ NoFault
        /\ UNCHANGED <<job, stale>>
     \/ /\ Processable(a)
        /\ InsertJob(a)
        /\ Step(w, "claim")
        /\ NoFault
     \/ /\ Fault("db")
        /\ Abandon(w)
        /\ UNCHANGED <<job, stale>> \/ (Processable(a) /\ InsertJob(a))
  /\ UNCHANGED <<asset, attempts, rows, links, storageVars, redisVars>>

CountAttempt(n) == IF n < MaxRetries THEN n + 1 ELSE n

(* A mutant: the claim forgets to count. *)
ClaimUncounted(a) == SetJob(a, "in_progress") /\ UNCHANGED attempts

ClaimRow(a) == /\ SetJob(a, "in_progress")
               /\ attempts' = [attempts EXCEPT ![a] = CountAttempt(@)]

(* Mutants: a done job may be claimed again; only jobs in the worker's own    *)
(* vocabulary may.                                                            *)
ClaimableDone(a) == job[a] # "none"
ClaimableKnown(a) == job[a] \in {"pending", "in_progress", "failed"}

(* Only a missing or a done job is skipped. *)
Claimable(a) == job[a] \notin {"none", "done"}

(* The first transaction of _handle_job. *)
Claim(w) ==
  LET a == cur[w] IN
  /\ pc[w] = "claim"
  /\ \/ /\ ~Claimable(a)
        /\ Return(w)
        /\ NoFault
        /\ UNCHANGED <<job, stale, attempts>>
     \/ /\ Claimable(a)
        /\ ClaimRow(a)
        /\ Step(w, "load")
        /\ NoFault
     \/ /\ Fault("db")
        /\ Abandon(w)
        /\ \/ UNCHANGED <<job, stale, attempts>>
           \/ Claimable(a) /\ ClaimRow(a)
  /\ UNCHANGED <<asset, rows, links, storageVars, redisVars>>

-----------------------------------------------------------------------------
(* process_asset_dispatch *)

(* A mutant: an asset somebody is processing counts as processed. *)
ProcessedOrBusy(a) == asset[a] \in {"ready", "processing"}

AlreadyProcessed(a) == asset[a] = "ready"

(* The asset row is read; a ready asset needs no work. *)
Load(w) ==
  /\ pc[w] = "load"
  /\ \/ /\ AlreadyProcessed(cur[w])
        /\ Step(w, "finish")
        /\ NoFault
     \/ /\ ~AlreadyProcessed(cur[w])
        /\ Step(w, "mark")
        /\ NoFault
     \/ Fault("db") /\ Raise(w, "permanent")
  /\ UNCHANGED <<dbVars, storageVars, redisVars>>

MarkProcessing(w) ==
  /\ pc[w] = "mark"
  /\ \/ SetAsset(cur[w], "processing") /\ Step(w, "prepare") /\ NoFault
     \/ /\ Fault("db")
        /\ Raise(w, "permanent")
        /\ SetAsset(cur[w], "processing") \/ UNCHANGED asset
  /\ UNCHANGED <<job, attempts, stale, rows, links, storageVars, redisVars>>

(* The rows check_for_duplicate can find: other assets whose stored content   *)
(* hash is that of the file.                                                  *)
Canonicals(a) == {c \in Backfilled \ {a} : asset[c] # "none" /\ Content[c] = Content[a]}

(* FOR UPDATE SKIP LOCKED passes over a row that a transaction of another     *)
(* process has locked: a worker handling that asset or deduplicating against  *)
(* it, or the API marking it uploaded.  Which row is the oldest is left open. *)
MaySkip(w, c) ==
  \/ asset[c] = "uploading" /\ c \in raw
  \/ \E v \in Workers \ {w} :
       /\ pc[v] \in Busy
       /\ cur[v] = c \/ (pc[v] = "prepare" /\ c \in Canonicals(cur[v]))

NoDuplicate(w) == \A c \in Canonicals(cur[w]) : MaySkip(w, c)

(* Cloning from a ready canonical asset always ends in an exception: psycopg  *)
(* refuses conn.commit() inside conn.transaction(), and rolls the clone back. *)
CloneRaises(w) ==
  /\ \E c \in Canonicals(cur[w]) : asset[c] = "ready"
  /\ Raise(w, "permanent")
  /\ NoFault

(* Download, hash, dedup, probe and metadata update, in that order. *)
Prepare(w) ==
  LET a == cur[w] IN
  /\ pc[w] = "prepare"
  /\ \/ /\ NoDuplicate(w)
        /\ Type[a] \in Supported
        /\ Executes(Schema, MetadataUpdate(Type[a]))
        /\ Step(w, "generate")
        /\ NoFault
     \/ /\ NoDuplicate(w)
        /\ \/ a \in Corrupt
           \/ Type[a] \notin Supported
           \/ ~Executes(Schema, MetadataUpdate(Type[a]))
        /\ Raise(w, "permanent")
        /\ NoFault
     \/ /\ \E c \in Canonicals(a) : asset[c] # "ready"
        /\ Raise(w, "retryable")
        /\ NoFault
     \/ CloneRaises(w)
     \/ Fault("storage") /\ Raise(w, "permanent")
     \/ Fault("db") /\ Raise(w, "permanent")
  /\ UNCHANGED <<dbVars, storageVars, redisVars>>

NextVariant(w) ==
  /\ Goto(w, "generate")
  /\ nxt' = [nxt EXCEPT ![w] = @ + 1]
  /\ UNCHANGED <<cur, due, booting, scan, exc, seen>>

(* A mutant: a failed upload is ignored. *)
UploadIgnored(w) == Step(w, "insert")

(* An exception while variants are made: process_video_file has an except     *)
(* clause of its own around them.                                             *)
VariantFails(w) ==
  IF Type[cur[w]] = "video" THEN Step(w, "videofail") ELSE Raise(w, "permanent")

(* A mutant: the loop over the roles stops one too early. *)
LastMissing(w) == nxt[w] >= Len(Roles(cur[w]))

(* The loop over the roles is over. *)
AllMade(w) == nxt[w] > Len(Roles(cur[w]))

(* A variant whose row exists is not made again; any other is made and its    *)
(* object stored before the row is inserted.                                  *)
MakeVariant(w) ==
  LET a == cur[w]
      v == Variant(a, nxt[w])
  IN
  /\ pc[w] = "generate"
  /\ ~AllMade(w)
  /\ \/ /\ v \in rows
        /\ Step(w, "insert")
        /\ NoFault
        /\ UNCHANGED objects
     \/ /\ v \notin rows
        /\ a \notin Corrupt
        /\ objects' = objects \cup {v}
        /\ Step(w, "insert")
        /\ NoFault
     \/ /\ v \notin rows
        /\ a \in Corrupt
        /\ VariantFails(w)
        /\ NoFault
        /\ UNCHANGED objects
     \/ /\ v \notin rows
        /\ Fault("storage")
        /\ VariantFails(w)
        /\ UNCHANGED objects \/ (a \notin Corrupt /\ objects' = objects \cup {v})
     \/ Fault("db") /\ VariantFails(w) /\ UNCHANGED objects
  /\ UNCHANGED <<dbVars, raw, redisVars>>

(* The row of the variant.  process_image_file links the asset in the same    *)
(* transaction, the video pipeline in the next one.                           *)
StoreVariant(a, i) ==
  /\ rows' = rows \cup {Variant(a, i)}
  /\ links' = IF Type[a] = "image" THEN links \cup {Link(a, i)} ELSE links

InsertVariant(w) ==
  LET a == cur[w]
      accepted == \/ Variant(a, nxt[w]) \in rows
                  \/ Executes(Schema, VariantInsert(Roles(a)[nxt[w]]))
  IN
  /\ pc[w] = "insert"
  /\ \/ /\ accepted
        /\ StoreVariant(a, nxt[w])
        /\ IF Type[a] = "image" THEN NextVariant(w) ELSE Step(w, "link")
        /\ NoFault
     \/ /\ ~accepted
        /\ VariantFails(w)
        /\ NoFault
        /\ UNCHANGED <<rows, links>>
     \/ /\ Fault("db")
        /\ VariantFails(w)
        /\ UNCHANGED <<rows, links>> \/ (accepted /\ StoreVariant(a, nxt[w]))
  /\ UNCHANGED <<asset, job, attempts, stale, storageVars, redisVars>>

(* link_variant_to_asset *)
LinkVariant(w) ==
  LET l == Link(cur[w], nxt[w]) IN
  /\ pc[w] = "link"
  /\ \/ /\ NoFault
        /\ IF Executes(Schema, LinkInsert(Roles(cur[w])[nxt[w]]))
           THEN links' = links \cup {l} /\ NextVariant(w)
           ELSE VariantFails(w) /\ UNCHANGED links
     \/ /\ Fault("db")
        /\ VariantFails(w)
        /\ UNCHANGED links \/ links' = links \cup {l}
  /\ UNCHANGED <<asset, job, attempts, stale, rows, storageVars, redisVars>>

(* All variants are there: the pipeline itself marks the asset ready.         *)
MarkReady(w) ==
  LET a == cur[w] IN
  /\ pc[w] = "generate"
  /\ AllMade(w)
  /\ \/ /\ NoFault
        /\ IF Executes(Schema, ReadyUpdate(Type[a]))
           THEN SetAsset(a, "ready") /\ Step(w, "finish")
           ELSE UNCHANGED asset /\ Raise(w, "permanent")
     \/ /\ Fault("db")
        /\ Raise(w, "permanent")
        /\ \/ UNCHANGED asset
           \/ Executes(Schema, ReadyUpdate(Type[a])) /\ SetAsset(a, "ready")
  /\ UNCHANGED <<job, attempts, stale, rows, links, storageVars, redisVars>>

(* The except clause of process_video_file marks the asset failed, then       *)
(* raises again.                                                              *)
VideoFail(w) ==
  /\ pc[w] = "videofail"
  /\ Raise(w, "permanent")
  /\ \/ SetAsset(cur[w], "failed") /\ NoFault
     \/ Fault("db") /\ (SetAsset(cur[w], "failed") \/ UNCHANGED asset)
  /\ UNCHANGED <<job, attempts, stale, rows, links, storageVars, redisVars>>

-----------------------------------------------------------------------------
(* The end of _handle_job *)

(* The except clause reads the attempts without a lock ... *)
FailRead(w) ==
  /\ pc[w] = "catch"
  /\ \/ /\ seen' = [seen EXCEPT ![w] = attempts[cur[w]]]
        /\ Goto(w, "fail")
        /\ NoFault
        /\ UNCHANGED <<cur, due, booting, scan, nxt, exc>>
     \/ Fault("db") /\ Abandon(w)
  /\ UNCHANGED <<dbVars, storageVars, redisVars>>

(* A mutant: the last attempt is not made. *)
GiveUpEarly(w) == exc[w] # "retryable" \/ seen[w] + 1 >= MaxRetries

GiveUp(w) == exc[w] # "retryable" \/ seen[w] >= MaxRetries

(* A mutant: the asset is failed although its job will be tried again. *)
FailBoth(w) ==
  /\ SetJob(cur[w], IF GiveUp(w) THEN "failed" ELSE "pending")
  /\ SetAsset(cur[w], "failed")

RecordFailure(w) ==
  IF GiveUp(w)
  THEN SetJob(cur[w], "failed") /\ SetAsset(cur[w], "failed")
  ELSE SetJob(cur[w], "pending") /\ UNCHANGED asset

(* ... and then decides between 'failed' and 'pending'. *)
FailWrite(w) ==
  /\ pc[w] = "fail"
  /\ Return(w)
  /\ \/ RecordFailure(w) /\ NoFault
     \/ Fault("db") /\ (RecordFailure(w) \/ UNCHANGED <<job, stale, asset>>)
  /\ UNCHANGED <<attempts, rows, links, storageVars, redisVars>>

RecordSuccess(a) == SetJob(a, "done") /\ SetAsset(a, "ready")

(* Success: job and asset in one transaction, then XACK. *)
Finish(w) ==
  /\ pc[w] = "finish"
  /\ Return(w)
  /\ \/ RecordSuccess(cur[w]) /\ NoFault
     \/ Fault("db") /\ (RecordSuccess(cur[w]) \/ UNCHANGED <<job, stale, asset>>)
  /\ UNCHANGED <<attempts, rows, links, storageVars, redisVars>>

(* The worker process is killed or stopped. *)
Crash(w) ==
  /\ pc[w] # "down"
  /\ Len(stream) < StreamCap
  /\ Fault("crash")
  /\ Die(w)
  /\ UNCHANGED <<dbVars, storageVars, redisVars>>

WorkerStep(w) ==
  \/ Start(w) \/ Recover(w) \/ Requeue(w) \/ Read(w) \/ ReadNothing(w)
  \/ EnsureJob(w) \/ Claim(w) \/ Load(w) \/ MarkProcessing(w) \/ Prepare(w)
  \/ MakeVariant(w) \/ InsertVariant(w) \/ LinkVariant(w) \/ MarkReady(w)
  \/ VideoFail(w) \/ FailRead(w) \/ FailWrite(w) \/ Finish(w)
=============================================================================
