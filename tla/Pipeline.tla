------------------------------ MODULE Pipeline ------------------------------
(***************************************************************************)
(* The whole pipeline: clients, the API server, the Redis stream, the      *)
(* database, the object store and the workers.                             *)
(***************************************************************************)
EXTENDS AssetService, JobConsumer

CONSTANTS Foreign   \* the messages that may be published by other producers

ASSUME ForeignAssumption ==
  Foreign \subseteq {m \in Message : m.kind # "job"}

VARIABLE published  \* the foreign messages published so far

vars == <<storeVars, apiVars, workerVars, published>>

Init == StoreInit /\ ApiInit /\ ConsumerInit /\ published = {}

(* A producer outside the repository adds a message; the consumer accepts an  *)
(* asset id in place of a job id.                                             *)
Publish(m) ==
  /\ m \notin published
  /\ published' = published \cup {m}
  /\ Xadd(m)
  /\ UNCHANGED <<dbVars, storageVars, group, faults, apiVars, workerVars>>

ClientNext ==
  \/ \E a \in Assets : CreateAsset(a) \/ ClientPut(a)
  \/ \E r \in Requests, a \in Assets : CompleteRequest(r, a)

ApiNext(r) == RequestStep(r) \/ ApiCrash(r)

WorkerNext(w) == WorkerStep(w) \/ ReadFails(w) \/ Elapse(w) \/ Crash(w)

Next ==
  \/ (ClientNext \/ \E r \in Requests : ApiNext(r)) /\ UNCHANGED <<workerVars, published>>
  \/ (\E w \in Workers : WorkerNext(w)) /\ UNCHANGED <<apiVars, published>>
  \/ (\E a \in Assets : Age(a)) /\ UNCHANGED <<apiVars, workerVars, published>>
  \/ \E m \in Foreign : Publish(m)

Spec == Init /\ [][Next]_vars

(* Workers and request handlers keep running, time passes, and dead workers   *)
(* are restarted by the container runtime (Start is a worker step).  Faults,  *)
(* clients and foreign producers owe nothing.                                 *)
Fairness ==
  /\ \A w \in Workers :
       /\ WF_vars(WorkerStep(w) /\ UNCHANGED <<apiVars, published>>)
       /\ WF_vars(Elapse(w) /\ UNCHANGED <<apiVars, published>>)
  /\ \A r \in Requests : WF_vars(RequestStep(r) /\ UNCHANGED <<workerVars, published>>)
  /\ \A a \in Assets : WF_vars(Age(a) /\ UNCHANGED <<apiVars, workerVars, published>>)

FairSpec == Spec /\ Fairness

-----------------------------------------------------------------------------
(* Invariants *)

StoreTypeOK ==
  /\ asset \in [Assets -> AssetStatus]
  /\ job \in [Assets -> JobStatus]
  /\ attempts \in [Assets -> 0 .. MaxRetries]
  /\ stale \subseteq Assets
  /\ raw \subseteq Assets
  /\ stream \in Seq(Message)
  /\ group \in BOOLEAN
  /\ faults \in 0 .. MaxFaults

ApiTypeOK ==
  /\ reqPc \in [Requests -> RequestPc]
  /\ reqAsset \in [Requests -> Assets \cup {NoAsset}]
  /\ tries \in [Requests -> 0 .. MaxEnqueue]

WorkerTypeOK ==
  /\ pc \in [Workers -> WorkerPc]
  /\ cur \in [Workers -> Assets \cup {NoAsset}]
  /\ due \subseteq Workers
  /\ booting \subseteq Workers
  /\ scan \in [Workers -> SUBSET Assets]
  /\ nxt \in [Workers -> Nat \ {0}]
  /\ exc \in [Workers -> {"none", "permanent", "retryable"}]
  /\ seen \in [Workers -> 0 .. MaxRetries]

(* Every variable has its type: the statuses are those the two services use,  *)
(* the attempts respect the cap and the XADD tries of Enqueue their limit.    *)
TypeOK == StoreTypeOK /\ ApiTypeOK /\ WorkerTypeOK /\ published \subseteq Foreign

(* An asset has a job row exactly when it has left 'uploading': the API's     *)
(* transaction writes both or neither, whatever the interleaving of repeated  *)
(* /complete calls, failed commits, foreign asset messages and workers.  The  *)
(* flow in the repository's README (line 46) has the server create "the asset *)
(* + job" before it returns the upload URL; CreateAsset inserts the asset     *)
(* alone, and this is what the code keeps instead.                            *)
JobIffUploaded ==
  \A a \in Assets : job[a] # "none" <=> asset[a] \notin {"none", "uploading"}

(* No message names a job that is not committed: every job message on the     *)
(* stream, every job a recovery sweep is about to re-add and every message a  *)
(* worker has taken past the asset check refers to a job row, so the "job not *)
(* found" branch of _handle_job is never taken.                               *)
MessagesHaveJobs ==
  /\ \A i \in 1 .. Len(stream) : stream[i].kind = "job" => job[stream[i].asset] # "none"
  /\ \A w \in Workers : \A a \in scan[w] : job[a] # "none"
  /\ \A w \in Workers : pc[w] \in Busy \ {"ensure"} => job[cur[w]] # "none"

(* Every variant of a is linked, its row exists and its object is stored. *)
Complete(a) ==
  \A i \in 1 .. Len(Roles(a)) :
    Link(a, i) \in links /\ Variant(a, i) \in rows /\ Variant(a, i) \in objects

(* An asset shown as ready has all its variants, also when several workers    *)
(* processed it at once, some of them failed or crashed half-way, and commits *)
(* were lost: 'ready' is written after the last link only.                    *)
ReadyIsComplete == \A a \in Assets : asset[a] = "ready" => Complete(a)

(* A done job has produced all variants of its asset, also when the worker    *)
(* that finished it did no work itself because it found the asset ready.      *)
DoneIsComplete == \A a \in Assets : job[a] = "done" => Complete(a)

(* A variant row never points to a missing object: the upload precedes the    *)
(* insert, and a failed insert leaves at most an orphaned object.             *)
RowsAreStored == rows \subseteq objects

(* A job that a worker has touched has at least one attempt counted, and an   *)
(* untouched one has none: the claim counts before any outcome is recorded.   *)
OutcomesAreCounted ==
  \A a \in Assets : attempts[a] = 0 <=> job[a] \in {"none", "processing"}

(* The message of a's job is still to be added, waits on the stream or is in   *)
(* the hand of a worker that is about to claim the job.                       *)
OnItsWay(a) ==
  \/ \E r \in Requests : reqPc[r] = "enqueue" /\ reqAsset[r] = a
  \/ \E i \in 1 .. Len(stream) : stream[i].kind = "job" /\ stream[i].asset = a
  \/ \E w \in Workers : pc[w] = "claim" /\ cur[w] = a

(* The jobs the API committed that nobody will claim: the sweep does not look *)
(* for them, and their message is gone.                                       *)
Stranded == {a \in Assets : job[a] = "processing" /\ ~OnItsWay(a)}

(* Each fault strands at most one job, whether it is a crash of the API after *)
(* its commit, a commit of unknown outcome, a failed XADD or XREADGROUP, a    *)
(* worker that dies before its claim or a claim that fails; and no            *)
(* interleaving of requests, sweeps, foreign messages and workers strands any *)
(* without a fault.                                                           *)
StrandedByFaults ==
  GroupExists => IsFiniteSet(Stranded) /\ Cardinality(Stranded) <= faults

(* MAXLEN evicts nothing. *)
BelowLimit == Len(stream) < MaxStreamLength

-----------------------------------------------------------------------------
(* What a step may never do *)

(* The number of attempts a failure handler acts on is not ahead of the row:  *)
(* a retryable failure ends a job only once all its attempts are used up,     *)
(* although the handler reads the counter without a lock and other workers    *)
(* claim the job meanwhile.                                                   *)
RetriesAreUsedUp ==
  [][\A w \in Workers :
       /\ pc[w] = "fail" /\ exc[w] = "retryable" /\ pc'[w] # "fail"
       /\ job'[cur[w]] = "failed" /\ job[cur[w]] # "failed"
       => attempts[cur[w]] = MaxRetries]_vars

(* The consumer owns the transition of an asset to 'failed': no step makes it *)
(* without making the job failed too.  Only process_video_file does.          *)
AssetFailsWithJob ==
  [][\A a \in Assets : Type[a] # "video" /\ asset'[a] = "failed" /\ asset[a] # "failed"
                        => job'[a] = "failed"]_vars

(* A done job stays done: a duplicate or late message never reopens it. *)
DoneIsFinal == [][\A a \in Assets : job[a] = "done" => job'[a] = "done"]_vars

(* The life cycle of assets and jobs, over the rows of this module. *)
Lifecycle == INSTANCE JobLifecycle

(* With a single worker the pipeline implements the abstract life cycle: job  *)
(* and asset advance together, and nothing changes once the job is done.      *)
LifecycleSpec == Lifecycle!Spec

Made == {a \in Assets : Complete(a)}

Shared == INSTANCE SharedLifecycle WITH made <- Made

(* With any number of workers the pipeline implements what is left of it: a   *)
(* late outcome may overwrite an earlier one, but a done job is not claimed,  *)
(* what is shown as ready is complete, and what was made stays.               *)
SharedLifecycleSpec == Shared!Spec

-----------------------------------------------------------------------------
(* What must happen *)

(* A job that a worker has claimed ends in 'done' or 'failed', whatever step  *)
(* of the worker is lost: the sweep finds it again.                           *)
ClaimedSettles ==
  \A a \in Assets : job[a] \in {"in_progress", "pending"} ~> job[a] \in {"done", "failed"}

(* The worker can process a: the file decodes, no other asset is known by the *)
(* same hash, and the schema has what the statements write.                   *)
Feasible(a) ==
  /\ a \notin Corrupt
  /\ \A c \in Backfilled \ {a} : Content[c] # Content[a]
  /\ Executes(Schema, MetadataUpdate(Type[a])) /\ Executes(Schema, ReadyUpdate(Type[a]))
  /\ \A i \in 1 .. Len(Roles(a)) : /\ Executes(Schema, VariantInsert(Roles(a)[i]))
                                   /\ Executes(Schema, LinkInsert(Roles(a)[i]))

(* A job the API has committed is processed, or fails for a reason, together  *)
(* with its asset, unless it is stranded, which takes a fault of its own      *)
(* (StrandedByFaults).                                                        *)
CommittedSettles ==
  \A a \in Assets :
    job[a] = "processing" ~>
      \/ job[a] = "done" /\ asset[a] = "ready"
      \/ job[a] = "failed" /\ asset[a] = "failed" /\ (faults > 0 \/ ~Feasible(a))
      \/ a \in Stranded

(* A job the API has committed is processed to the end. *)
CommittedIsProcessed ==
  \A a \in Assets : job[a] = "processing" ~> job[a] = "done" /\ asset[a] = "ready"

-----------------------------------------------------------------------------
(* The parts that make the invariants inductive *)

(* A request past its first step is about an asset, and so is a message in a  *)
(* worker's hand.                                                             *)
RequestsInHand ==
  \A r \in Requests : reqPc[r] \in {"stat", "tx", "enqueue"} => reqAsset[r] \in Assets

WorkersInHand == \A w \in Workers : pc[w] \in Busy => cur[w] \in Assets

(* The handler enqueues a committed job, and a job past its claim is beyond   *)
(* the status the API gave it.                                                *)
CommittedInHand ==
  /\ \A r \in Requests : reqPc[r] = "enqueue" => job[reqAsset[r]] # "none"
  /\ \A w \in Workers : pc[w] \in Busy \ {"ensure", "claim"}
                         => job[cur[w]] \notin {"none", "processing"}

(* A link is to a variant that has a row. *)
LinksHaveRows ==
  \A a \in Assets : \A i \in 1 .. Len(Roles(a)) :
    Link(a, i) \in links => Variant(a, i) \in rows

(* The progress of a worker through the roles of its asset: what is behind it *)
(* is linked, and the variant in hand is stored before its row and has its    *)
(* row before its link.                                                       *)
Progress(w) ==
  /\ pc[w] \in {"generate", "insert", "link"} =>
       /\ nxt[w] <= Len(Roles(cur[w])) + 1
       /\ \A i \in 1 .. nxt[w] - 1 : Link(cur[w], i) \in links
  /\ pc[w] \in {"insert", "link"} => nxt[w] <= Len(Roles(cur[w]))
  /\ pc[w] \in {"down", "idle", "requeue", "ensure", "claim", "load", "mark", "prepare"}
       => nxt[w] = 1
  /\ pc[w] = "insert" => Variant(cur[w], nxt[w]) \in objects
  /\ pc[w] = "link" => Variant(cur[w], nxt[w]) \in rows
  /\ pc[w] = "finish" => Complete(cur[w])

VariantsInHand == \A w \in Workers : Progress(w)

TypeInv == TypeOK /\ RequestsInHand /\ WorkersInHand

JobInv == JobIffUploaded /\ MessagesHaveJobs /\ OutcomesAreCounted /\ CommittedInHand

VariantInv == /\ ReadyIsComplete /\ DoneIsComplete /\ RowsAreStored
              /\ LinksHaveRows /\ VariantsInHand

(* With a single worker, the job in its hand is the one it claimed, and the   *)
(* asset is where the worker left it.                                         *)
Owns(w) ==
  /\ pc[w] \in Busy \ {"ensure", "claim"} => job[cur[w]] = "in_progress"
  /\ pc[w] = "mark" => asset[cur[w]] # "ready"
  /\ pc[w] \in {"prepare", "generate", "insert", "link", "videofail"}
       => asset[cur[w]] = "processing"
  /\ pc[w] \in {"catch", "fail"} /\ exc[w] = "retryable"
       => asset[cur[w]] = "processing"
  /\ pc[w] = "finish" => asset[cur[w]] = "ready"

SoleOwner == \A w \in Workers : Owns(w)
=============================================================================
