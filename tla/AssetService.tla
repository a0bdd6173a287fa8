---------------------------- MODULE AssetService ----------------------------
(***************************************************************************)
(* The API server: assetService.CreateAsset and MarkAssetUploaded, the     *)
(* repository transaction below them and RedisQueue.Enqueue.  The client's *)
(* PUT to the presigned URL is an action of its own.                       *)
(*                                                                         *)
(* A member of Requests is one HTTP call of /assets/{id}/complete; a       *)
(* client that calls twice, one after the other or at the same time, uses  *)
(* two of them.                                                            *)
(***************************************************************************)
EXTENDS MediaStore

CONSTANTS
  Requests,     \* the calls of /complete that may be made
  MaxEnqueue    \* MaxRetries of the queue: XADD is tried MaxEnqueue + 1 times

ASSUME EnqueueAssumption == MaxEnqueue \in Nat

VARIABLES
  reqPc,     \* where the handler of request r is
  reqAsset,  \* the asset request r is about
  tries      \* the index of the current XADD attempt of r

apiVars == <<reqPc, reqAsset, tries>>

RequestPc == {"new", "stat", "tx", "enqueue", "ok", "error"}

ApiInit ==
  /\ reqPc = [r \in Requests |-> "new"]
  /\ reqAsset = [r \in Requests |-> NoAsset]
  /\ tries = [r \in Requests |-> 0]

Answer(r, pc) == reqPc' = [reqPc EXCEPT ![r] = pc]

(* What the handler lets through: a well-formed request for a file of a       *)
(* listed type that is not too large.                                        *)
Accepted(a) == Type[a] \in Supported

(* INSERT INTO assets, under an id no other asset has. *)
InsertAsset(a) ==
  /\ asset[a] = "none"
  /\ asset' = [asset EXCEPT ![a] = "uploading"]
  /\ UNCHANGED <<job, attempts, stale, rows, links>>

(* POST /storage/presign: the checks, a presigned URL, then the asset row.   *)
(* An error path changes nothing, or leaves a row whose id nobody learns,    *)
(* which is the row of this action without a CompleteRequest.                *)
CreateAsset(a) ==
  /\ Accepted(a)
  /\ InsertAsset(a)
  /\ UNCHANGED <<storageVars, redisVars, faults, apiVars>>

(* The client uploads the raw file with the presigned URL. *)
ClientPut(a) ==
  /\ asset[a] # "none"
  /\ a \notin raw
  /\ raw' = raw \cup {a}
  /\ UNCHANGED <<dbVars, objects, redisVars, faults, apiVars>>

(* GET /assets/{id}/complete arrives; the client learnt the id from the      *)
(* answer of CreateAsset.                                                    *)
CompleteRequest(r, a) ==
  /\ reqPc[r] = "new"
  /\ asset[a] # "none"
  /\ Answer(r, "stat")
  /\ reqAsset' = [reqAsset EXCEPT ![r] = a]
  /\ UNCHANGED <<storeVars, tries>>

(* GetObjectAttrs of the raw object: an error ends the request. *)
StatObject(r) ==
  /\ reqPc[r] = "stat"
  /\ \/ /\ reqAsset[r] \in raw
        /\ Answer(r, "tx")
        /\ NoFault
     \/ /\ reqAsset[r] \notin raw
        /\ Answer(r, "error")
        /\ NoFault
     \/ /\ Fault("storage")
        /\ Answer(r, "error")
  /\ UNCHANGED <<dbVars, storageVars, redisVars, reqAsset, tries>>

(* Mutants: the upload is confirmed without a job, or with a job in a state   *)
(* that the worker does not know.                                            *)
UploadedWithoutJob(a) ==
  /\ asset' = [asset EXCEPT ![a] = "uploaded"]
  /\ UNCHANGED <<job, stale, attempts, rows, links>>

UploadedQueued(a) ==
  /\ asset' = [asset EXCEPT ![a] = "uploaded"]
  /\ job' = IF job[a] = "none" THEN [job EXCEPT ![a] = "queued"] ELSE job
  /\ stale' = stale \ {a}
  /\ UNCHANGED <<attempts, rows, links>>

(* UPDATE assets ... WHERE status = 'uploading', then the upsert of the job. *)
(* The conflict branch of the upsert only refreshes updated_at.              *)
ApplyUploaded(a) ==
  /\ asset' = [asset EXCEPT ![a] = "uploaded"]
  /\ job' = IF job[a] = "none" THEN [job EXCEPT ![a] = "processing"] ELSE job
  /\ stale' = stale \ {a}
  /\ UNCHANGED <<attempts, rows, links>>

(* The transaction of MarkAssetUploaded.  An asset that is no longer         *)
(* 'uploading' answers success without a job or a message.  A failed commit  *)
(* may or may not have been applied.                                         *)
MarkUploadedTx(r) ==
  LET a == reqAsset[r] IN
  /\ reqPc[r] = "tx"
  /\ \/ /\ asset[a] # "uploading"
        /\ Answer(r, "ok")
        /\ NoFault
        /\ UNCHANGED dbVars
     \/ /\ asset[a] = "uploading"
        /\ ApplyUploaded(a)
        /\ Answer(r, "enqueue")
        /\ NoFault
     \/ /\ Fault("db")
        /\ Answer(r, "error")
        /\ \/ UNCHANGED dbVars
           \/ asset[a] = "uploading" /\ ApplyUploaded(a)
  /\ UNCHANGED <<storageVars, redisVars, reqAsset, tries>>

(* One XADD of doXAddWithRetry.  A failed call may have added the entry.  A  *)
(* deadline or cancellation returns at once; any other error is retried      *)
(* until the attempts are used up.                                           *)
Enqueue(r) ==
  LET m == JobMessage(reqAsset[r]) IN
  /\ reqPc[r] = "enqueue"
  /\ \/ /\ XaddMaxLen(m)
        /\ Answer(r, "ok")
        /\ NoFault
        /\ UNCHANGED tries
     \/ /\ Fault("redis")
        /\ XaddMaxLen(m) \/ UNCHANGED stream
        /\ \/ /\ tries[r] < MaxEnqueue
              /\ tries' = [tries EXCEPT ![r] = @ + 1]
              /\ UNCHANGED reqPc
           \/ /\ Answer(r, "error")
              /\ UNCHANGED tries
  /\ UNCHANGED <<dbVars, storageVars, group, reqAsset>>

(* The API process dies: the request ends without an answer. *)
ApiCrash(r) ==
  /\ reqPc[r] \in {"stat", "tx", "enqueue"}
  /\ Fault("crash")
  /\ Answer(r, "error")
  /\ UNCHANGED <<dbVars, storageVars, redisVars, reqAsset, tries>>

RequestStep(r) == StatObject(r) \/ MarkUploadedTx(r) \/ Enqueue(r)
=============================================================================
