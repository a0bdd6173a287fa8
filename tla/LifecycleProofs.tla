-------------------------- MODULE LifecycleProofs --------------------------
(***************************************************************************)
(* Proof that the pipeline implements JobLifecycle when there is at most   *)
(* one worker: every step maps to a step of the abstract life cycle of an  *)
(* asset and its job, or to a stutter.                                     *)
(*                                                                         *)
(* The argument: between its claim and its outcome the worker owns the     *)
(* rows of the asset in its hand (SoleOwner); the API touches only assets  *)
(* that have no job (JobInv).  With two workers nobody owns a row.  What   *)
(* nobody can undo is left: a claimed job stays claimed and a variant once *)
(* made stays made, and from these the pipeline implements SharedLifecycle *)
(* with any number of workers.                                             *)
(***************************************************************************)
EXTENDS JobProofs, VariantProofs

USE DEF storeVars, dbVars, storageVars, redisVars, apiVars, workerVars

OneWorker == \A v, w \in Workers : v = w

(* The rows of a are as before. *)
Kept(a) == asset'[a] = asset[a] /\ job'[a] = job[a]

-----------------------------------------------------------------------------
(* What a worker owns stays its own while it does not move. *)
LEMMA StillOwns ==
  ASSUME NEW w \in Workers, Owns(w), Kept(cur[w]),
         pc'[w] = pc[w], cur'[w] = cur[w], exc'[w] = exc[w]
  PROVE  Owns(w)'
BY DEF Owns, Kept

(* The API leaves the rows of an asset that has a job alone, and its steps on *)
(* the others are Create and Confirm.                                         *)
LEMMA ApiKeeps ==
  ASSUME TypeInv, JobInv, ClientNext \/ \E r \in Requests : ApiNext(r)
  PROVE  /\ \A a \in Assets : job[a] # "none" => Kept(a)
         /\ \/ \E a \in Assets : Lifecycle!Create(a) \/ Lifecycle!Confirm(a)
            \/ UNCHANGED <<asset, job>>
<1> USE DEF Kept
<1>1. asset \in [Assets -> AssetStatus] /\ job \in [Assets -> JobStatus] /\ JobIffUploaded
  BY DEF TypeInv, TypeOK, StoreTypeOK, JobInv
<1>2. ASSUME NEW a \in Assets, CreateAsset(a)
      PROVE  (\A b \in Assets : job[b] # "none" => Kept(b)) /\ Lifecycle!Create(a)
  <2>1. asset[a] = "none" /\ job[a] = "none"
    BY <1>1, <1>2 DEF CreateAsset, InsertAsset, JobIffUploaded
  <2>2. asset' = [asset EXCEPT ![a] = "uploading"] /\ job' = [job EXCEPT ![a] = "none"]
    BY <1>1, <1>2, <2>1 DEF CreateAsset, InsertAsset
  <2> QED BY <1>1, <2>1, <2>2 DEF Lifecycle!Create, Lifecycle!Become
<1>3. ASSUME NEW a \in Assets, asset[a] = "uploading", ApplyUploaded(a)
      PROVE  (\A b \in Assets : job[b] # "none" => Kept(b)) /\ Lifecycle!Confirm(a)
  <2>1. job[a] = "none"
    BY <1>1, <1>3 DEF JobIffUploaded
  <2>2. asset' = [asset EXCEPT ![a] = "uploaded"] /\ job' = [job EXCEPT ![a] = "processing"]
    BY <1>3, <2>1 DEF ApplyUploaded
  <2> QED BY <1>1, <1>3, <2>1, <2>2 DEF Lifecycle!Confirm, Lifecycle!Become
<1>4. ASSUME NEW r \in Requests, MarkUploadedTx(r)
      PROVE  /\ \A b \in Assets : job[b] # "none" => Kept(b)
             /\ (\E a \in Assets : Lifecycle!Confirm(a)) \/ UNCHANGED <<asset, job>>
  <2>1. reqAsset[r] \in Assets
    BY <1>4 DEF MarkUploadedTx, TypeInv, RequestsInHand
  <2> QED BY <1>3, <1>4, <2>1 DEF MarkUploadedTx
<1>5. ASSUME NEW r \in Requests, StatObject(r) \/ Enqueue(r) \/ ApiCrash(r)
      PROVE  UNCHANGED <<asset, job>>
  BY <1>5 DEF StatObject, Enqueue, ApiCrash
<1>6. ASSUME NEW a \in Assets, ClientPut(a) \/ \E r \in Requests : CompleteRequest(r, a)
      PROVE  UNCHANGED <<asset, job>>
  BY <1>6 DEF ClientPut, CompleteRequest
<1> QED BY <1>2, <1>4, <1>5, <1>6 DEF ClientNext, ApiNext, RequestStep

(* A step of a worker that owns its asset is one of the life cycle, and the   *)
(* worker still owns what it then has in hand.                                *)
LEMMA WorkerKeeps ==
  ASSUME TypeInv, JobInv, NEW w \in Workers, Owns(w), WorkerNext(w)
  PROVE  /\ Owns(w)'
         /\ Lifecycle!Next \/ UNCHANGED <<asset, job>>
<1> USE DEF Goto
<1> DEFINE a == cur[w]
           Refines == Lifecycle!Next \/ UNCHANGED <<asset, job>>
<1>1. /\ asset \in [Assets -> AssetStatus] /\ job \in [Assets -> JobStatus] /\ JobIffUploaded
      /\ pc \in [Workers -> WorkerPc] /\ cur \in [Workers -> Assets \cup {NoAsset}]
      /\ exc \in [Workers -> {"none", "permanent", "retryable"}]
      /\ pc[w] \in Busy => a \in Assets
  BY DEF TypeInv, TypeOK, StoreTypeOK, WorkerTypeOK, WorkersInHand, JobInv
<1>2. ASSUME pc'[w] \in {"down", "idle", "requeue", "ensure", "claim"} PROVE Owns(w)'
  BY <1>2 DEF Owns, Busy
<1>3. ASSUME Return(w) \/ Die(w) PROVE Owns(w)'
  BY <1>1, <1>2, <1>3 DEF Return, Die
<1>4. ASSUME NEW d, Escape(w, d) PROVE Owns(w)'
  <2>1. CASE w \in booting
    BY <1>3, <1>4, <2>1 DEF Escape
  <2>2. CASE w \notin booting
    BY <1>1, <1>2, <1>4, <2>2 DEF Escape
  <2> QED BY <2>1, <2>2
<1>5. ASSUME Raise(w, "permanent"), job'[a] = "in_progress" PROVE Owns(w)'
  <2>1. pc'[w] = "catch" /\ cur'[w] = a /\ exc'[w] = "permanent"
    BY <1>1, <1>5 DEF Raise
  <2> QED BY <1>5, <2>1 DEF Owns
<1>6. ASSUME NEW to \in WorkerPc, Step(w, to) PROVE pc'[w] = to /\ cur'[w] = a /\ exc'[w] = exc[w]
  BY <1>1, <1>6 DEF Step
<1>7. CASE \/ Start(w) \/ Elapse(w) \/ Recover(w) \/ Requeue(w) \/ Read(w) \/ ReadNothing(w)
           \/ ReadFails(w) \/ Crash(w)
  <2>1. UNCHANGED <<asset, job>>
    BY <1>7 DEF Start, Elapse, Recover, Requeue, Read, ReadNothing, ReadFails, Crash
  <2>2. CASE Elapse(w)
    BY <2>1, <2>2, StillOwns DEF Elapse, Kept
  <2>3. CASE Start(w)
    BY <1>1, <1>2, <2>1, <2>3 DEF Start
  <2>4. CASE Recover(w) \/ Requeue(w)
    <3>1. CASE (pc' = pc /\ pc[w] = "requeue") \/ Goto(w, "requeue")
      BY <1>1, <1>2, <2>1, <3>1
    <3> QED BY <1>4, <2>1, <2>4, <3>1 DEF Recover, Requeue
  <2>5. CASE Read(w) \/ ReadNothing(w) \/ ReadFails(w) \/ Crash(w)
    <3>1. ASSUME NEW m, Deliver(w, m) PROVE Owns(w)'
      BY <1>1, <1>2, <3>1 DEF Deliver
    <3> QED BY <1>3, <1>4, <2>1, <2>5, <3>1 DEF Read, ReadNothing, ReadFails, Crash
  <2> QED BY <1>7, <2>2, <2>3, <2>4, <2>5
<1>8. CASE EnsureJob(w)
  <2>1. a \in Assets
    BY <1>1, <1>8 DEF EnsureJob, Busy, WorkerPc
  <2>2. UNCHANGED <<asset, job>>
    BY <1>1, <1>8, <2>1 DEF EnsureJob, InsertJob, Processable, JobIffUploaded
  <2>3. CASE Step(w, "claim")
    BY <1>1, <1>2, <2>2, <2>3 DEF Step
  <2> QED BY <1>3, <1>8, <2>2, <2>3 DEF EnsureJob, Abandon
<1>9. CASE Claim(w)
  <2>1. a \in Assets
    BY <1>1, <1>9 DEF Claim, Busy, WorkerPc
  <2>2. ASSUME job[a] \notin {"none", "done"}, ClaimRow(a)
        PROVE  Refines /\ job'[a] = "in_progress"
    <3>1. job' = [job EXCEPT ![a] = "in_progress"] /\ asset' = [asset EXCEPT ![a] = asset[a]]
      BY <1>1, <1>9, <2>1, <2>2 DEF Claim, ClaimRow, SetJob
    <3>2. Lifecycle!Claim(a)
      BY <2>2, <3>1 DEF Lifecycle!Claim, Lifecycle!Become
    <3> QED BY <1>1, <2>1, <3>1, <3>2 DEF Lifecycle!Next
  <2>3. CASE job[a] \notin {"none", "done"} /\ ClaimRow(a) /\ Step(w, "load")
    <3>1. pc'[w] = "load" /\ cur'[w] = a
      BY <1>6, <2>3 DEF WorkerPc
    <3> QED BY <2>2, <2>3, <3>1 DEF Owns
  <2> QED BY <1>3, <1>9, <2>2, <2>3 DEF Claim, Claimable, Abandon
<1>10. pc[w] \in Busy \ {"ensure", "claim"} => a \in Assets /\ job[a] = "in_progress"
  BY <1>1 DEF Owns
<1> DEFINE Set(s) == asset' = [asset EXCEPT ![a] = s] /\ job' = job
<1>11. ASSUME NEW s, Set(s), a \in Assets, job[a] = "in_progress",
              \/ s = "processing" /\ asset[a] # "ready"
              \/ s \in {"ready", "failed"} /\ asset[a] = "processing"
       PROVE  Refines /\ job'[a] = "in_progress" /\ asset'[a] = s
  <2>1. Lifecycle!Become(a, s, "in_progress")
    BY <1>1, <1>11 DEF Lifecycle!Become
  <2>2. Lifecycle!Work(a)
    BY <1>11, <2>1 DEF Lifecycle!Work
  <2> QED BY <1>1, <1>11, <2>2 DEF Lifecycle!Next
<1>12. CASE Load(w)
  <2>1. a \in Assets /\ job[a] = "in_progress" /\ UNCHANGED <<asset, job>>
    BY <1>10, <1>12 DEF Load, Busy, WorkerPc
  <2>2. CASE asset[a] = "ready" /\ Step(w, "finish")
    <3>1. pc'[w] = "finish" /\ cur'[w] = a
      BY <1>6, <2>2 DEF WorkerPc
    <3> QED BY <2>1, <2>2, <3>1 DEF Owns
  <2>3. CASE asset[a] # "ready" /\ Step(w, "mark")
    <3>1. pc'[w] = "mark" /\ cur'[w] = a
      BY <1>6, <2>3 DEF WorkerPc
    <3> QED BY <2>1, <2>3, <3>1 DEF Owns
  <2> QED BY <1>5, <1>12, <2>1, <2>2, <2>3 DEF Load, AlreadyProcessed
<1>13. CASE MarkProcessing(w)
  <2>1. a \in Assets /\ job[a] = "in_progress" /\ asset[a] # "ready" /\ job' = job
    BY <1>10, <1>13 DEF MarkProcessing, Busy, WorkerPc, Owns
  <2>2. ASSUME SetAsset(a, "processing")
        PROVE  Refines /\ job'[a] = "in_progress" /\ asset'[a] = "processing"
    BY <1>11, <2>1, <2>2 DEF SetAsset
  <2>3. CASE SetAsset(a, "processing") /\ Step(w, "prepare")
    <3>1. pc'[w] = "prepare" /\ cur'[w] = a
      BY <1>6, <2>3 DEF WorkerPc
    <3> QED BY <2>2, <2>3, <3>1 DEF Owns
  <2>4. CASE Raise(w, "permanent") /\ (SetAsset(a, "processing") \/ UNCHANGED asset)
    BY <1>5, <2>1, <2>2, <2>4
  <2> QED BY <1>13, <2>3, <2>4 DEF MarkProcessing
<1>14. CASE \/ Prepare(w) \/ MakeVariant(w) \/ InsertVariant(w) \/ LinkVariant(w)
  <2>1. a \in Assets /\ job[a] = "in_progress" /\ UNCHANGED <<asset, job>>
    BY <1>10, <1>14 DEF Prepare, CloneRaises, MakeVariant, InsertVariant, LinkVariant, Busy, WorkerPc
  <2>2. asset[a] = "processing"
    BY <1>14 DEF Prepare, CloneRaises, MakeVariant, InsertVariant, LinkVariant, Owns
  <2>3. \/ \E to \in {"generate", "insert", "link", "videofail"} : Step(w, to)
        \/ NextVariant(w) \/ Raise(w, "permanent") \/ Raise(w, "retryable")
    BY <1>14 DEF Prepare, CloneRaises, MakeVariant, InsertVariant, LinkVariant, VariantFails
  <2>4. /\ pc'[w] \in {"generate", "insert", "link", "videofail", "catch"}
        /\ cur'[w] = a
    BY <1>1, <2>3 DEF Step, NextVariant, Raise
  <2> QED BY <2>1, <2>2, <2>4 DEF Owns
<1>15. CASE MarkReady(w)
  <2>1. a \in Assets /\ job[a] = "in_progress" /\ asset[a] = "processing" /\ job' = job
    BY <1>10, <1>15 DEF MarkReady, Busy, WorkerPc, Owns
  <2>2. ASSUME SetAsset(a, "ready")
        PROVE  Refines /\ job'[a] = "in_progress" /\ asset'[a] = "ready"
    BY <1>11, <2>1, <2>2 DEF SetAsset
  <2>3. CASE SetAsset(a, "ready") /\ Step(w, "finish")
    <3>1. pc'[w] = "finish" /\ cur'[w] = a
      BY <1>6, <2>3 DEF WorkerPc
    <3> QED BY <2>2, <2>3, <3>1 DEF Owns
  <2>4. CASE Raise(w, "permanent") /\ (SetAsset(a, "ready") \/ UNCHANGED asset)
    BY <1>5, <2>1, <2>2, <2>4
  <2> QED BY <1>15, <2>3, <2>4 DEF MarkReady
<1>16. CASE VideoFail(w)
  <2>1. a \in Assets /\ job[a] = "in_progress" /\ asset[a] = "processing" /\ job' = job
    BY <1>10, <1>16 DEF VideoFail, Busy, WorkerPc, Owns
  <2>2. ASSUME SetAsset(a, "failed")
        PROVE  Refines /\ job'[a] = "in_progress"
    BY <1>11, <2>1, <2>2 DEF SetAsset
  <2> QED BY <1>5, <1>16, <2>1, <2>2 DEF VideoFail
<1>17. CASE FailRead(w)
  <2>1. a \in Assets /\ job[a] = "in_progress" /\ UNCHANGED <<asset, job>>
    BY <1>10, <1>17 DEF FailRead, Busy, WorkerPc
  <2>2. CASE Goto(w, "fail") /\ UNCHANGED <<cur, exc>>
    <3>1. pc'[w] = "fail" /\ cur'[w] = a /\ exc'[w] = exc[w]
      BY <1>1, <2>2
    <3> QED BY <1>17, <2>1, <3>1 DEF Owns, FailRead
  <2> QED BY <1>3, <1>17, <2>1, <2>2 DEF FailRead, Abandon
<1>18. CASE FailWrite(w)
  <2>1. /\ a \in Assets /\ job[a] = "in_progress"
        /\ exc[w] = "retryable" => asset[a] = "processing"
    BY <1>10, <1>18 DEF FailWrite, Busy, WorkerPc, Owns
  <2>2. ASSUME RecordFailure(w) PROVE Refines
    <3>1. CASE GiveUp(w)
      <4>1. Lifecycle!Fail(a)
        BY <2>1, <2>2, <3>1 DEF RecordFailure, SetJob, SetAsset, Lifecycle!Fail, Lifecycle!Become
      <4> QED BY <2>1, <4>1 DEF Lifecycle!Next
    <3>2. CASE ~GiveUp(w)
      <4>1. asset[a] = "processing"
        BY <2>1, <3>2 DEF GiveUp
      <4>2. /\ asset' = [asset EXCEPT ![a] = "processing"]
            /\ job' = [job EXCEPT ![a] = "pending"]
        BY <1>1, <2>1, <2>2, <3>2, <4>1 DEF RecordFailure, SetJob
      <4>3. Lifecycle!Retry(a)
        BY <2>1, <4>1, <4>2 DEF Lifecycle!Retry, Lifecycle!Become
      <4> QED BY <2>1, <4>3 DEF Lifecycle!Next
    <3> QED BY <3>1, <3>2
  <2> QED BY <1>3, <1>18, <2>2 DEF FailWrite
<1>19. CASE Finish(w)
  <2>1. a \in Assets /\ job[a] = "in_progress" /\ asset[a] = "ready"
    BY <1>10, <1>19 DEF Finish, Busy, WorkerPc, Owns
  <2>2. ASSUME RecordSuccess(a) PROVE Refines
    <3>1. Lifecycle!Succeed(a)
      BY <2>1, <2>2 DEF RecordSuccess, SetJob, SetAsset, Lifecycle!Succeed, Lifecycle!Become
    <3> QED BY <2>1, <3>1 DEF Lifecycle!Next
  <2> QED BY <1>3, <1>19, <2>2 DEF Finish
<1> QED BY <1>7, <1>8, <1>9, <1>12, <1>13, <1>14, <1>15, <1>16, <1>17, <1>18, <1>19
        DEF WorkerNext, WorkerStep

-----------------------------------------------------------------------------
(* With one worker, every step keeps its ownership and is a step of the life  *)
(* cycle or a stutter.                                                        *)
LEMMA LifecycleStep ==
  ASSUME OneWorker, TypeInv, JobInv, SoleOwner, [Next]_vars
  PROVE  SoleOwner' /\ (Lifecycle!Next \/ UNCHANGED <<asset, job>>)
<1>1. ASSUME NEW w \in Workers,
             pc' = pc, cur' = cur, exc' = exc,
             \A a \in Assets : job[a] # "none" => Kept(a)
      PROVE  Owns(w)'
  <2>1. pc[w] \in Busy \ {"ensure", "claim"} => cur[w] \in Assets /\ job[cur[w]] = "in_progress"
    BY DEF SoleOwner, Owns, TypeInv, WorkersInHand
  <2>2. CASE pc[w] \in Busy \ {"ensure", "claim"}
    BY <1>1, <2>1, <2>2, StillOwns DEF SoleOwner
  <2>3. CASE pc[w] \notin Busy \ {"ensure", "claim"}
    BY <1>1, <2>3 DEF Owns, Busy, WorkerPc
  <2> QED BY <2>2, <2>3
<1>2. ASSUME ClientNext \/ \E r \in Requests : ApiNext(r), UNCHANGED <<workerVars, published>>
      PROVE  SoleOwner' /\ (Lifecycle!Next \/ UNCHANGED <<asset, job>>)
  BY <1>1, <1>2, ApiKeeps DEF SoleOwner, Lifecycle!Next
<1>3. ASSUME NEW w \in Workers, WorkerNext(w)
      PROVE  SoleOwner' /\ (Lifecycle!Next \/ UNCHANGED <<asset, job>>)
  BY <1>3, WorkerKeeps DEF OneWorker, SoleOwner
<1>4. ASSUME UNCHANGED <<asset, job, workerVars>>
      PROVE  SoleOwner' /\ (Lifecycle!Next \/ UNCHANGED <<asset, job>>)
  BY <1>1, <1>4 DEF SoleOwner, Kept
<1>5. ASSUME NEW m \in Foreign, Publish(m) PROVE UNCHANGED <<asset, job, workerVars>>
  BY <1>5 DEF Publish
<1>6. ASSUME NEW a \in Assets, Age(a), UNCHANGED workerVars PROVE UNCHANGED <<asset, job, workerVars>>
  BY <1>6 DEF Age
<1>7. CASE UNCHANGED vars
  BY <1>4, <1>7 DEF vars
<1> QED BY <1>2, <1>3, <1>4, <1>5, <1>6, <1>7 DEF Next

(* With at most one worker, the pipeline implements the life cycle of         *)
(* JobLifecycle, whatever the assets, the requests, the schema and the        *)
(* faults: in particular a done job is never reopened, and only a claimed     *)
(* job changes its asset.                                                     *)
THEOREM SingleWorkerRefines ==
  ASSUME OneWorker
  PROVE  Spec => LifecycleSpec
<1>1. Init => Lifecycle!Init /\ SoleOwner
  BY DEF Init, StoreInit, ConsumerInit, Lifecycle!Init, SoleOwner, Owns, Busy
<1>2. TypeInv /\ JobInv /\ SoleOwner /\ [Next]_vars
        => SoleOwner' /\ [Lifecycle!Next]_<<asset, job>>
  BY LifecycleStep
<1> QED BY <1>1, <1>2, JobInvariant, PTL DEF Spec, LifecycleSpec, Lifecycle!Spec

-----------------------------------------------------------------------------
(* The life cycle that any number of workers keeps *)

(* A worker links only the variant in its hand. *)
LEMMA LinksOfMine ==
  ASSUME TypeInv, NEW w \in Workers, WorkerNext(w), links' # links
  PROVE  /\ InsertVariant(w) \/ LinkVariant(w)
         /\ links' = links \cup {Link(cur[w], nxt[w])}
<1>1. InsertVariant(w) \/ LinkVariant(w)
  BY DEF WorkerNext, WorkerStep, Start, Elapse, Recover, Requeue, Read, ReadNothing,
     ReadFails, Crash, EnsureJob, Claim, Load, MarkProcessing, Prepare, MakeVariant, MarkReady,
     VideoFail, FailRead, FailWrite, Finish
<1>2. CASE InsertVariant(w)
  BY <1>2 DEF InsertVariant, StoreVariant
<1>3. CASE LinkVariant(w)
  BY <1>3 DEF LinkVariant
<1> QED BY <1>1, <1>2, <1>3

(* An asset is complete as soon as it has all its links, so that only a link  *)
(* of its own makes it so.                                                    *)
LEMMA MadeByLinks ==
  ASSUME VariantInv, VariantsGrow,
         NEW b \in Assets, \A i \in 1 .. Len(Roles(b)) : Link(b, i) \in links' => Link(b, i) \in links
  PROVE  Complete(b)' <=> Complete(b)
<1>1. Complete(b) => Complete(b)'
  BY CompleteStays
<1>2. Complete(b)' => \A i \in 1 .. Len(Roles(b)) : Link(b, i) \in links'
  BY DEF Complete, Link, Roles
<1>3. Stored
  BY DEF Stored, VariantInv
<1> QED BY <1>1, <1>2, <1>3, LinkedIsComplete

(* A step without a new link makes no asset complete; a new link at most the  *)
(* one in the worker's hand.                                                  *)
LEMMA MadeStep ==
  ASSUME VariantInv, VariantsGrow
  PROVE  /\ links' = links => Made' = Made
         /\ \A a \in Assets, i \in Nat :
              links' = links \cup {Link(a, i)} => Made' = Made \/ Made' = Made \cup {a}
<1>1. ASSUME links' = links PROVE Made' = Made
  <2>1. \A b \in Assets : Complete(b)' <=> Complete(b)
    BY <1>1, MadeByLinks
  <2> QED BY <2>1 DEF Made
<1>2. ASSUME NEW a \in Assets, NEW i \in Nat, links' = links \cup {Link(a, i)}
      PROVE  Made' = Made \/ Made' = Made \cup {a}
  <2>1. \A b \in Assets \ {a} : Complete(b)' <=> Complete(b)
    <3> SUFFICES ASSUME NEW b \in Assets \ {a} PROVE Complete(b)' <=> Complete(b)
      OBVIOUS
    <3>1. \A j \in 1 .. Len(Roles(b)) : Link(b, j) \in links' => Link(b, j) \in links
      BY <1>2 DEF Link
    <3> QED BY <3>1, MadeByLinks
  <2>2. Complete(a) => Complete(a)'
    BY CompleteStays
  <2> QED BY <1>2, <2>1, <2>2 DEF Made
<1> QED BY <1>1, <1>2

(* A step of any worker is one of the shared life cycle. *)
LEMMA WorkerShares ==
  ASSUME TypeInv, JobInv, VariantInv, VariantsGrow, NEW w \in Workers, WorkerNext(w)
  PROVE  Shared!Next \/ UNCHANGED <<asset, job, Made>>
<1> DEFINE a == cur[w]
           Shares == Shared!Next \/ UNCHANGED <<asset, job, Made>>
<1>1. /\ asset \in [Assets -> AssetStatus] /\ job \in [Assets -> JobStatus] /\ JobIffUploaded
      /\ pc[w] \in Busy => a \in Assets
      /\ pc[w] \in Busy \ {"ensure", "claim"} => Shared!Claimed(a)
      /\ nxt[w] \in Nat
  BY DEF TypeInv, TypeOK, StoreTypeOK, WorkerTypeOK, WorkersInHand, JobInv, CommittedInHand,
         Shared!Claimed
<1>2. CASE links' # links
  <2>1. (InsertVariant(w) \/ LinkVariant(w)) /\ links' = links \cup {Link(a, nxt[w])}
    BY <1>2, LinksOfMine
  <2>2. UNCHANGED <<asset, job>> /\ a \in Assets /\ Shared!Claimed(a)
    BY <1>1, <2>1 DEF InsertVariant, LinkVariant, Busy, WorkerPc
  <2>3. Made' = Made \/ Made' = Made \cup {a}
    BY <1>1, <2>1, <2>2, MadeStep
  <2>4. CASE Made' = Made \cup {a}
    BY <2>2, <2>4 DEF Shared!Next, Shared!Make
  <2> QED BY <2>2, <2>3, <2>4
<1>3. CASE links' = links
  <2>1. Made' = Made
    BY <1>3, MadeStep
  <2>2. CASE UNCHANGED <<asset, job>>
    BY <2>1, <2>2
  <2>3. ASSUME NEW s \in {"processing", "ready", "failed"}, SetAsset(a, s), job' = job,
               a \in Assets, Shared!Claimed(a), s = "ready" => Complete(a)
        PROVE  Shares
    <3>1. Shared!Become(a, s, job[a])
      BY <1>1, <2>1, <2>3 DEF SetAsset, Shared!Become
    <3>2. s = "ready" => a \in Made
      BY <2>3 DEF Made
    <3>3. Shared!Show(a)
      BY <2>3, <3>1, <3>2 DEF Shared!Show
    <3> QED BY <2>3, <3>3 DEF Shared!Next
  <2>4. CASE EnsureJob(w)
    <3>1. UNCHANGED <<asset, job>>
      BY <1>1, <2>4 DEF EnsureJob, InsertJob, Processable, JobIffUploaded, Busy, WorkerPc
    <3> QED BY <2>2, <3>1
  <2>5. CASE Claim(w)
    <3>1. a \in Assets
      BY <1>1, <2>5 DEF Claim, Busy, WorkerPc
    <3>2. CASE Claimable(a) /\ ClaimRow(a)
      <4>1. job' = [job EXCEPT ![a] = "in_progress"] /\ asset' = [asset EXCEPT ![a] = asset[a]]
        BY <1>1, <2>5, <3>1, <3>2 DEF Claim, ClaimRow, SetJob
      <4>2. Shared!Claim(a)
        BY <2>1, <3>2, <4>1 DEF Claimable, Shared!Claim, Shared!Become
      <4> QED BY <3>1, <4>2 DEF Shared!Next
    <3> QED BY <2>2, <2>5, <3>2 DEF Claim
  <2>6. CASE MarkProcessing(w) \/ VideoFail(w)
    <3>1. a \in Assets /\ Shared!Claimed(a) /\ job' = job
      BY <1>1, <2>6 DEF MarkProcessing, VideoFail, Busy, WorkerPc
    <3>2. SetAsset(a, "processing") \/ SetAsset(a, "failed") \/ UNCHANGED asset
      BY <2>6 DEF MarkProcessing, VideoFail
    <3> QED BY <2>2, <2>3, <3>1, <3>2
  <2>7. CASE MarkReady(w)
    <3>1. a \in Assets /\ Shared!Claimed(a) /\ job' = job
      BY <1>1, <2>7 DEF MarkReady, Busy, WorkerPc
    <3>2. Complete(a)
      <4>1. Progress(w) /\ Stored /\ Len(Roles(a)) \in Nat
        BY <3>1, RolesType DEF VariantInv, VariantsInHand, Stored
      <4>2. \A i \in 1 .. Len(Roles(a)) : Link(a, i) \in links
        BY <1>1, <2>7, <4>1 DEF Progress, MarkReady, AllMade
      <4> QED BY <3>1, <4>1, <4>2, LinkedIsComplete
    <3>3. SetAsset(a, "ready") \/ UNCHANGED asset
      BY <2>7 DEF MarkReady
    <3> QED BY <2>2, <2>3, <3>1, <3>2, <3>3
  <2>8. CASE FailWrite(w)
    <3>1. a \in Assets /\ Shared!Claimed(a)
      BY <1>1, <2>8 DEF FailWrite, Busy, WorkerPc
    <3>2. CASE RecordFailure(w) /\ GiveUp(w)
      <4>1. Shared!Fail(a)
        BY <2>1, <3>1, <3>2 DEF RecordFailure, SetJob, SetAsset, Shared!Fail, Shared!Become
      <4> QED BY <3>1, <4>1 DEF Shared!Next
    <3>3. CASE RecordFailure(w) /\ ~GiveUp(w)
      <4>1. asset' = [asset EXCEPT ![a] = asset[a]] /\ job' = [job EXCEPT ![a] = "pending"]
        BY <1>1, <3>1, <3>3 DEF RecordFailure, SetJob
      <4>2. Shared!Retry(a)
        BY <2>1, <3>1, <4>1 DEF Shared!Retry, Shared!Become
      <4> QED BY <3>1, <4>2 DEF Shared!Next
    <3> QED BY <2>2, <2>8, <3>2, <3>3 DEF FailWrite
  <2>9. CASE Finish(w)
    <3>1. a \in Assets /\ Shared!Claimed(a)
      BY <1>1, <2>9 DEF Finish, Busy, WorkerPc
    <3>2. a \in Made
      BY <2>9, <3>1 DEF Finish, VariantInv, VariantsInHand, Progress, Made
    <3>3. CASE RecordSuccess(a)
      <4>1. Shared!Succeed(a)
        BY <2>1, <3>1, <3>2, <3>3 DEF RecordSuccess, SetJob, SetAsset, Shared!Succeed, Shared!Become
      <4> QED BY <3>1, <4>1 DEF Shared!Next
    <3> QED BY <2>2, <2>9, <3>3 DEF Finish
  <2>10. CASE \/ Start(w) \/ Elapse(w) \/ Recover(w) \/ Requeue(w) \/ Read(w) \/ ReadNothing(w)
              \/ ReadFails(w) \/ Crash(w) \/ Load(w) \/ Prepare(w) \/ MakeVariant(w)
              \/ InsertVariant(w) \/ LinkVariant(w) \/ FailRead(w)
    <3>1. UNCHANGED <<asset, job>>
      BY <2>10 DEF Start, Elapse, Recover, Requeue, Read, ReadNothing, ReadFails, Crash, Load,
                   Prepare, MakeVariant, InsertVariant, LinkVariant, FailRead
    <3> QED BY <2>2, <3>1
  <2> QED BY <2>4, <2>5, <2>6, <2>7, <2>8, <2>9, <2>10 DEF WorkerNext, WorkerStep
<1> QED BY <1>2, <1>3

(* Every step is one of the shared life cycle or a stutter. *)
LEMMA SharedStep ==
  ASSUME TypeInv, JobInv, VariantInv, [Next]_vars
  PROVE  Shared!Next \/ UNCHANGED <<asset, job, Made>>
<1>1. Stored
  BY DEF Stored, VariantInv
<1>2. ASSUME UNCHANGED <<rows, links, objects>> PROVE Made' = Made
  BY <1>1, <1>2, SameVariants, MadeStep
<1>3. ASSUME NEW w \in Workers, WorkerNext(w) PROVE Shared!Next \/ UNCHANGED <<asset, job, Made>>
  <2>1. VariantsGrow
    BY <1>1, <1>3, WorkerStores DEF VariantInv, VariantsInHand
  <2> QED BY <1>3, <2>1, WorkerShares
<1>4. CASE ClientNext \/ \E r \in Requests : ApiNext(r)
  <2>1. Made' = Made
    BY <1>2, <1>4, ApiCompletes
  <2>2. \/ \E a \in Assets : Lifecycle!Create(a) \/ Lifecycle!Confirm(a)
        \/ UNCHANGED <<asset, job>>
    BY <1>4, ApiKeeps
  <2>3. ASSUME NEW a \in Assets, Lifecycle!Create(a) \/ Lifecycle!Confirm(a) PROVE Shared!Next
    <3>1. Shared!Create(a) \/ Shared!Confirm(a)
      BY <2>1, <2>3 DEF Lifecycle!Create, Lifecycle!Confirm, Lifecycle!Become, Shared!Create,
                        Shared!Confirm, Shared!Become
    <3> QED BY <3>1 DEF Shared!Next
  <2> QED BY <2>1, <2>2, <2>3
<1>5. ASSUME UNCHANGED <<asset, job, rows, links, objects>> PROVE UNCHANGED <<asset, job, Made>>
  BY <1>2, <1>5
<1>6. ASSUME NEW m \in Foreign, Publish(m) PROVE UNCHANGED <<asset, job, rows, links, objects>>
  BY <1>6 DEF Publish
<1>7. ASSUME NEW a \in Assets, Age(a) PROVE UNCHANGED <<asset, job, rows, links, objects>>
  BY <1>7 DEF Age
<1>8. CASE UNCHANGED vars
  BY <1>5, <1>8 DEF vars
<1> QED BY <1>3, <1>4, <1>5, <1>6, <1>7, <1>8 DEF Next

(* Any number of workers implement the shared life cycle, whatever the        *)
(* assets, the requests, the schema and the faults: a done job is never       *)
(* claimed, 'ready' and 'done' are written for complete assets only, and a    *)
(* late outcome takes no variant away.                                        *)
THEOREM WorkersRefine == Spec => SharedLifecycleSpec
<1>1. Init => Shared!Init
  <2> SUFFICES ASSUME Init PROVE Made = {}
    BY DEF Init, StoreInit, Shared!Init
  <2>1. ASSUME NEW a \in Assets PROVE ~Complete(a)
    <3>1. Len(Roles(a)) \in Nat \ {0}
      BY RolesAssumption DEF Roles
    <3> QED BY <3>1 DEF Init, StoreInit, Complete
  <2> QED BY <2>1 DEF Made
<1>2. TypeInv /\ JobInv /\ VariantInv /\ [Next]_vars => [Shared!Next]_<<asset, job, Made>>
  BY SharedStep
<1> QED BY <1>1, <1>2, JobInvariant, VariantInvariant, PTL
        DEF Spec, SharedLifecycleSpec, Shared!Spec

-----------------------------------------------------------------------------
(* What a step may never do: how jobs and assets fail. *)

(* Where the step of a worker leads: to the end of the failure handler only   *)
(* through its read of the attempts, and to the except clause of              *)
(* process_video_file only with a video in hand.                              *)
LEMMA FailingPlaces ==
  ASSUME TypeInv, NEW w \in Workers, WorkerNext(w)
  PROVE  /\ pc'[w] = "fail" => \/ FailRead(w)
                               \/ pc[w] = "fail" /\ cur'[w] = cur[w] /\ seen'[w] = seen[w]
         /\ pc'[w] = "videofail" => \/ pc[w] = "videofail" /\ cur'[w] = cur[w]
                                    \/ Type[cur'[w]] = "video"
<1> USE DEF Goto
<1> DEFINE Elsewhere == pc'[w] \notin {"fail", "videofail"}
<1>0. pc \in [Workers -> WorkerPc]
  BY DEF TypeInv, TypeOK, WorkerTypeOK
<1>1. ASSUME Return(w) \/ Die(w) \/ NextVariant(w) PROVE Elsewhere
  BY <1>0, <1>1 DEF Return, Die, NextVariant
<1>2. ASSUME NEW d, Escape(w, d) PROVE Elsewhere
  BY <1>0, <1>1, <1>2 DEF Escape
<1>3. ASSUME NEW kind, Raise(w, kind) PROVE Elsewhere
  BY <1>0, <1>3 DEF Raise
<1>4. ASSUME NEW to, to \notin {"fail", "videofail"}, Step(w, to) PROVE Elsewhere
  BY <1>0, <1>4 DEF Step
<1>5. ASSUME VariantFails(w)
      PROVE  Elsewhere \/ (pc'[w] = "videofail" /\ Type[cur'[w]] = "video")
  BY <1>0, <1>3, <1>5 DEF VariantFails, Step
<1>6. CASE Start(w) \/ ReadNothing(w) \/ Crash(w) \/ Finish(w) \/ FailWrite(w)
  BY <1>0, <1>1, <1>6 DEF Start, ReadNothing, Crash, Finish, FailWrite
<1>7. CASE Elapse(w)
  BY <1>7 DEF Elapse
<1>8. CASE Recover(w) \/ Requeue(w) \/ ReadFails(w)
  BY <1>0, <1>2, <1>8 DEF Recover, Requeue, ReadFails
<1>9. CASE Read(w)
  BY <1>0, <1>1, <1>9 DEF Read, Deliver
<1>10. CASE EnsureJob(w) \/ Claim(w)
  BY <1>1, <1>4, <1>10 DEF EnsureJob, Claim, Abandon
<1>11. CASE Load(w) \/ MarkProcessing(w)
  BY <1>3, <1>4, <1>11 DEF Load, MarkProcessing
<1>12. CASE Prepare(w)
  BY <1>3, <1>4, <1>12 DEF Prepare, CloneRaises
<1>13. CASE MakeVariant(w)
  BY <1>4, <1>5, <1>13 DEF MakeVariant, Busy, WorkerPc
<1>14. CASE InsertVariant(w)
  BY <1>1, <1>4, <1>5, <1>14 DEF InsertVariant, Busy, WorkerPc
<1>15. CASE LinkVariant(w)
  BY <1>1, <1>5, <1>15 DEF LinkVariant, Busy, WorkerPc
<1>16. CASE MarkReady(w) \/ VideoFail(w)
  BY <1>3, <1>4, <1>16 DEF MarkReady, VideoFail
<1>17. CASE FailRead(w)
  BY <1>0, <1>1, <1>17 DEF FailRead, Abandon
<1> QED BY <1>6, <1>7, <1>8, <1>9, <1>10, <1>11, <1>12, <1>13, <1>14, <1>15, <1>16, <1>17
        DEF WorkerNext, WorkerStep

(* A worker makes a job failed only where it has given up, and an asset only  *)
(* with its job or in the except clause of process_video_file.                *)
LEMMA FailingRows ==
  ASSUME TypeInv, NEW w \in Workers, WorkerNext(w), NEW a \in Assets
  PROVE  /\ job'[a] = "failed" /\ job[a] # "failed" =>
              pc[w] = "fail" /\ GiveUp(w) /\ a = cur[w]
         /\ asset'[a] = "failed" /\ asset[a] # "failed" =>
              (pc[w] = "videofail" /\ a = cur[w]) \/ job'[a] = "failed"
<1>0. /\ asset \in [Assets -> AssetStatus] /\ job \in [Assets -> JobStatus]
      /\ pc[w] \in Busy => cur[w] \in Assets
  BY DEF TypeInv, TypeOK, StoreTypeOK, WorkersInHand
<1>1. CASE \/ Start(w) \/ Elapse(w) \/ Recover(w) \/ Requeue(w) \/ Read(w) \/ ReadNothing(w)
           \/ ReadFails(w) \/ Crash(w) \/ Load(w) \/ Prepare(w) \/ MakeVariant(w)
           \/ InsertVariant(w) \/ LinkVariant(w) \/ FailRead(w)
  <2>1. UNCHANGED <<asset, job>>
    BY <1>1 DEF Start, Elapse, Recover, Requeue, Read, ReadNothing, ReadFails, Crash, Load,
                Prepare, MakeVariant, InsertVariant, LinkVariant, FailRead
  <2> QED BY <2>1
<1>2. CASE EnsureJob(w) \/ Claim(w)
  BY <1>0, <1>2 DEF EnsureJob, InsertJob, Claim, ClaimRow, SetJob
<1>3. CASE MarkProcessing(w) \/ MarkReady(w) \/ VideoFail(w)
  BY <1>0, <1>3 DEF MarkProcessing, MarkReady, VideoFail, SetAsset
<1>4. CASE Finish(w)
  BY <1>0, <1>4 DEF Finish, RecordSuccess, SetJob, SetAsset
<1>5. CASE FailWrite(w)
  <2>1. pc[w] = "fail" /\ cur[w] \in Assets
    BY <1>0, <1>5 DEF FailWrite, Busy, WorkerPc
  <2>2. RecordFailure(w) \/ UNCHANGED <<job, asset>>
    BY <1>5 DEF FailWrite
  <2> QED BY <1>0, <2>1, <2>2 DEF RecordFailure, SetJob, SetAsset
<1> QED BY <1>1, <1>2, <1>3, <1>4, <1>5 DEF WorkerNext, WorkerStep

(* No other step makes a job or an asset failed. *)
LEMMA OthersDoNotFail ==
  ASSUME TypeInv, JobInv, [Next]_vars, ~ \E w \in Workers : WorkerNext(w), NEW a \in Assets
  PROVE  /\ job'[a] = "failed" => job[a] = "failed"
         /\ asset'[a] = "failed" => asset[a] = "failed"
         /\ UNCHANGED <<pc, cur, seen>>
<1>1. asset \in [Assets -> AssetStatus] /\ job \in [Assets -> JobStatus]
  BY DEF TypeInv, TypeOK, StoreTypeOK
<1>2. CASE (ClientNext \/ \E r \in Requests : ApiNext(r)) /\ UNCHANGED <<workerVars, published>>
  <2>1. \/ \E b \in Assets : Lifecycle!Create(b) \/ Lifecycle!Confirm(b)
        \/ UNCHANGED <<asset, job>>
    BY <1>2, ApiKeeps
  <2> QED BY <1>1, <1>2, <2>1 DEF Lifecycle!Create, Lifecycle!Confirm, Lifecycle!Become
<1>3. CASE UNCHANGED <<asset, job, workerVars>>
  BY <1>3
<1>4. ASSUME NEW m \in Foreign, Publish(m) PROVE UNCHANGED <<asset, job, workerVars>>
  BY <1>4 DEF Publish
<1>5. ASSUME NEW b \in Assets, Age(b), UNCHANGED workerVars
      PROVE  UNCHANGED <<asset, job, workerVars>>
  BY <1>5 DEF Age
<1>6. CASE UNCHANGED vars
  BY <1>3, <1>6 DEF vars
<1> QED BY <1>2, <1>3, <1>4, <1>5, <1>6 DEF Next

(* The counter of a job never goes down. *)
LEMMA AttemptsGrow ==
  ASSUME TypeInv, [Next]_vars, NEW a \in Assets
  PROVE  attempts'[a] >= attempts[a]
<1>0. attempts \in [Assets -> 0 .. MaxRetries] /\ MaxRetries \in Nat
  BY RetryAssumption DEF TypeInv, TypeOK, StoreTypeOK
<1>1. SUFFICES ASSUME attempts' # attempts PROVE attempts'[a] >= attempts[a]
  BY <1>0
<1>2. ASSUME NEW w \in Workers, WorkerNext(w) PROVE Claim(w)
  BY <1>1, <1>2 DEF WorkerNext, WorkerStep, Start, Elapse, Recover, Requeue, Read, ReadNothing,
     ReadFails, Crash, EnsureJob, Load, MarkProcessing, Prepare, MakeVariant, InsertVariant,
     LinkVariant, MarkReady, VideoFail, FailRead, FailWrite, Finish
<1>3. PICK w \in Workers : Claim(w)
  <2>1. ~ (ClientNext \/ \E r \in Requests : ApiNext(r))
    BY <1>1 DEF ClientNext, ApiNext, RequestStep, CreateAsset, ClientPut, CompleteRequest,
       InsertAsset, StatObject, MarkUploadedTx, ApplyUploaded, Enqueue, ApiCrash
  <2>2. ~ UNCHANGED vars
    BY <1>1 DEF vars
  <2> QED BY <1>1, <1>2, <2>1, <2>2 DEF Next, Age, Publish
<1>4. attempts' = [attempts EXCEPT ![cur[w]] = CountAttempt(attempts[cur[w]])]
  BY <1>1, <1>3 DEF Claim, ClaimRow
<1> QED BY <1>0, <1>4 DEF CountAttempt

(* Only a video is in the hand of a worker in that except clause. *)
VideosInHand == \A w \in Workers : pc[w] = "videofail" => Type[cur[w]] = "video"

(* An asset that is no video becomes failed only together with its job,       *)
(* however many workers there are: the image pipeline leaves the decision to  *)
(* the consumer.                                                              *)
THEOREM AssetFailsWithJobHolds == Spec => AssetFailsWithJob
<1> DEFINE A == \A a \in Assets : Type[a] # "video" /\ asset'[a] = "failed" /\ asset[a] # "failed"
                                   => job'[a] = "failed"
<1>1. Init => VideosInHand
  BY DEF Init, ConsumerInit, VideosInHand
<1>2. TypeInv /\ JobInv /\ VideosInHand /\ [Next]_vars => VideosInHand' /\ A
  <2> SUFFICES ASSUME TypeInv, JobInv, VideosInHand, [Next]_vars PROVE VideosInHand' /\ A
    OBVIOUS
  <2>1. ASSUME NEW w \in Workers, WorkerNext(w) PROVE VideosInHand' /\ A
    <3>1. A
      BY <2>1, FailingRows DEF VideosInHand
    <3>2. pc'[w] = "videofail" => Type[cur'[w]] = "video"
      BY <2>1, FailingPlaces DEF VideosInHand
    <3>3. \A v \in Workers : v # w => pc'[v] = pc[v] /\ cur'[v] = cur[v]
      BY <2>1, OtherWorkers DEF TypeInv, TypeOK
    <3> QED BY <3>1, <3>2, <3>3 DEF VideosInHand
  <2>2. CASE ~ \E w \in Workers : WorkerNext(w)
    <3>1. A
      BY <2>2, OthersDoNotFail
    <3>2. UNCHANGED <<pc, cur>>
      BY <2>2 DEF Next, Age, Publish, vars
    <3> QED BY <3>1, <3>2 DEF VideosInHand
  <2> QED BY <2>1, <2>2
<1> QED BY <1>1, <1>2, JobInvariant, PTL DEF Spec, AssetFailsWithJob

(* What a failure handler has read is not ahead of the row. *)
SeenIsPast == \A w \in Workers : pc[w] = "fail" => seen[w] <= attempts[cur[w]]

(* The read may be overtaken by other workers' claims, which only count up. *)
LEMMA SeenStep ==
  ASSUME TypeInv, JobInv, SeenIsPast, [Next]_vars
  PROVE  SeenIsPast'
<1>0. /\ seen \in [Workers -> 0 .. MaxRetries] /\ MaxRetries \in Nat
      /\ attempts \in [Assets -> 0 .. MaxRetries]
      /\ \A w \in Workers : pc[w] = "fail" => cur[w] \in Assets
  BY RetryAssumption DEF TypeInv, TypeOK, StoreTypeOK, WorkerTypeOK, WorkersInHand, Busy, WorkerPc
<1>1. attempts' \in [Assets -> 0 .. MaxRetries]
  BY TypeStep DEF TypeInv, TypeOK, StoreTypeOK
<1>2. ASSUME NEW v \in Workers, pc'[v] = pc[v], cur'[v] = cur[v], seen'[v] = seen[v]
      PROVE  pc'[v] = "fail" => seen'[v] <= attempts'[cur'[v]]
  <2> SUFFICES ASSUME pc[v] = "fail" PROVE seen[v] <= attempts'[cur[v]]
    BY <1>2
  <2>1. /\ cur[v] \in Assets /\ seen[v] <= attempts[cur[v]]
        /\ attempts'[cur[v]] >= attempts[cur[v]]
    BY <1>0, AttemptsGrow DEF SeenIsPast
  <2>2. seen[v] \in Nat /\ attempts[cur[v]] \in Nat /\ attempts'[cur[v]] \in Nat
    BY <1>0, <1>1, <2>1
  <2> QED BY <2>1, <2>2
<1>3. ASSUME NEW w \in Workers, WorkerNext(w) PROVE SeenIsPast'
  <2>1. ASSUME pc'[w] = "fail", FailRead(w) PROVE seen'[w] <= attempts'[cur'[w]]
    <3>1. pc \in [Workers -> WorkerPc] /\ pc[w] = "catch" /\ pc[w] \in Busy
      BY <2>1 DEF FailRead, TypeInv, TypeOK, WorkerTypeOK, Busy, WorkerPc
    <3>2. seen' = [seen EXCEPT ![w] = attempts[cur[w]]] /\ cur' = cur /\ attempts' = attempts
      BY <2>1, <3>1 DEF FailRead, Abandon, Return, Goto
    <3>3. cur[w] \in Assets
      BY <3>1 DEF TypeInv, WorkersInHand
    <3> QED BY <1>0, <3>2, <3>3
  <2>2. pc'[w] = "fail" => seen'[w] <= attempts'[cur'[w]]
    BY <1>2, <1>3, <2>1, FailingPlaces
  <2>3. \A v \in Workers : v # w =>
          pc'[v] = pc[v] /\ cur'[v] = cur[v] /\ seen'[v] = seen[v]
    BY <1>3, OtherWorkers DEF TypeInv, TypeOK
  <2> QED BY <1>2, <2>2, <2>3 DEF SeenIsPast
<1>4. CASE ~ \E w \in Workers : WorkerNext(w)
  <2>1. UNCHANGED <<pc, cur, seen>>
    BY <1>4 DEF Next, Age, Publish, vars
  <2> QED BY <1>2, <2>1 DEF SeenIsPast
<1> QED BY <1>3, <1>4

(* A retryable failure ends a job only when all its attempts are used up,     *)
(* however many workers count them meanwhile: what was read is never ahead of *)
(* the row.                                                                   *)
THEOREM RetriesAreUsedUpHolds == Spec => RetriesAreUsedUp
<1> DEFINE A == \A w \in Workers :
                  /\ pc[w] = "fail" /\ exc[w] = "retryable" /\ pc'[w] # "fail"
                  /\ job'[cur[w]] = "failed" /\ job[cur[w]] # "failed"
                  => attempts[cur[w]] = MaxRetries
<1>1. Init => SeenIsPast
  BY DEF Init, ConsumerInit, SeenIsPast
<1>2. TypeInv /\ JobInv /\ SeenIsPast /\ [Next]_vars => SeenIsPast' /\ A
  <2> SUFFICES ASSUME TypeInv, JobInv, SeenIsPast, [Next]_vars,
                      NEW w \in Workers, pc[w] = "fail", exc[w] = "retryable", pc'[w] # "fail",
                      job'[cur[w]] = "failed", job[cur[w]] # "failed"
               PROVE  attempts[cur[w]] = MaxRetries
    BY SeenStep
  <2>1. cur[w] \in Assets
    BY DEF TypeInv, WorkersInHand, Busy, WorkerPc
  <2>2. PICK v \in Workers : WorkerNext(v)
    BY <2>1, OthersDoNotFail
  <2>3. v = w
    BY <2>2, OtherWorkers DEF TypeInv, TypeOK
  <2>4. GiveUp(w)
    BY <2>1, <2>2, <2>3, FailingRows
  <2>5. seen[w] >= MaxRetries /\ seen[w] <= attempts[cur[w]]
    BY <2>4 DEF GiveUp, SeenIsPast
  <2>6. seen[w] \in 0 .. MaxRetries /\ attempts[cur[w]] \in 0 .. MaxRetries /\ MaxRetries \in Nat
    BY <2>1, RetryAssumption DEF TypeInv, TypeOK, StoreTypeOK, WorkerTypeOK
  <2> QED BY <2>5, <2>6
<1> QED BY <1>1, <1>2, JobInvariant, PTL DEF Spec, RetriesAreUsedUp
=============================================================================
