--------------------------- MODULE VariantProofs ---------------------------
(***************************************************************************)
(* Proofs that what the pipeline shows as finished is finished:            *)
(* ReadyIsComplete, DoneIsComplete and RowsAreStored are invariants of     *)
(* Pipeline, however many workers handle an asset at the same time.        *)
(*                                                                         *)
(* The argument: objects, variant rows and links are only ever added, so   *)
(* what one worker has completed no other can undo, and each worker makes  *)
(* a variant's object before its row, its row before its link, and its     *)
(* last link before it marks the asset (Progress).                         *)
(***************************************************************************)
EXTENDS PipelineProofs

USE DEF storeVars, dbVars, storageVars, redisVars, apiVars, workerVars

VariantsGrow == rows \subseteq rows' /\ links \subseteq links' /\ objects \subseteq objects'

(* What holds of the variants whoever is working on them. *)
Stored == RowsAreStored /\ LinksHaveRows

-----------------------------------------------------------------------------
(* The number of roles of an asset is a number. *)
LEMMA RolesType == \A a \in Assets : Len(Roles(a)) \in Nat
BY RolesAssumption DEF Roles

(* A complete asset stays complete. *)
LEMMA CompleteStays ==
  ASSUME VariantsGrow, NEW a \in Assets, Complete(a)
  PROVE  Complete(a)'
BY DEF VariantsGrow, Complete, Variant, Link, Roles

(* An asset whose variants are all linked is complete. *)
LEMMA LinkedIsComplete ==
  ASSUME Stored, NEW a \in Assets, \A i \in 1 .. Len(Roles(a)) : Link(a, i) \in links
  PROVE  Complete(a)
BY DEF Stored, RowsAreStored, LinksHaveRows, Complete

(* A worker that does not move loses no progress. *)
LEMMA StillProgress ==
  ASSUME TypeInv, VariantsGrow, NEW w \in Workers, Progress(w),
         pc'[w] = pc[w], cur'[w] = cur[w], nxt'[w] = nxt[w]
  PROVE  Progress(w)'
<1>1. pc[w] \in Busy => cur[w] \in Assets
  BY DEF TypeInv, WorkersInHand
<1>2. pc[w] = "finish" => Complete(cur[w])'
  BY <1>1, CompleteStays DEF Progress, Busy, WorkerPc, Complete, Variant, Link, Roles
<1> QED BY <1>2 DEF Progress, VariantsGrow, Variant, Link, Roles, Complete

(* A step that adds no variant, row or link keeps what is said of them. *)
LEMMA SameVariants ==
  ASSUME Stored, UNCHANGED <<rows, links, objects>>
  PROVE  Stored' /\ VariantsGrow
BY DEF Stored, RowsAreStored, LinksHaveRows, VariantsGrow, Variant, Link, Roles

(* A step of a worker only adds, and adds an object before its row and a row  *)
(* before its link.                                                           *)
LEMMA WorkerStores ==
  ASSUME TypeInv, Stored, NEW w \in Workers, Progress(w), WorkerNext(w)
  PROVE  Stored' /\ VariantsGrow
<1> DEFINE a == cur[w]
           v == Variant(a, nxt[w])
<1> USE DEF Stored, RowsAreStored, LinksHaveRows, VariantsGrow
<1>1. CASE MakeVariant(w)
  <2>1. rows' = rows /\ links' = links /\ objects \subseteq objects'
    BY <1>1 DEF MakeVariant
  <2> QED BY <2>1 DEF Variant, Link, Roles
<1>2. CASE InsertVariant(w)
  <2>1. objects' = objects
    BY <1>2 DEF InsertVariant
  <2>2. CASE UNCHANGED <<rows, links>>
    BY <2>1, <2>2, SameVariants
  <2>3. CASE StoreVariant(a, nxt[w])
    <3>1. v \in objects
      BY <1>2 DEF InsertVariant, Progress
    <3>2. rows' = rows \cup {v}
      BY <2>3 DEF StoreVariant
    <3>3. links \subseteq links' /\ links' \subseteq links \cup {Link(a, nxt[w])}
      BY <2>3 DEF StoreVariant
    <3>4. ASSUME NEW b \in Assets, NEW i \in 1 .. Len(Roles(b)), Link(b, i) \in links'
          PROVE  Variant(b, i) \in rows'
      <4>1. CASE Link(b, i) \in links
        BY <3>2, <4>1
      <4>2. CASE Link(b, i) = Link(a, nxt[w])
        BY <3>2, <4>2 DEF Link, Variant
      <4> QED BY <3>3, <3>4, <4>1, <4>2
    <3> QED BY <2>1, <3>1, <3>2, <3>3, <3>4 DEF Variant, Link, Roles
  <2> QED BY <1>2, <2>2, <2>3 DEF InsertVariant
<1>3. CASE LinkVariant(w)
  <2>1. rows' = rows /\ objects' = objects
    BY <1>3 DEF LinkVariant
  <2>2. v \in rows
    BY <1>3 DEF LinkVariant, Progress
  <2>3. links \subseteq links' /\ links' \subseteq links \cup {Link(a, nxt[w])}
    BY <1>3 DEF LinkVariant
  <2>4. ASSUME NEW b \in Assets, NEW i \in 1 .. Len(Roles(b)), Link(b, i) \in links'
        PROVE  Variant(b, i) \in rows
    <3>1. CASE Link(b, i) \in links
      BY <3>1
    <3>2. CASE Link(b, i) = Link(a, nxt[w])
      BY <2>2, <3>2 DEF Link, Variant
    <3> QED BY <2>3, <2>4, <3>1, <3>2
  <2> QED BY <2>1, <2>3, <2>4 DEF Variant, Link, Roles
<1>4. ASSUME \/ Start(w) \/ Elapse(w) \/ Recover(w) \/ Requeue(w) \/ Read(w)
             \/ ReadNothing(w) \/ ReadFails(w) \/ Crash(w) \/ EnsureJob(w) \/ Claim(w)
             \/ Load(w) \/ MarkProcessing(w) \/ Prepare(w) \/ MarkReady(w) \/ VideoFail(w)
             \/ FailRead(w) \/ FailWrite(w) \/ Finish(w)
      PROVE  UNCHANGED <<rows, links, objects>>
  BY <1>4 DEF Start, Elapse, Recover, Requeue, Read, ReadNothing, ReadFails, Crash, EnsureJob,
              Claim, Load, MarkProcessing, Prepare, CloneRaises, MarkReady, VideoFail, FailRead, FailWrite,
              Finish
<1> QED BY <1>1, <1>2, <1>3, <1>4, SameVariants DEF WorkerNext, WorkerStep

-----------------------------------------------------------------------------
(* A step of worker w keeps what is said of its own progress. *)
LEMMA MoverProgress ==
  ASSUME TypeInv, Stored, ReadyIsComplete, VariantsGrow, NEW w \in Workers, Progress(w),
         WorkerNext(w)
  PROVE  Progress(w)'
<1> USE DEF Goto
<1> DEFINE a == cur[w]
<1>1. /\ pc \in [Workers -> WorkerPc] /\ cur \in [Workers -> Assets \cup {NoAsset}]
      /\ nxt \in [Workers -> Nat \ {0}]
      /\ pc[w] \in Busy => a \in Assets /\ Len(Roles(a)) \in Nat
  BY RolesType DEF TypeInv, TypeOK, WorkerTypeOK, WorkersInHand
<1> DEFINE Early == {"down", "idle", "requeue", "ensure", "claim", "load", "mark", "prepare"}
<1>2. pc[w] \in Early => nxt[w] = 1
  BY DEF Progress
<1>3. ASSUME pc'[w] \in Early, nxt'[w] = 1 PROVE Progress(w)'
  BY <1>3 DEF Progress
<1>4. ASSUME pc'[w] \in {"catch", "fail", "videofail"} PROVE Progress(w)'
  BY <1>4 DEF Progress
<1>5. ASSUME Return(w) \/ Die(w) PROVE Progress(w)'
  BY <1>1, <1>3, <1>5 DEF Return, Die
<1>6. ASSUME NEW d, Escape(w, d), pc[w] \in Early PROVE Progress(w)'
  <2>1. CASE w \in booting
    BY <1>5, <1>6, <2>1 DEF Escape
  <2>2. CASE w \notin booting
    BY <1>1, <1>2, <1>3, <1>6, <2>2 DEF Escape
  <2> QED BY <2>1, <2>2
<1>7. ASSUME NEW kind, Raise(w, kind) PROVE Progress(w)'
  BY <1>1, <1>4, <1>7 DEF Raise
<1>8. ASSUME NEW to \in Early, Step(w, to), pc[w] \in Early PROVE Progress(w)'
  BY <1>1, <1>2, <1>3, <1>8 DEF Step
<1>9. ASSUME VariantFails(w) PROVE Progress(w)'
  BY <1>1, <1>4, <1>7, <1>9 DEF VariantFails, Step
<1>10. ASSUME Step(w, "finish"), a \in Assets, Complete(a) PROVE Progress(w)'
  <2>1. pc'[w] = "finish" /\ cur'[w] = a
    BY <1>1, <1>10 DEF Step
  <2>2. Complete(a)'
    BY <1>10, <2>1 DEF Complete, Variant, Link, Roles, VariantsGrow
  <2> QED BY <2>1, <2>2 DEF Progress, Complete, Variant, Link, Roles
<1>11. ASSUME NextVariant(w), a \in Assets, nxt[w] <= Len(Roles(a)), Len(Roles(a)) \in Nat,
              \A i \in 1 .. nxt[w] - 1 : Link(a, i) \in links, Link(a, nxt[w]) \in links'
       PROVE  Progress(w)'
  <2>1. pc'[w] = "generate" /\ cur'[w] = a /\ nxt'[w] = nxt[w] + 1
    BY <1>1, <1>11 DEF NextVariant
  <2>2. \A i \in 1 .. nxt'[w] - 1 : Link(a, i) \in links'
    BY <1>1, <1>11, <2>1 DEF VariantsGrow
  <2>3. nxt'[w] <= Len(Roles(a)) + 1
    BY <1>1, <1>11, <2>1
  <2> QED BY <2>1, <2>2, <2>3 DEF Progress, Link, Roles
<1>12. CASE Start(w)
  BY <1>1, <1>2, <1>3, <1>12 DEF Start
<1>13. CASE Elapse(w)
  <2>1. pc'[w] = pc[w] /\ cur'[w] = cur[w] /\ nxt'[w] = nxt[w]
    BY <1>13 DEF Elapse
  <2> QED BY <2>1, StillProgress
<1>14. CASE Recover(w) \/ Requeue(w)
  <2>1. pc[w] \in Early
    BY <1>14 DEF Recover, Requeue
  <2>2. CASE (pc' = pc \/ Goto(w, "requeue")) /\ UNCHANGED nxt
    BY <1>1, <1>2, <1>3, <2>1, <2>2
  <2> QED BY <1>6, <1>14, <2>1, <2>2 DEF Recover, Requeue
<1>15. CASE Read(w) \/ ReadNothing(w) \/ ReadFails(w) \/ Crash(w)
  <2>1. CASE ReadNothing(w) \/ Crash(w)
    BY <1>5, <2>1 DEF ReadNothing, Crash
  <2>2. CASE Read(w) \/ ReadFails(w)
    <3>1. pc[w] \in Early
      BY <2>2 DEF Read, ReadFails, Polling
    <3>2. ASSUME NEW m, Deliver(w, m) PROVE Progress(w)'
      BY <1>1, <1>2, <1>3, <3>1, <3>2 DEF Deliver
    <3> QED BY <1>5, <1>6, <2>2, <3>1, <3>2 DEF Read, ReadFails
  <2> QED BY <1>15, <2>1, <2>2
<1>16. CASE EnsureJob(w) \/ Claim(w)
  BY <1>5, <1>8, <1>16 DEF EnsureJob, Claim, Abandon
<1>17. CASE Load(w)
  <2>1. a \in Assets /\ pc[w] \in Early
    BY <1>1, <1>17 DEF Load, Busy, WorkerPc
  <2>2. asset[a] = "ready" => Complete(a)
    BY <2>1 DEF ReadyIsComplete
  <2> QED BY <1>7, <1>8, <1>10, <1>17, <2>1, <2>2 DEF Load, AlreadyProcessed
<1>18. CASE MarkProcessing(w)
  BY <1>7, <1>8, <1>18 DEF MarkProcessing
<1>19. CASE Prepare(w)
  <2>1. a \in Assets /\ Len(Roles(a)) \in Nat /\ nxt[w] = 1
    BY <1>1, <1>2, <1>19 DEF Prepare, CloneRaises, Busy, WorkerPc
  <2>2. CASE Step(w, "generate")
    <3>1. pc'[w] = "generate" /\ cur'[w] = a /\ nxt'[w] = 1
      BY <1>1, <2>1, <2>2 DEF Step
    <3> QED BY <2>1, <3>1 DEF Progress, Roles
  <2> QED BY <1>7, <1>19, <2>2 DEF Prepare, CloneRaises
<1>20. CASE MakeVariant(w)
  <2>1. a \in Assets /\ nxt[w] <= Len(Roles(a))
    BY <1>1, <1>20 DEF MakeVariant, AllMade, Busy, WorkerPc
  <2>2. CASE Step(w, "insert") /\ Variant(a, nxt[w]) \in objects'
    <3>1. pc'[w] = "insert" /\ cur'[w] = a /\ nxt'[w] = nxt[w]
      BY <1>1, <2>2 DEF Step
    <3>2. \A i \in 1 .. nxt[w] - 1 : Link(a, i) \in links'
      BY <1>20 DEF Progress, MakeVariant
    <3>3. nxt[w] <= Len(Roles(a)) + 1
      BY <1>20 DEF Progress, MakeVariant
    <3> QED BY <2>1, <2>2, <3>1, <3>2, <3>3 DEF Progress, Link, Roles, Variant
  <2>3. \/ VariantFails(w)
        \/ Step(w, "insert") /\ Variant(a, nxt[w]) \in objects'
    BY <1>20 DEF MakeVariant, Stored, RowsAreStored
  <2> QED BY <1>9, <2>2, <2>3
<1>21. CASE InsertVariant(w)
  <2>1. /\ a \in Assets /\ Len(Roles(a)) \in Nat /\ nxt[w] <= Len(Roles(a))
        /\ nxt[w] <= Len(Roles(a)) + 1
        /\ \A i \in 1 .. nxt[w] - 1 : Link(a, i) \in links
    BY <1>1, <1>21 DEF InsertVariant, Progress, Busy, WorkerPc
  <2>2. CASE StoreVariant(a, nxt[w]) /\ Type[a] = "image" /\ NextVariant(w)
    <3>1. Link(a, nxt[w]) \in links'
      BY <2>2 DEF StoreVariant
    <3> QED BY <1>11, <2>1, <2>2, <3>1
  <2>3. CASE StoreVariant(a, nxt[w]) /\ Type[a] # "image" /\ Step(w, "link")
    <3>1. pc'[w] = "link" /\ cur'[w] = a /\ nxt'[w] = nxt[w]
      BY <1>1, <2>3 DEF Step
    <3>2. Variant(a, nxt[w]) \in rows'
      BY <2>3 DEF StoreVariant
    <3> QED BY <2>1, <3>1, <3>2 DEF Progress, VariantsGrow, Link, Roles, Variant
  <2> QED BY <1>9, <1>21, <2>2, <2>3 DEF InsertVariant
<1>22. CASE LinkVariant(w)
  <2>1. /\ a \in Assets /\ Len(Roles(a)) \in Nat /\ nxt[w] <= Len(Roles(a))
        /\ \A i \in 1 .. nxt[w] - 1 : Link(a, i) \in links
    BY <1>1, <1>22 DEF LinkVariant, Progress, Busy, WorkerPc
  <2>2. CASE links' = links \cup {Link(a, nxt[w])} /\ NextVariant(w)
    BY <1>11, <2>1, <2>2
  <2> QED BY <1>9, <1>22, <2>2 DEF LinkVariant
<1>23. CASE MarkReady(w)
  <2>1. a \in Assets /\ \A i \in 1 .. Len(Roles(a)) : Link(a, i) \in links
    BY <1>1, <1>23 DEF MarkReady, AllMade, Progress, Busy, WorkerPc
  <2>2. Complete(a)
    BY <2>1, LinkedIsComplete
  <2> QED BY <1>7, <1>10, <1>23, <2>1, <2>2 DEF MarkReady
<1>24. CASE VideoFail(w) \/ FailWrite(w) \/ Finish(w)
  BY <1>5, <1>7, <1>24 DEF VideoFail, FailWrite, Finish
<1>25. CASE FailRead(w)
  <2>1. CASE Goto(w, "fail")
    BY <1>1, <1>4, <2>1
  <2> QED BY <1>5, <1>25, <2>1 DEF FailRead, Abandon
<1> QED BY <1>12, <1>13, <1>14, <1>15, <1>16, <1>17, <1>18, <1>19, <1>20, <1>21, <1>22,
           <1>23, <1>24, <1>25 DEF WorkerNext, WorkerStep

-----------------------------------------------------------------------------
(* The assets a step of worker w makes ready or done are complete. *)
LEMMA WorkerCompletes ==
  ASSUME TypeInv, VariantInv, VariantsGrow, NEW w \in Workers, WorkerNext(w)
  PROVE  ReadyIsComplete' /\ DoneIsComplete'
<1> DEFINE a == cur[w]
<1>1. /\ asset \in [Assets -> AssetStatus] /\ job \in [Assets -> JobStatus]
      /\ pc[w] \in Busy => a \in Assets
      /\ nxt[w] \in Nat
  BY DEF TypeInv, TypeOK, StoreTypeOK, WorkerTypeOK, WorkersInHand
<1>2. SUFFICES ASSUME NEW b \in Assets, asset'[b] = "ready" \/ job'[b] = "done"
               PROVE  Complete(b)
  <2>1. ASSUME NEW b \in Assets, asset'[b] = "ready" \/ job'[b] = "done"
        PROVE  Complete(b)'
    BY <1>2, <2>1, CompleteStays
  <2> QED BY <2>1 DEF ReadyIsComplete, DoneIsComplete
<1>3. CASE asset[b] = "ready" \/ job[b] = "done"
  BY <1>3 DEF VariantInv, ReadyIsComplete, DoneIsComplete
<1>4. CASE asset[b] # "ready" /\ job[b] # "done"
  <2>1. CASE MarkReady(w)
    <3>1. b = a
      BY <1>1, <1>2, <1>4, <2>1 DEF MarkReady, SetAsset
    <3>2. Len(Roles(a)) \in Nat
      BY <3>1, RolesType
    <3>3. \A i \in 1 .. Len(Roles(a)) : Link(a, i) \in links
      BY <1>1, <2>1, <3>2 DEF MarkReady, AllMade, VariantInv, VariantsInHand, Progress
    <3> QED BY <3>1, <3>3, LinkedIsComplete DEF Stored, VariantInv
  <2>2. CASE Finish(w)
    <3>1. b = a
      BY <1>1, <1>2, <1>4, <2>2 DEF Finish, RecordSuccess, SetJob, SetAsset
    <3> QED BY <2>2, <3>1 DEF Finish, VariantInv, VariantsInHand, Progress
  <2>3. CASE EnsureJob(w) \/ Claim(w)
    BY <1>1, <1>2, <1>4, <2>3 DEF EnsureJob, InsertJob, Claim, ClaimRow, SetJob, Busy, WorkerPc
  <2>4. CASE MarkProcessing(w) \/ VideoFail(w)
    BY <1>1, <1>2, <1>4, <2>4 DEF MarkProcessing, VideoFail, SetAsset, Busy, WorkerPc
  <2>5. CASE FailWrite(w)
    BY <1>1, <1>2, <1>4, <2>5 DEF FailWrite, RecordFailure, SetJob, SetAsset, Busy, WorkerPc
  <2>6. ASSUME \/ Start(w) \/ Elapse(w) \/ Recover(w) \/ Requeue(w) \/ Read(w)
               \/ ReadNothing(w) \/ ReadFails(w) \/ Crash(w) \/ Load(w) \/ Prepare(w)
               \/ MakeVariant(w) \/ InsertVariant(w) \/ LinkVariant(w) \/ FailRead(w)
        PROVE  UNCHANGED <<asset, job>>
    BY <2>6 DEF Start, Elapse, Recover, Requeue, Read, ReadNothing, ReadFails, Crash, Load,
                Prepare, CloneRaises, MakeVariant, InsertVariant, LinkVariant, FailRead
  <2> QED BY <1>2, <1>4, <2>1, <2>2, <2>3, <2>4, <2>5, <2>6 DEF WorkerNext, WorkerStep
<1> QED BY <1>3, <1>4

(* No step of a client or of the API makes an asset ready or a job done. *)
LEMMA ApiCompletes ==
  ASSUME TypeInv, VariantInv, ClientNext \/ \E r \in Requests : ApiNext(r)
  PROVE  /\ UNCHANGED <<rows, links, objects>>
         /\ \A b \in Assets : (asset'[b] = "ready" => asset[b] = "ready")
                               /\ (job'[b] = "done" => job[b] = "done")
<1> USE DEF TypeInv, TypeOK, StoreTypeOK, RequestsInHand
<1>1. ASSUME NEW c \in Assets, CreateAsset(c) \/ ClientPut(c)
      PROVE  /\ UNCHANGED <<rows, links, objects>>
             /\ \A b \in Assets : (asset'[b] = "ready" => asset[b] = "ready")
                                   /\ (job'[b] = "done" => job[b] = "done")
  BY <1>1 DEF CreateAsset, InsertAsset, ClientPut
<1>2. ASSUME NEW r \in Requests, MarkUploadedTx(r)
      PROVE  /\ UNCHANGED <<rows, links, objects>>
             /\ \A b \in Assets : (asset'[b] = "ready" => asset[b] = "ready")
                                   /\ (job'[b] = "done" => job[b] = "done")
  BY <1>2 DEF MarkUploadedTx, ApplyUploaded
<1>3. ASSUME NEW r \in Requests, StatObject(r) \/ Enqueue(r) \/ ApiCrash(r)
      PROVE  UNCHANGED <<asset, job, rows, links, objects>>
  BY <1>3 DEF StatObject, Enqueue, ApiCrash
<1>4. ASSUME NEW r \in Requests, NEW c \in Assets, CompleteRequest(r, c)
      PROVE  UNCHANGED <<asset, job, rows, links, objects>>
  BY <1>4 DEF CompleteRequest
<1> QED BY <1>1, <1>2, <1>3, <1>4 DEF ClientNext, ApiNext, RequestStep

(* A step that touches no variant, moves no worker and makes no asset ready   *)
(* and no job done keeps the variant invariant.                               *)
LEMMA IdleStep ==
  ASSUME TypeInv, VariantInv, UNCHANGED <<rows, links, objects, pc, cur, nxt>>,
         \A b \in Assets : (asset'[b] = "ready" => asset[b] = "ready")
                           /\ (job'[b] = "done" => job[b] = "done")
  PROVE  VariantInv'
<1>1. Stored' /\ VariantsGrow
  BY SameVariants DEF Stored, VariantInv
<1>2. VariantsInHand'
  BY <1>1, StillProgress DEF VariantsInHand, VariantInv
<1>3. ReadyIsComplete' /\ DoneIsComplete'
  BY <1>1, CompleteStays DEF ReadyIsComplete, DoneIsComplete, VariantInv
<1> QED BY <1>1, <1>2, <1>3 DEF VariantInv, Stored

(* Every step keeps the variant invariant. *)
LEMMA VariantStep == TypeInv /\ VariantInv /\ [Next]_vars => VariantInv'
<1> SUFFICES ASSUME TypeInv, VariantInv, [Next]_vars PROVE VariantInv'
  OBVIOUS
<1>1. ASSUME ClientNext \/ \E r \in Requests : ApiNext(r), UNCHANGED <<workerVars, published>>
      PROVE  VariantInv'
  BY <1>1, ApiCompletes, IdleStep
<1>2. ASSUME NEW w \in Workers, WorkerNext(w)
      PROVE  VariantInv'
  <2>1. Stored /\ ReadyIsComplete /\ \A v \in Workers : Progress(v)
    BY DEF VariantInv, VariantsInHand, Stored
  <2>2. Stored' /\ VariantsGrow
    BY <1>2, <2>1, WorkerStores
  <2>3. ASSUME NEW v \in Workers, v # w PROVE Progress(v)'
    BY <1>2, <2>1, <2>2, <2>3, OtherWorkers, StillProgress DEF TypeInv, TypeOK
  <2>4. Progress(w)'
    BY <1>2, <2>1, <2>2, MoverProgress
  <2>5. VariantsInHand'
    BY <2>3, <2>4 DEF VariantsInHand
  <2> QED BY <1>2, <2>2, <2>5, WorkerCompletes DEF VariantInv, Stored
<1>3. ASSUME NEW a \in Assets, Age(a), UNCHANGED <<apiVars, workerVars, published>>
      PROVE  VariantInv'
  BY <1>3, IdleStep DEF Age
<1>4. ASSUME NEW m \in Foreign, Publish(m)
      PROVE  VariantInv'
  BY <1>4, IdleStep DEF Publish
<1>5. CASE UNCHANGED vars
  BY <1>5, IdleStep DEF vars
<1> QED BY <1>1, <1>2, <1>3, <1>4, <1>5 DEF Next

(* Initially nothing is ready, done or stored, and every worker is down. *)
LEMMA VariantInit == Init => VariantInv
BY DEF Init, StoreInit, ConsumerInit, VariantInv, ReadyIsComplete, DoneIsComplete,
       RowsAreStored, LinksHaveRows, VariantsInHand, Progress

(* VariantInv is an invariant of the pipeline. *)
LEMMA VariantInvariant == Spec => [](TypeInv /\ VariantInv)
<1>1. Init => TypeInv /\ VariantInv
  BY TypeInit, VariantInit
<1>2. (TypeInv /\ VariantInv) /\ [Next]_vars => (TypeInv /\ VariantInv)'
  BY TypeStep, VariantStep
<1> QED BY <1>1, <1>2, PTL DEF Spec

(* An asset that is 'ready' has every variant of its type linked, recorded    *)
(* and stored, with any number of workers on it, any schema and any faults.   *)
THEOREM ReadyIsCompleteHolds == Spec => []ReadyIsComplete
BY VariantInvariant, PTL DEF VariantInv

(* The same of an asset whose job is 'done', also when the worker that        *)
(* finished the job found the work of another.                                *)
THEOREM DoneIsCompleteHolds == Spec => []DoneIsComplete
BY VariantInvariant, PTL DEF VariantInv

(* No variant row points to an object that was not stored. *)
THEOREM RowsAreStoredHolds == Spec => []RowsAreStored
BY VariantInvariant, PTL DEF VariantInv
=============================================================================
