------------------------------ MODULE JobProofs ------------------------------
(***************************************************************************)
(* Proofs that assets, jobs and messages agree: JobIffUploaded,            *)
(* MessagesHaveJobs and OutcomesAreCounted are invariants of Pipeline.     *)
(*                                                                         *)
(* The argument: no step takes a job row away or back to the status the    *)
(* API gave it (JobsGrow); so a message, once it names a committed job,    *)
(* does so for good, and it is enough to look at the steps that add a      *)
(* message or take one in hand.  Conversely a committed job that nobody    *)
(* has claimed has a carrier, a request, a message or a worker, and a      *)
(* fault takes the carrier of one job away at the most (StrandedByFaults). *)
(***************************************************************************)
EXTENDS PipelineProofs, FiniteSetTheorems

USE DEF storeVars, dbVars, storageVars, redisVars, apiVars, workerVars

JobsGrow ==
  \A a \in Assets : /\ job[a] # "none" => job'[a] # "none"
                    /\ job[a] \notin {"none", "processing"}
                         => job'[a] \notin {"none", "processing"}

RowsAgree == JobIffUploaded /\ OutcomesAreCounted

-----------------------------------------------------------------------------
(* The rows *)

(* A step that leaves assets, jobs and attempts alone keeps the rows in        *)
(* agreement.                                                                 *)
LEMMA SameRows ==
  ASSUME RowsAgree, UNCHANGED <<asset, job, attempts>>
  PROVE  RowsAgree' /\ JobsGrow
BY DEF RowsAgree, JobIffUploaded, OutcomesAreCounted, JobsGrow

(* The API's steps keep asset and job rows in agreement. *)
LEMMA ApiRows ==
  ASSUME TypeInv, RowsAgree,
         ClientNext \/ \E r \in Requests : ApiNext(r)
  PROVE  RowsAgree' /\ JobsGrow
<1> USE DEF RowsAgree, JobIffUploaded, OutcomesAreCounted, JobsGrow, TypeInv, TypeOK,
            StoreTypeOK, AssetStatus, JobStatus
<1>1. ASSUME NEW a \in Assets, CreateAsset(a)
      PROVE  RowsAgree' /\ JobsGrow
  BY <1>1 DEF CreateAsset, InsertAsset
<1>2. ASSUME NEW r \in Requests, MarkUploadedTx(r)
      PROVE  RowsAgree' /\ JobsGrow
  <2>1. reqAsset[r] \in Assets
    BY <1>2 DEF MarkUploadedTx, RequestsInHand
  <2>2. CASE asset[reqAsset[r]] = "uploading" /\ ApplyUploaded(reqAsset[r])
    BY <2>1, <2>2 DEF ApplyUploaded
  <2> QED BY <1>2, <2>2, SameRows DEF MarkUploadedTx
<1>3. ASSUME NEW r \in Requests, StatObject(r) \/ Enqueue(r) \/ ApiCrash(r)
      PROVE  UNCHANGED <<asset, job, attempts>>
  BY <1>3 DEF StatObject, Enqueue, ApiCrash
<1>4. ASSUME NEW r \in Requests, NEW a \in Assets, CompleteRequest(r, a) \/ ClientPut(a)
      PROVE  UNCHANGED <<asset, job, attempts>>
  BY <1>4 DEF CompleteRequest, ClientPut
<1>5. ASSUME NEW a \in Assets, ClientPut(a)
      PROVE  UNCHANGED <<asset, job, attempts>>
  BY <1>5 DEF ClientPut
<1> QED BY <1>1, <1>2, <1>3, <1>4, <1>5, SameRows DEF ClientNext, ApiNext, RequestStep

(* So do the workers' steps; the job in hand is past its claim by then. *)
LEMMA WorkerRows ==
  ASSUME TypeInv, RowsAgree, CommittedInHand, MessagesHaveJobs, NEW w \in Workers, WorkerNext(w)
  PROVE  RowsAgree' /\ JobsGrow
<1> USE DEF RowsAgree, JobIffUploaded, OutcomesAreCounted, JobsGrow, TypeInv, TypeOK,
            StoreTypeOK, AssetStatus, JobStatus
<1> DEFINE a == cur[w]
<1>1. pc[w] \in Busy => a \in Assets
  BY DEF WorkersInHand
<1>2. pc[w] \in Busy \ {"ensure", "claim"} => job[a] \notin {"none", "processing"}
  BY DEF CommittedInHand
<1>3. CASE EnsureJob(w)
  <2>1. a \in Assets
    BY <1>1, <1>3 DEF EnsureJob, Busy, WorkerPc
  <2>2. CASE Processable(a) /\ InsertJob(a)
    BY <1>3, <2>1, <2>2, SameRows DEF EnsureJob, InsertJob, Processable
  <2> QED BY <1>3, <2>1, <2>2, SameRows DEF EnsureJob
<1>4. CASE Claim(w)
  <2>1. a \in Assets
    BY <1>1, <1>4 DEF Claim, Busy, WorkerPc
  <2>2. CASE job[a] \notin {"none", "done"} /\ ClaimRow(a) /\ UNCHANGED asset
    BY <2>1, <2>2, RetryAssumption DEF ClaimRow, SetJob, CountAttempt
  <2> QED BY <1>4, <2>2, SameRows DEF Claim, Claimable
<1>5. ASSUME NEW s \in {"processing", "ready", "failed"}, a \in Assets,
             job[a] \notin {"none", "processing"}, SetAsset(a, s), UNCHANGED <<job, attempts>>
      PROVE  RowsAgree' /\ JobsGrow
  BY <1>5 DEF SetAsset
<1>6. CASE MarkProcessing(w) \/ MarkReady(w) \/ VideoFail(w)
  <2>1. a \in Assets /\ job[a] \notin {"none", "processing"}
    BY <1>1, <1>2, <1>6 DEF MarkProcessing, MarkReady, VideoFail, Busy, WorkerPc
  <2> QED BY <1>5, <1>6, <2>1, SameRows DEF MarkProcessing, MarkReady, VideoFail
<1>7. CASE FailWrite(w) \/ Finish(w)
  <2>1. a \in Assets /\ job[a] \notin {"none", "processing"}
    BY <1>1, <1>2, <1>7 DEF FailWrite, Finish, Busy, WorkerPc
  <2>2. CASE RecordFailure(w) /\ UNCHANGED attempts
    <3>1. CASE GiveUp(w)
      <4>1. /\ job' = [job EXCEPT ![a] = "failed"]
            /\ asset' = [asset EXCEPT ![a] = "failed"]
            /\ attempts' = attempts
        BY <2>2, <3>1 DEF RecordFailure, SetJob, SetAsset
      <4> QED BY <2>1, <4>1
    <3>2. CASE ~GiveUp(w)
      BY <2>1, <2>2, <3>2 DEF RecordFailure, SetJob
    <3> QED BY <3>1, <3>2
  <2>3. CASE RecordSuccess(a) /\ UNCHANGED attempts
    BY <2>1, <2>3 DEF RecordSuccess, SetJob, SetAsset
  <2> QED BY <1>7, <2>2, <2>3, SameRows DEF FailWrite, Finish
<1>8. ASSUME \/ Start(w) \/ Elapse(w) \/ Recover(w) \/ Requeue(w) \/ Read(w)
             \/ ReadNothing(w) \/ ReadFails(w) \/ Crash(w) \/ Load(w) \/ Prepare(w)
             \/ MakeVariant(w) \/ InsertVariant(w) \/ LinkVariant(w) \/ FailRead(w)
      PROVE  UNCHANGED <<asset, job, attempts>>
  BY <1>8 DEF Start, Elapse, Recover, Requeue, Read, ReadNothing, ReadFails, Crash, Load,
              Prepare, CloneRaises, MakeVariant, InsertVariant, LinkVariant, FailRead
<1> QED BY <1>3, <1>4, <1>6, <1>7, <1>8, SameRows DEF WorkerNext, WorkerStep
-----------------------------------------------------------------------------
(* The messages *)

(* The job messages of s name jobs that have a row after the step. *)
Carried(s) == \A i \in 1 .. Len(s) : s[i].kind = "job" => job'[s[i].asset] # "none"

(* What is left of a sequence without its first k elements. *)
LEMMA Suffix ==
  ASSUME NEW S, NEW q \in Seq(S), NEW k \in Nat,
         NEW i \in 1 .. Len(SubSeq(q, k + 1, Len(q)))
  PROVE  i + k \in 1 .. Len(q) /\ SubSeq(q, k + 1, Len(q))[i] = q[i + k]
OBVIOUS

(* Adding a message about a committed job, with or without trimming. *)
LEMMA XaddCarried ==
  ASSUME NEW m \in Message, stream \in Seq(Message), Carried(stream),
         m.kind = "job" => job'[m.asset] # "none",
         Xadd(m) \/ XaddMaxLen(m)
  PROVE  Carried(stream')
<1> DEFINE s == Append(stream, m)
<1>1. s \in Seq(Message) /\ Carried(s)
  BY DEF Carried
<1>2. CASE Xadd(m)
  BY <1>1, <1>2 DEF Xadd
<1>3. CASE XaddMaxLen(m)
  <2>1. CASE ~group
    BY <1>3, <2>1 DEF XaddMaxLen
  <2>2. CASE group
    <3>1. PICK k \in 0 .. Excess(s) : stream' = SubSeq(s, k + 1, Len(s))
      BY <1>3, <2>2 DEF XaddMaxLen
    <3>2. k \in Nat /\ Len(s) \in Nat
      BY <1>1, <3>1, StreamAssumption DEF Excess
    <3>3. ASSUME NEW i \in 1 .. Len(stream')
          PROVE  i + k \in 1 .. Len(s) /\ stream'[i] = s[i + k]
      <4> HIDE DEF s
      <4> QED BY <1>1, <3>1, <3>2, <3>3, Suffix
    <3> QED BY <1>1, <3>3 DEF Carried
  <2> QED BY <2>1, <2>2
<1> QED BY <1>2, <1>3

(* So do the messages left after one is delivered. *)
LEMMA TailCarried ==
  ASSUME stream \in Seq(Message), Carried(stream), stream # <<>>
  PROVE  Carried(Tail(stream))
<1>1. ASSUME NEW i \in 1 .. Len(Tail(stream))
      PROVE  i + 1 \in 1 .. Len(stream) /\ Tail(stream)[i] = stream[i + 1]
  OBVIOUS
<1> QED BY <1>1 DEF Carried

(* What was on the stream before a step still names committed jobs. *)
LEMMA StreamCarried ==
  ASSUME TypeInv, MessagesHaveJobs, JobsGrow
  PROVE  Carried(stream) /\ \A w \in Workers : \A a \in scan[w] : job'[a] # "none"
<1>1. ASSUME NEW i \in 1 .. Len(stream)
      PROVE  stream[i].asset \in Assets
  <2>1. stream[i] \in Message
    BY DEF TypeInv, TypeOK, StoreTypeOK
  <2> QED BY <2>1 DEF Message
<1>2. \A w \in Workers : scan[w] \subseteq Assets
  BY DEF TypeInv, TypeOK, WorkerTypeOK
<1> QED BY <1>1, <1>2 DEF Carried, MessagesHaveJobs, JobsGrow

-----------------------------------------------------------------------------
(* The hands of the workers *)

(* What MessagesHaveJobs and CommittedInHand say of worker w after a step. *)
HandNamed(w) ==
  /\ \A a \in scan'[w] : job'[a] # "none"
  /\ pc'[w] \in Busy \ {"ensure"} => job'[cur'[w]] # "none"
  /\ pc'[w] \in Busy \ {"ensure", "claim"} => job'[cur'[w]] \notin {"none", "processing"}

(* A worker that does not move keeps a committed job in hand. *)
LEMMA StillNamed ==
  ASSUME TypeInv, MessagesHaveJobs, CommittedInHand, JobsGrow, NEW w \in Workers,
         pc'[w] = pc[w], cur'[w] = cur[w], scan'[w] = scan[w]
  PROVE  HandNamed(w)
<1>1. pc[w] \in Busy => cur[w] \in Assets
  BY DEF TypeInv, WorkersInHand
<1> QED BY <1>1, StreamCarried DEF HandNamed, MessagesHaveJobs, CommittedInHand, JobsGrow

(* A worker that moves takes only committed jobs in hand, and goes past the   *)
(* claim only with a claimed one.                                             *)
LEMMA MoverNamed ==
  ASSUME TypeInv, MessagesHaveJobs, CommittedInHand, JobsGrow, NEW w \in Workers, WorkerNext(w)
  PROVE  HandNamed(w) /\ Carried(stream')
<1> USE DEF Goto
<1> DEFINE a == cur[w]
<1>1. /\ stream \in Seq(Message)
      /\ pc \in [Workers -> WorkerPc] /\ cur \in [Workers -> Assets \cup {NoAsset}]
      /\ scan \in [Workers -> SUBSET Assets]
      /\ job \in [Assets -> JobStatus]
      /\ pc[w] \in Busy => a \in Assets
  BY DEF TypeInv, TypeOK, StoreTypeOK, WorkerTypeOK, WorkersInHand
<1>2. Carried(stream) /\ \A b \in scan[w] : job'[b] # "none"
  BY StreamCarried
<1>3. ASSUME Return(w) \/ Die(w) PROVE HandNamed(w)
  BY <1>1, <1>2, <1>3 DEF Return, Die, HandNamed, Busy
<1>4. ASSUME NEW to \in WorkerPc, NEW kind,
             Step(w, to) \/ Raise(w, kind) \/ NextVariant(w),
             a \in Assets, job'[a] \notin {"none", "processing"}
      PROVE  HandNamed(w)
  BY <1>1, <1>2, <1>4 DEF Step, Raise, NextVariant, HandNamed
<1>5. ASSUME NEW d, Escape(w, d) PROVE HandNamed(w)
  <2>1. CASE w \in booting
    BY <1>3, <1>5, <2>1 DEF Escape
  <2>2. CASE w \notin booting
    BY <1>1, <1>5, <2>2 DEF Escape, HandNamed, Busy
  <2> QED BY <2>1, <2>2
<1>6. ASSUME stream # <<>>, Deliver(w, Head(stream)), Head(stream).kind # "malformed"
      PROVE  HandNamed(w)
  <2>1. Head(stream) = stream[1] /\ 1 \in 1 .. Len(stream)
    BY <1>1, <1>6
  <2>2. Head(stream).kind = "job" => job'[Head(stream).asset] # "none"
    BY <1>2, <2>1 DEF Carried
  <2>3. cur'[w] = Head(stream).asset /\ scan'[w] = scan[w]
        /\ pc'[w] = IF Head(stream).kind = "job" THEN "claim" ELSE "ensure"
    BY <1>1, <1>6 DEF Deliver
  <2> QED BY <1>2, <2>2, <2>3 DEF HandNamed
<1>7. CASE Start(w)
  BY <1>1, <1>2, <1>7 DEF Start, HandNamed, Busy, Carried
<1>8. CASE Elapse(w)
  <2>1. pc'[w] = pc[w] /\ cur'[w] = cur[w] /\ scan'[w] = scan[w] /\ stream' = stream
    BY <1>8 DEF Elapse
  <2> QED BY <1>2, <2>1, StillNamed
<1>9. CASE Recover(w)
  <2>1. CASE Goto(w, "requeue") /\ scan' = [scan EXCEPT ![w] = Stuck]
    <3>1. scan'[w] = Stuck /\ pc'[w] = "requeue"
      BY <1>1, <2>1
    <3>2. \A b \in Stuck : job'[b] # "none"
      BY DEF Stuck, JobsGrow
    <3>3. HandNamed(w)
      BY <3>1, <3>2 DEF HandNamed, Busy
    <3> QED BY <1>2, <1>9, <3>3 DEF Recover
  <2> QED BY <1>2, <1>5, <1>9, <2>1 DEF Recover
<1>10. CASE Requeue(w)
  <2>1. PICK b \in scan[w] :
          /\ Xadd(JobMessage(b)) \/ UNCHANGED stream
          /\ \/ scan' = [scan EXCEPT ![w] = @ \ {b}] /\ pc' = pc
             \/ Escape(w, due)
    BY <1>10 DEF Requeue
  <2>2. b \in Assets /\ job'[b] # "none"
    BY <1>1, <1>2
  <2>3. Carried(stream')
    BY <1>1, <1>2, <2>1, <2>2, XaddCarried, JobMessageType DEF JobMessage
  <2>4. CASE scan' = [scan EXCEPT ![w] = @ \ {b}] /\ pc' = pc
    <3>1. scan'[w] = scan[w] \ {b} /\ pc'[w] = "requeue"
      BY <1>1, <1>10, <2>4 DEF Requeue
    <3> QED BY <1>2, <2>3, <3>1 DEF HandNamed, Busy
  <2> QED BY <1>5, <2>1, <2>3, <2>4
<1>11. CASE Read(w)
  <2>1. Carried(stream')
    BY <1>1, <1>2, <1>11, TailCarried DEF Read
  <2> QED BY <1>3, <1>6, <1>11, <2>1 DEF Read
<1>12. CASE ReadNothing(w) \/ ReadFails(w) \/ Crash(w)
  <2>1. Carried(stream')
    BY <1>1, <1>2, <1>12, TailCarried DEF ReadNothing, ReadFails, Crash
  <2> QED BY <1>3, <1>5, <1>12, <2>1 DEF ReadNothing, ReadFails, Crash
<1>13. CASE EnsureJob(w)
  <2>1. a \in Assets
    BY <1>1, <1>13 DEF EnsureJob, Busy, WorkerPc
  <2>2. CASE Step(w, "claim") /\ InsertJob(a)
    <3>1. job'[a] # "none"
      BY <1>1, <2>1, <2>2 DEF InsertJob, SetJob
    <3>2. scan'[w] = scan[w] /\ pc'[w] = "claim" /\ cur'[w] = a
      BY <1>1, <2>2 DEF Step
    <3> QED BY <1>2, <1>13, <3>1, <3>2 DEF HandNamed, EnsureJob
  <2> QED BY <1>2, <1>3, <1>13, <2>2 DEF EnsureJob, Abandon
<1>14. CASE Claim(w)
  <2>1. a \in Assets
    BY <1>1, <1>14 DEF Claim, Busy, WorkerPc
  <2>2. CASE Step(w, "load") /\ ClaimRow(a)
    <3>1. job'[a] \notin {"none", "processing"}
      BY <1>1, <2>1, <2>2 DEF ClaimRow, SetJob
    <3>2. "load" \in WorkerPc
      BY DEF WorkerPc
    <3> QED BY <1>2, <1>4, <1>14, <2>1, <2>2, <3>1, <3>2 DEF Claim
  <2> QED BY <1>2, <1>3, <1>14, <2>2 DEF Claim, Abandon
<1>15. CASE \/ Load(w) \/ MarkProcessing(w) \/ Prepare(w) \/ MakeVariant(w)
            \/ InsertVariant(w) \/ LinkVariant(w) \/ MarkReady(w) \/ VideoFail(w)
            \/ FailRead(w) \/ FailWrite(w) \/ Finish(w)
  <2>1. pc[w] \in Busy \ {"ensure", "claim"} /\ stream' = stream
    BY <1>15 DEF Load, MarkProcessing, Prepare, CloneRaises, MakeVariant, InsertVariant, LinkVariant,
                 MarkReady, VideoFail, FailRead, FailWrite, Finish, Busy, WorkerPc
  <2>2. a \in Assets /\ job'[a] \notin {"none", "processing"}
    BY <1>1, <2>1 DEF CommittedInHand, JobsGrow
  <2>3. \/ \E to \in WorkerPc : Step(w, to)
        \/ \E kind \in {"permanent", "retryable"} : Raise(w, kind)
        \/ NextVariant(w)
        \/ Return(w)
        \/ Goto(w, "fail") /\ UNCHANGED <<cur, scan>>
    BY <1>15 DEF Load, MarkProcessing, Prepare, CloneRaises, MakeVariant, InsertVariant, LinkVariant,
                 MarkReady, VideoFail, FailRead, FailWrite, Finish, WorkerPc, VariantFails,
                 Abandon
  <2>4. CASE Goto(w, "fail") /\ UNCHANGED <<cur, scan>>
    BY <1>1, <1>2, <2>1, <2>2, <2>4 DEF HandNamed
  <2> QED BY <1>2, <1>3, <1>4, <2>1, <2>2, <2>3, <2>4 DEF WorkerPc
<1> QED BY <1>7, <1>8, <1>9, <1>10, <1>11, <1>12, <1>13, <1>14, <1>15 DEF WorkerNext, WorkerStep

-----------------------------------------------------------------------------
(* The invariant *)

(* The steps of clients and of the API: a message is sent for a committed job *)
(* only, and a request moves on to Enqueue with the commit of its job.        *)
LEMMA ApiNamed ==
  ASSUME TypeInv, MessagesHaveJobs, CommittedInHand, JobsGrow,
         ClientNext \/ \E r \in Requests : ApiNext(r)
  PROVE  /\ Carried(stream')
         /\ \A r \in Requests : reqPc'[r] = "enqueue" => job'[reqAsset'[r]] # "none"
<1> USE DEF Answer
<1> DEFINE Named == \A r \in Requests : reqPc'[r] = "enqueue" => job'[reqAsset'[r]] # "none"
<1>1. /\ stream \in Seq(Message) /\ job \in [Assets -> JobStatus]
      /\ reqPc \in [Requests -> RequestPc] /\ reqAsset \in [Requests -> Assets \cup {NoAsset}]
      /\ \A r \in Requests : reqPc[r] \in {"stat", "tx", "enqueue"} => reqAsset[r] \in Assets
  BY DEF TypeInv, TypeOK, StoreTypeOK, ApiTypeOK, RequestsInHand
<1>2. /\ Carried(stream)
      /\ \A r \in Requests : reqPc[r] = "enqueue" => job'[reqAsset[r]] # "none"
  BY <1>1, StreamCarried DEF CommittedInHand, JobsGrow
<1>3. ASSUME NEW a \in Assets, CreateAsset(a) \/ ClientPut(a)
      PROVE  Carried(stream') /\ Named
  BY <1>2, <1>3 DEF CreateAsset, InsertAsset, ClientPut
<1>4. ASSUME NEW r \in Requests, NEW a \in Assets, CompleteRequest(r, a)
      PROVE  Carried(stream') /\ Named
  BY <1>1, <1>2, <1>4 DEF CompleteRequest
<1>5. ASSUME NEW r \in Requests, StatObject(r) \/ ApiCrash(r)
      PROVE  Carried(stream') /\ Named
  BY <1>1, <1>2, <1>5 DEF StatObject, ApiCrash
<1>6. ASSUME NEW r \in Requests, MarkUploadedTx(r)
      PROVE  Carried(stream') /\ Named
  <2>1. reqAsset[r] \in Assets
    BY <1>1, <1>6 DEF MarkUploadedTx
  <2>2. CASE ApplyUploaded(reqAsset[r]) /\ Answer(r, "enqueue")
    <3>1. job'[reqAsset[r]] # "none"
      BY <1>1, <2>1, <2>2 DEF ApplyUploaded
    <3> QED BY <1>1, <1>2, <1>6, <2>2, <3>1 DEF MarkUploadedTx
  <2>3. CASE Answer(r, "ok") \/ Answer(r, "error")
    BY <1>1, <1>2, <1>6, <2>3 DEF MarkUploadedTx
  <2> QED BY <1>6, <2>2, <2>3 DEF MarkUploadedTx
<1>7. ASSUME NEW r \in Requests, Enqueue(r)
      PROVE  Carried(stream') /\ Named
  <2>1. reqAsset[r] \in Assets /\ job'[reqAsset[r]] # "none"
    BY <1>1, <1>2, <1>7 DEF Enqueue
  <2>2. Carried(stream')
    BY <1>1, <1>2, <1>7, <2>1, XaddCarried, JobMessageType DEF Enqueue, JobMessage
  <2>3. Named
    BY <1>1, <1>2, <1>7 DEF Enqueue
  <2> QED BY <2>2, <2>3
<1> QED BY <1>3, <1>4, <1>5, <1>6, <1>7 DEF ClientNext, ApiNext, RequestStep

(* Every step keeps the job invariant. *)
LEMMA JobStep == TypeInv /\ JobInv /\ [Next]_vars => JobInv'
<1> SUFFICES ASSUME TypeInv, JobInv, [Next]_vars PROVE JobInv'
  OBVIOUS
<1>1. RowsAgree /\ MessagesHaveJobs /\ CommittedInHand
  BY DEF JobInv, RowsAgree
<1>2. RowsAgree' /\ JobsGrow
  <2>1. ASSUME NEW m \in Foreign, Publish(m) PROVE UNCHANGED <<asset, job, attempts>>
    BY <2>1 DEF Publish
  <2>2. ASSUME NEW a \in Assets, Age(a) PROVE UNCHANGED <<asset, job, attempts>>
    BY <2>2 DEF Age
  <2>3. CASE UNCHANGED vars
    BY <1>1, <2>3, SameRows DEF vars
  <2> QED BY <1>1, <2>1, <2>2, <2>3, ApiRows, WorkerRows, SameRows DEF Next
<1> DEFINE Requested == \A r \in Requests : reqPc'[r] = "enqueue" => job'[reqAsset'[r]] # "none"
<1>3. SUFFICES Carried(stream') /\ Requested /\ \A w \in Workers : HandNamed(w)
  <2>1. MessagesHaveJobs'
    BY <1>3 DEF Carried, HandNamed, MessagesHaveJobs
  <2>2. CommittedInHand'
    BY <1>3 DEF HandNamed, CommittedInHand
  <2> QED BY <1>2, <2>1, <2>2 DEF JobInv, RowsAgree
<1>4. Carried(stream)
  BY <1>1, <1>2, StreamCarried
<1>5. ASSUME UNCHANGED <<reqPc, reqAsset>> PROVE Requested
  BY <1>1, <1>2, <1>5 DEF CommittedInHand, JobsGrow, TypeInv, RequestsInHand
<1>6. ASSUME UNCHANGED <<pc, cur, scan>> PROVE \A w \in Workers : HandNamed(w)
  BY <1>1, <1>2, <1>6, StillNamed
<1>7. ASSUME ClientNext \/ \E r \in Requests : ApiNext(r), UNCHANGED <<workerVars, published>>
      PROVE  Carried(stream') /\ Requested /\ \A w \in Workers : HandNamed(w)
  BY <1>1, <1>2, <1>6, <1>7, ApiNamed
<1>8. ASSUME NEW w \in Workers, WorkerNext(w), UNCHANGED <<apiVars, published>>
      PROVE  Carried(stream') /\ Requested /\ \A v \in Workers : HandNamed(v)
  <2>1. ASSUME NEW v \in Workers, v # w PROVE HandNamed(v)
    BY <1>1, <1>2, <1>8, <2>1, OtherWorkers, StillNamed DEF TypeInv, TypeOK
  <2> QED BY <1>1, <1>2, <1>5, <1>8, <2>1, MoverNamed
<1>9. ASSUME NEW m \in Foreign, Publish(m)
      PROVE  Carried(stream') /\ Requested /\ \A w \in Workers : HandNamed(w)
  <2>1. m \in Message /\ m.kind # "job"
    BY ForeignAssumption
  <2>2. Carried(stream')
    BY <1>4, <1>9, <2>1, XaddCarried DEF Publish, TypeInv, TypeOK, StoreTypeOK
  <2> QED BY <1>5, <1>6, <1>9, <2>2 DEF Publish
<1>10. ASSUME NEW a \in Assets, Age(a), UNCHANGED <<apiVars, workerVars, published>>
       PROVE  Carried(stream') /\ Requested /\ \A w \in Workers : HandNamed(w)
  BY <1>4, <1>5, <1>6, <1>10 DEF Age
<1>11. CASE UNCHANGED vars
  BY <1>4, <1>5, <1>6, <1>11 DEF vars
<1> QED BY <1>7, <1>8, <1>9, <1>10, <1>11 DEF Next

(* The initial state satisfies it: there are no rows, messages or requests.  *)
LEMMA JobInit == Init => JobInv
BY DEF Init, StoreInit, ApiInit, ConsumerInit, JobInv, JobIffUploaded, MessagesHaveJobs,
       OutcomesAreCounted, CommittedInHand, Busy

(* JobInv is an invariant of the pipeline. *)
LEMMA JobInvariant == Spec => [](TypeInv /\ JobInv)
<1>1. Init => TypeInv /\ JobInv
  BY TypeInit, JobInit
<1>2. (TypeInv /\ JobInv) /\ [Next]_vars => (TypeInv /\ JobInv)'
  BY TypeStep, JobStep
<1> QED BY <1>1, <1>2, PTL DEF Spec

(* An asset has a job row exactly when it has left 'uploading', for every     *)
(* number of assets, calls of /complete, workers and faults: the transaction  *)
(* of MarkAssetUploaded writes both rows or neither and nothing deletes one.  *)
THEOREM JobIffUploadedHolds == Spec => []JobIffUploaded
BY JobInvariant, PTL DEF JobInv

(* Every job message that is on the stream, that a sweep is about to add or   *)
(* that a worker handles names a committed job: _handle_job always finds its  *)
(* row.                                                                       *)
THEOREM MessagesHaveJobsHolds == Spec => []MessagesHaveJobs
BY JobInvariant, PTL DEF JobInv

(* No outcome is recorded before an attempt is counted, and no attempt is     *)
(* counted without a claim.                                                   *)
THEOREM OutcomesAreCountedHolds == Spec => []OutcomesAreCounted
BY JobInvariant, PTL DEF JobInv

-----------------------------------------------------------------------------
(* No committed job is forgotten *)

Queued(q, a) == \E i \in 1 .. Len(q) : q[i].kind = "job" /\ q[i].asset = a

(* Adding a message, below the limit, keeps the others and queues its job. *)
LEMMA XaddQueues ==
  ASSUME NEW m \in Message, stream \in Seq(Message), group,
         Xadd(m) \/ (XaddMaxLen(m) /\ BelowLimit)
  PROVE  /\ \A a \in Assets : Queued(stream, a) => Queued(stream', a)
         /\ m.kind = "job" => Queued(stream', m.asset)
<1>1. stream' = Append(stream, m)
  <2>1. CASE Xadd(m)
    BY <2>1 DEF Xadd
  <2>2. CASE XaddMaxLen(m) /\ BelowLimit
    <3> DEFINE s == Append(stream, m)
    <3>1. s \in Seq(Message) /\ Len(s) = Len(stream) + 1 /\ Len(stream) \in Nat
      OBVIOUS
    <3>2. Excess(s) = 0
      BY <2>2, <3>1, StreamAssumption DEF Excess, BelowLimit
    <3>3. stream' = SubSeq(s, 1, Len(s))
      BY <2>2, <3>2 DEF XaddMaxLen
    <3>4. SubSeq(s, 1, Len(s)) = s
      BY <3>1
    <3> QED BY <3>3, <3>4
  <2> QED BY <2>1, <2>2
<1>2. /\ Len(stream') = Len(stream) + 1 /\ Len(stream) \in Nat
      /\ \A i \in 1 .. Len(stream) : stream'[i] = stream[i]
      /\ stream'[Len(stream) + 1] = m
  BY <1>1
<1> QED BY <1>2 DEF Queued

(* Reading takes the first message only. *)
LEMMA ReadLeaves ==
  ASSUME stream \in Seq(Message), stream # <<>>, NEW a \in Assets, Queued(stream, a)
  PROVE  Queued(Tail(stream), a) \/ (Head(stream).kind = "job" /\ Head(stream).asset = a)
<1>1. PICK i \in 1 .. Len(stream) : stream[i].kind = "job" /\ stream[i].asset = a
  BY DEF Queued
<1>2. CASE i = 1
  BY <1>1, <1>2
<1>3. CASE i # 1
  <2>1. i - 1 \in 1 .. Len(Tail(stream)) /\ Tail(stream)[i - 1] = stream[i]
    BY <1>1, <1>3
  <2> QED BY <1>1, <2>1 DEF Queued
<1> QED BY <1>2, <1>3

(* The carriers of a's job, one by one. *)
Requesting(a) == \E r \in Requests : reqPc[r] = "enqueue" /\ reqAsset[r] = a
InHand(a) == \E w \in Workers : pc[w] = "claim" /\ cur[w] = a

LEMMA Carriers == \A a : OnItsWay(a) <=> Requesting(a) \/ Queued(stream, a) \/ InHand(a)
BY DEF OnItsWay, Requesting, Queued, InHand

(* A fault-free step of the API hands a job on from the request to the        *)
(* stream, and commits one only with a request that will enqueue it.          *)
LEMMA ApiCarries ==
  ASSUME TypeInv, group, BelowLimit, faults' = faults, ClientNext \/ \E r \in Requests : ApiNext(r),
         UNCHANGED <<pc, cur>>, NEW a \in Assets, job'[a] = "processing",
         job[a] = "processing" => OnItsWay(a)
  PROVE  OnItsWay(a)'
<1> USE DEF Answer
<1>0. /\ reqPc \in [Requests -> RequestPc] /\ reqAsset \in [Requests -> Assets \cup {NoAsset}]
      /\ faults \in Nat /\ stream \in Seq(Message) /\ job \in [Assets -> JobStatus]
      /\ \A r \in Requests : reqPc[r] \in {"stat", "tx", "enqueue"} => reqAsset[r] \in Assets
  BY FaultAssumption DEF TypeInv, TypeOK, StoreTypeOK, ApiTypeOK, RequestsInHand
<1>1. \A k : ~ Fault(k)
  BY <1>0 DEF Fault
<1>2. OnItsWay(a)' <=> Requesting(a)' \/ Queued(stream', a) \/ InHand(a)'
  BY DEF OnItsWay, Requesting, Queued, InHand
<1>3. InHand(a) => InHand(a)'
  BY DEF InHand
<1>4. ASSUME UNCHANGED <<stream, job>>,
             \A r \in Requests : reqPc[r] = "enqueue" => reqPc'[r] = "enqueue" /\ reqAsset'[r] = reqAsset[r]
      PROVE  OnItsWay(a)'
  BY <1>2, <1>3, <1>4, Carriers DEF Requesting
<1>5. CASE ClientNext
  BY <1>0, <1>4, <1>5 DEF ClientNext, CreateAsset, InsertAsset, ClientPut, CompleteRequest
<1>6. ASSUME NEW r \in Requests, StatObject(r) \/ ApiCrash(r) PROVE OnItsWay(a)'
  BY <1>0, <1>1, <1>4, <1>6 DEF StatObject, ApiCrash
<1>7. ASSUME NEW r \in Requests, MarkUploadedTx(r) PROVE OnItsWay(a)'
  <2>1. reqPc[r] = "tx" /\ reqAsset[r] \in Assets /\ UNCHANGED <<stream, reqAsset>>
    BY <1>0, <1>7 DEF MarkUploadedTx
  <2>2. CASE Answer(r, "ok") /\ UNCHANGED job
    BY <1>0, <1>4, <2>1, <2>2
  <2>3. CASE ApplyUploaded(reqAsset[r]) /\ Answer(r, "enqueue")
    <3>1. CASE a = reqAsset[r]
      BY <1>0, <1>2, <2>1, <2>3, <3>1 DEF Requesting
    <3>2. CASE a # reqAsset[r]
      <4>1. job[a] = "processing"
        BY <1>0, <2>1, <2>3, <3>2 DEF ApplyUploaded
      <4>2. Requesting(a) => Requesting(a)'
        BY <1>0, <2>1, <2>3 DEF Requesting
      <4> QED BY <1>2, <1>3, <2>1, <4>1, <4>2, Carriers
    <3> QED BY <3>1, <3>2
  <2> QED BY <1>1, <1>7, <2>2, <2>3 DEF MarkUploadedTx
<1>8. ASSUME NEW r \in Requests, Enqueue(r) PROVE OnItsWay(a)'
  <2> DEFINE m == JobMessage(reqAsset[r])
  <2>1. /\ reqPc[r] = "enqueue" /\ reqAsset[r] \in Assets /\ XaddMaxLen(m) /\ Answer(r, "ok")
        /\ UNCHANGED <<job, reqAsset>>
    BY <1>0, <1>1, <1>8 DEF Enqueue
  <2>2. m \in Message /\ m.kind = "job" /\ m.asset = reqAsset[r]
    BY <2>1, JobMessageType DEF JobMessage
  <2>3. /\ Queued(stream, a) => Queued(stream', a)
        /\ Queued(stream', reqAsset[r])
    BY <1>0, <2>1, <2>2, XaddQueues
  <2>4. Requesting(a) => Requesting(a)' \/ a = reqAsset[r]
    BY <1>0, <2>1 DEF Requesting
  <2> QED BY <1>2, <1>3, <2>1, <2>3, <2>4, Carriers
<1> QED BY <1>5, <1>6, <1>7, <1>8 DEF ApiNext, RequestStep

(* A fault-free step of a worker takes the message in hand and then claims    *)
(* the job.                                                                   *)
LEMMA WorkerCarries ==
  ASSUME TypeInv, group, faults' = faults, NEW w \in Workers, WorkerNext(w),
         UNCHANGED <<reqPc, reqAsset>>, NEW a \in Assets, job'[a] = "processing", OnItsWay(a)
  PROVE  OnItsWay(a)'
<1> USE DEF Goto
<1>0. /\ pc \in [Workers -> WorkerPc] /\ cur \in [Workers -> Assets \cup {NoAsset}]
      /\ scan \in [Workers -> SUBSET Assets]
      /\ faults \in Nat /\ stream \in Seq(Message) /\ job \in [Assets -> JobStatus]
  BY FaultAssumption DEF TypeInv, TypeOK, StoreTypeOK, WorkerTypeOK
<1>1. \A k : ~ Fault(k)
  BY <1>0 DEF Fault
<1>2. OnItsWay(a)' <=> Requesting(a)' \/ Queued(stream', a) \/ InHand(a)'
  BY DEF OnItsWay, Requesting, Queued, InHand
<1>3. Requesting(a) => Requesting(a)'
  BY DEF Requesting
<1>4. ASSUME pc[w] = "claim" => pc'[w] = "claim" /\ cur'[w] = cur[w]
      PROVE  InHand(a) => InHand(a)'
  BY <1>4, OtherWorkers DEF InHand, TypeInv, TypeOK
<1>5. CASE Claim(w)
  <2>1. UNCHANGED stream /\ pc[w] = "claim"
    BY <1>5 DEF Claim
  <2>2. cur[w] # a
    <3>1. ASSUME cur[w] = a PROVE FALSE
      <4>1. CASE ~Claimable(a)
        BY <1>5, <3>1, <4>1 DEF Claim, Claimable, ClaimRow, SetJob
      <4>2. CASE Claimable(a)
        BY <1>0, <1>1, <1>5, <3>1, <4>2 DEF Claim, ClaimRow, SetJob
      <4> QED BY <4>1, <4>2
    <3> QED BY <3>1
  <2>3. InHand(a) => InHand(a)'
    BY <1>5, <2>2, OtherWorkers DEF InHand, TypeInv, TypeOK
  <2> QED BY <1>2, <1>3, <2>1, <2>3, Carriers
<1>6. CASE Read(w)
  <2>1. stream # <<>> /\ stream' = Tail(stream) /\ pc[w] # "claim"
    BY <1>6 DEF Read, Polling
  <2>2. ASSUME Head(stream).kind = "job", Head(stream).asset = a PROVE InHand(a)'
    BY <1>0, <1>6, <2>2 DEF Read, Deliver, InHand
  <2> QED BY <1>0, <1>2, <1>3, <1>4, <2>1, <2>2, ReadLeaves, Carriers
<1>7. CASE Requeue(w)
  <2>1. PICK b \in scan[w] : Xadd(JobMessage(b))
    BY <1>1, <1>7 DEF Requeue
  <2>2. JobMessage(b) \in Message /\ pc[w] # "claim"
    BY <1>0, <1>7, <2>1, JobMessageType DEF Requeue
  <2>3. Queued(stream, a) => Queued(stream', a)
    BY <1>0, <2>1, <2>2, XaddQueues
  <2> QED BY <1>2, <1>3, <1>4, <2>2, <2>3, Carriers
<1>8. CASE ReadFails(w) \/ Crash(w)
  BY <1>1, <1>8 DEF ReadFails, Crash
<1>9. CASE Elapse(w)
  BY <1>2, <1>3, <1>4, <1>9, Carriers DEF Elapse
<1>10. CASE \/ Start(w) \/ Recover(w) \/ ReadNothing(w) \/ EnsureJob(w) \/ Load(w)
            \/ MarkProcessing(w) \/ Prepare(w) \/ MakeVariant(w) \/ InsertVariant(w)
            \/ LinkVariant(w) \/ MarkReady(w) \/ VideoFail(w) \/ FailRead(w) \/ FailWrite(w)
            \/ Finish(w)
  <2>1. UNCHANGED stream /\ pc[w] # "claim"
    BY <1>10 DEF Start, Recover, ReadNothing, EnsureJob, Load, MarkProcessing, Prepare,
                 MakeVariant, InsertVariant, LinkVariant, MarkReady, VideoFail, FailRead,
                 FailWrite, Finish
  <2> QED BY <1>2, <1>3, <1>4, <2>1, Carriers
<1> QED BY <1>5, <1>6, <1>7, <1>8, <1>9, <1>10 DEF WorkerNext, WorkerStep

(* A step counts at most one fault, the group is never removed, and no worker *)
(* gives a job the status of the API.                                         *)
LEMMA ApiForgetsNothing ==
  ASSUME TypeInv, ClientNext \/ \E r \in Requests : ApiNext(r)
  PROVE  faults' \in {faults, faults + 1} /\ group' = group
<1> USE DEF Fault, NoFault
<1>2. CASE ClientNext
  BY <1>2 DEF ClientNext, CreateAsset, ClientPut, CompleteRequest
<1>3. ASSUME NEW r \in Requests, ApiNext(r) PROVE faults' \in {faults, faults + 1} /\ group' = group
  BY <1>3 DEF ApiNext, RequestStep, StatObject, MarkUploadedTx, Enqueue, ApiCrash
<1> QED BY <1>2, <1>3

LEMMA WorkerForgetsNothing ==
  ASSUME TypeInv, NEW w \in Workers, WorkerNext(w), group
  PROVE  /\ faults' \in {faults, faults + 1}
         /\ group'
         /\ \A a \in Assets : job'[a] = "processing" => job[a] = "processing"
<1>1. faults \in Nat /\ job \in [Assets -> JobStatus] /\ group = TRUE
  BY FaultAssumption DEF TypeInv, TypeOK, StoreTypeOK
<1>2. faults' = faults \/ faults' = faults + 1
  <2> USE DEF Fault, NoFault
  <2>1. CASE Recover(w) \/ Requeue(w) \/ EnsureJob(w) \/ Claim(w) \/ FailWrite(w) \/ Finish(w)
    BY <2>1 DEF Recover, Requeue, EnsureJob, Claim, FailWrite, Finish
  <2>2. CASE Start(w) \/ Read(w) \/ ReadNothing(w) \/ ReadFails(w) \/ Elapse(w) \/ Crash(w)
    BY <2>2 DEF Start, Read, ReadNothing, ReadFails, Elapse, Crash
  <2>3. CASE Load(w) \/ MarkProcessing(w) \/ Prepare(w) \/ FailRead(w) \/ VideoFail(w)
    BY <2>3 DEF Load, MarkProcessing, Prepare, CloneRaises, FailRead, VideoFail
  <2>4. CASE MakeVariant(w) \/ InsertVariant(w) \/ LinkVariant(w) \/ MarkReady(w)
    BY <2>4 DEF MakeVariant, InsertVariant, LinkVariant, MarkReady
  <2> QED BY <2>1, <2>2, <2>3, <2>4 DEF WorkerNext, WorkerStep
<1>3. group' = TRUE
  <2>1. CASE Start(w)
    BY <2>1 DEF Start
  <2>2. CASE WorkerNext(w) /\ ~Start(w)
    BY <1>1, <2>2 DEF WorkerNext, WorkerStep, Recover, Requeue, EnsureJob, Claim, FailWrite,
                      Finish, Read, ReadNothing, ReadFails, Elapse, Crash, Load, MarkProcessing,
                      Prepare, FailRead, VideoFail, MakeVariant, InsertVariant, LinkVariant,
                      MarkReady
  <2> QED BY <2>1, <2>2
<1>4. ASSUME NEW a \in Assets, job'[a] = "processing" PROVE job[a] = "processing"
  <2> USE DEF SetJob
  <2>1. CASE EnsureJob(w) \/ Claim(w)
    BY <1>1, <1>4, <2>1 DEF EnsureJob, InsertJob, Claim, ClaimRow
  <2>2. CASE FailWrite(w) \/ Finish(w)
    BY <1>1, <1>4, <2>2 DEF FailWrite, Finish, RecordFailure, RecordSuccess
  <2>3. CASE UNCHANGED job
    BY <1>4, <2>3
  <2>4. EnsureJob(w) \/ Claim(w) \/ FailWrite(w) \/ Finish(w) \/ UNCHANGED job
    BY DEF WorkerNext, WorkerStep, Start, Recover, Requeue, Read, ReadNothing, ReadFails,
           Elapse, Crash, Load, MarkProcessing, Prepare, FailRead, VideoFail, MakeVariant,
           InsertVariant, LinkVariant, MarkReady
  <2> QED BY <2>1, <2>2, <2>3, <2>4
<1> QED BY <1>1, <1>2, <1>3, <1>4

(* Whatever a step of request r does, with a fault or without, it leaves the  *)
(* carriers of all jobs but its own.                                          *)
LEMMA ApiSpares ==
  ASSUME TypeInv, group, BelowLimit, NEW r \in Requests, ApiNext(r), UNCHANGED <<pc, cur>>,
         NEW a \in Assets, a # reqAsset[r], a \notin Stranded
  PROVE  a \notin Stranded'
<1> USE DEF Answer
<1>0. /\ reqPc \in [Requests -> RequestPc] /\ reqAsset \in [Requests -> Assets \cup {NoAsset}]
      /\ stream \in Seq(Message) /\ job \in [Assets -> JobStatus]
      /\ reqPc[r] \in {"stat", "tx", "enqueue"} => reqAsset[r] \in Assets
  BY DEF TypeInv, TypeOK, StoreTypeOK, ApiTypeOK, RequestsInHand
<1>1. job'[a] = job[a] /\ reqAsset' = reqAsset
  BY <1>0 DEF ApiNext, RequestStep, StatObject, MarkUploadedTx, Enqueue, ApiCrash, ApplyUploaded
<1>2. \A q \in Requests : q # r => reqPc'[q] = reqPc[q]
  BY <1>0 DEF ApiNext, RequestStep, StatObject, MarkUploadedTx, Enqueue, ApiCrash
<1>3. Requesting(a) => Requesting(a)'
  BY <1>1, <1>2 DEF Requesting
<1>4. Queued(stream, a) => Queued(stream', a)
  <2>1. CASE Enqueue(r)
    <3>1. JobMessage(reqAsset[r]) \in Message
      BY <1>0, <2>1, JobMessageType DEF Enqueue
    <3>2. XaddMaxLen(JobMessage(reqAsset[r])) \/ UNCHANGED stream
      BY <2>1 DEF Enqueue
    <3> QED BY <1>0, <3>1, <3>2, XaddQueues
  <2>2. CASE ~Enqueue(r)
    BY <2>2 DEF ApiNext, RequestStep, StatObject, MarkUploadedTx, ApiCrash
  <2> QED BY <2>1, <2>2
<1>5. InHand(a) => InHand(a)'
  BY DEF InHand
<1> QED BY <1>1, <1>3, <1>4, <1>5 DEF Stranded, OnItsWay, Requesting, Queued, InHand

(* A step of worker w leaves the carriers of all jobs but that of the message *)
(* in its hand or, while it polls, of the first one on the stream.            *)
Touched(w) == IF Polling(w) /\ stream # <<>> THEN Head(stream).asset ELSE cur[w]

LEMMA WorkerSpares ==
  ASSUME TypeInv, group, NEW w \in Workers, WorkerNext(w), UNCHANGED <<reqPc, reqAsset>>,
         NEW a \in Assets, a # Touched(w), a \notin Stranded, job'[a] = "processing" => job[a] = "processing"
  PROVE  a \notin Stranded'
<1>0. /\ pc \in [Workers -> WorkerPc] /\ scan \in [Workers -> SUBSET Assets]
      /\ stream \in Seq(Message)
  BY DEF TypeInv, TypeOK, StoreTypeOK, WorkerTypeOK
<1>1. Requesting(a) => Requesting(a)'
  BY DEF Requesting
<1>2. InHand(a) => InHand(a)'
  <2>1. ASSUME NEW v \in Workers, pc[v] = "claim", cur[v] = a, v = w PROVE FALSE
    BY <2>1 DEF Touched, Polling
  <2> QED BY <2>1, OtherWorkers DEF InHand, TypeInv, TypeOK
<1>3. Queued(stream, a) => Queued(stream', a)
  <2>1. CASE Requeue(w)
    <3>1. PICK b \in scan[w] : Xadd(JobMessage(b)) \/ UNCHANGED stream
      BY <2>1 DEF Requeue
    <3>2. JobMessage(b) \in Message
      BY <1>0, <3>1, JobMessageType
    <3> QED BY <1>0, <3>1, <3>2, XaddQueues
  <2>2. CASE Read(w) \/ ReadFails(w)
    <3>1. Polling(w) /\ (stream' = stream \/ (stream # <<>> /\ stream' = Tail(stream)))
      BY <2>2 DEF Read, ReadFails
    <3>2. stream # <<>> => Head(stream).asset # a
      BY <3>1 DEF Touched
    <3> QED BY <1>0, <3>1, <3>2, ReadLeaves
  <2>3. CASE ~ (Requeue(w) \/ Read(w) \/ ReadFails(w))
    <3>1. UNCHANGED stream
      BY <2>3 DEF WorkerNext, WorkerStep, Start, Recover, ReadNothing, EnsureJob, Claim, FailWrite,
                  Finish, Elapse, Crash, Load, MarkProcessing, Prepare, FailRead, VideoFail,
                  MakeVariant, InsertVariant, LinkVariant, MarkReady
    <3> QED BY <3>1
  <2> QED BY <2>1, <2>2, <2>3
<1> QED BY <1>1, <1>2, <1>3 DEF Stranded, OnItsWay, Requesting, Queued, InHand

(* A step without a fault strands nobody; a fault strands at most one job. *)
Bounded == \/ faults' = faults /\ Stranded' \subseteq Stranded
           \/ faults' = faults + 1 /\ \E x : Stranded' \subseteq Stranded \cup {x}

LEMMA ApiStrands ==
  ASSUME TypeInv, group, BelowLimit, ClientNext \/ \E r \in Requests : ApiNext(r),
         UNCHANGED <<pc, cur>>
  PROVE  Bounded
<1>1. CASE faults' = faults
  <2>1. ASSUME NEW a \in Assets, a \in Stranded', a \notin Stranded PROVE FALSE
    <3>1. job'[a] = "processing" /\ ~ OnItsWay(a)' /\ (job[a] = "processing" => OnItsWay(a))
      BY <2>1 DEF Stranded
    <3> QED BY <1>1, <3>1, ApiCarries
  <2>2. Stranded' \subseteq Stranded
    BY <2>1 DEF Stranded
  <2> QED BY <1>1, <2>2 DEF Bounded
<1>2. CASE faults' # faults
  <2>1. faults' = faults + 1
    BY <1>2, ApiForgetsNothing
  <2>2. PICK r \in Requests : ApiNext(r)
    BY <1>2 DEF ClientNext, CreateAsset, ClientPut, CompleteRequest
  <2>3. ASSUME NEW a \in Stranded' PROVE a \in Stranded \cup {reqAsset[r]}
    <3>1. a \in Assets
      BY <2>3 DEF Stranded
    <3> QED BY <2>2, <2>3, <3>1, ApiSpares
  <2>4. Stranded' \subseteq Stranded \cup {reqAsset[r]}
    BY <2>3
  <2> QED BY <2>1, <2>4 DEF Bounded
<1> QED BY <1>1, <1>2

LEMMA WorkerStrands ==
  ASSUME TypeInv, group, NEW w \in Workers, WorkerNext(w), UNCHANGED <<reqPc, reqAsset>>
  PROVE  Bounded
<1>0. /\ faults' \in {faults, faults + 1}
      /\ \A a \in Assets : job'[a] = "processing" => job[a] = "processing"
  BY WorkerForgetsNothing
<1>1. CASE faults' = faults
  <2>1. ASSUME NEW a \in Assets, a \in Stranded', a \notin Stranded PROVE FALSE
    <3>1. job'[a] = "processing" /\ ~ OnItsWay(a)' /\ OnItsWay(a)
      BY <1>0, <2>1 DEF Stranded
    <3> QED BY <1>1, <3>1, WorkerCarries
  <2>2. Stranded' \subseteq Stranded
    BY <2>1 DEF Stranded
  <2> QED BY <1>1, <2>2 DEF Bounded
<1>2. CASE faults' = faults + 1
  <2>1. ASSUME NEW a \in Stranded' PROVE a \in Stranded \cup {Touched(w)}
    <3>1. a \in Assets
      BY <2>1 DEF Stranded
    <3> QED BY <1>0, <2>1, <3>1, WorkerSpares
  <2>2. Stranded' \subseteq Stranded \cup {Touched(w)}
    BY <2>1
  <2> QED BY <1>2, <2>2 DEF Bounded
<1> QED BY <1>0, <1>1, <1>2

(* One more element adds at most one to the size of a set. *)
LEMMA OneMore ==
  ASSUME NEW S, NEW T, NEW x, IsFiniteSet(S), T \subseteq S \cup {x}
  PROVE  IsFiniteSet(T) /\ Cardinality(T) <= Cardinality(S) + 1
<1>1. Cardinality(S) \in Nat
  BY FS_CardinalityType
<1>2. /\ IsFiniteSet(S \cup {x})
      /\ \/ Cardinality(S \cup {x}) = Cardinality(S)
         \/ Cardinality(S \cup {x}) = Cardinality(S) + 1
  BY FS_AddElement
<1>3. IsFiniteSet(T) /\ Cardinality(T) <= Cardinality(S \cup {x})
  BY <1>2, FS_Subset
<1>4. Cardinality(T) \in Nat /\ Cardinality(S \cup {x}) \in Nat
  BY <1>2, <1>3, FS_CardinalityType
<1> QED BY <1>1, <1>2, <1>3, <1>4

(* The number of stranded jobs keeps within that of the faults. *)
LEMMA StrandedCount ==
  ASSUME faults \in Nat, IsFiniteSet(Stranded), Cardinality(Stranded) <= faults, Bounded
  PROVE  IsFiniteSet(Stranded') /\ Cardinality(Stranded') <= faults'
<1>1. Cardinality(Stranded) \in Nat
  BY FS_CardinalityType
<1>2. CASE faults' = faults /\ Stranded' \subseteq Stranded
  <2>1. IsFiniteSet(Stranded') /\ Cardinality(Stranded') <= Cardinality(Stranded)
    BY <1>2, FS_Subset
  <2>2. Cardinality(Stranded') \in Nat
    BY <2>1, FS_CardinalityType
  <2> QED BY <1>1, <1>2, <2>1, <2>2
<1>3. ASSUME faults' = faults + 1, NEW x, Stranded' \subseteq Stranded \cup {x}
      PROVE  IsFiniteSet(Stranded') /\ Cardinality(Stranded') <= faults'
  <2>1. IsFiniteSet(Stranded') /\ Cardinality(Stranded') <= Cardinality(Stranded) + 1
    BY <1>3, OneMore
  <2>2. Cardinality(Stranded') \in Nat
    BY <2>1, FS_CardinalityType
  <2> QED BY <1>1, <1>3, <2>1, <2>2
<1> QED BY <1>2, <1>3 DEF Bounded

(* What is kept until the stream is full: the group exists throughout if it   *)
(* does at the start.                                                         *)
CarryInv == (GroupExists => group) /\ StrandedByFaults

LEMMA CarryStep == TypeInv /\ BelowLimit /\ CarryInv /\ [Next]_vars => CarryInv'
<1> SUFFICES ASSUME TypeInv, BelowLimit, CarryInv, [Next]_vars, GroupExists
             PROVE  group' /\ IsFiniteSet(Stranded') /\ Cardinality(Stranded') <= faults'
  BY DEF CarryInv, StrandedByFaults
<1>1. group /\ IsFiniteSet(Stranded) /\ Cardinality(Stranded) <= faults /\ faults \in Nat
  BY FaultAssumption DEF CarryInv, StrandedByFaults, TypeInv, TypeOK, StoreTypeOK
<1>2. SUFFICES group' /\ Bounded
  BY <1>1, StrandedCount
<1>3. ASSUME ClientNext \/ \E r \in Requests : ApiNext(r), UNCHANGED <<workerVars, published>>
      PROVE  group' /\ Bounded
  BY <1>1, <1>3, ApiForgetsNothing, ApiStrands
<1>4. ASSUME NEW w \in Workers, WorkerNext(w), UNCHANGED <<apiVars, published>>
      PROVE  group' /\ Bounded
  BY <1>1, <1>4, WorkerForgetsNothing, WorkerStrands
<1>5. ASSUME UNCHANGED <<job, group, faults, reqPc, reqAsset, pc, cur>>,
             \A a \in Assets : Queued(stream, a) => Queued(stream', a)
      PROVE  group' /\ Bounded
  <2>1. ASSUME NEW a \in Stranded' PROVE a \in Stranded
    BY <1>5, <2>1 DEF Stranded, OnItsWay, Queued
  <2> QED BY <1>1, <1>5, <2>1 DEF Bounded
<1>6. ASSUME NEW m \in Foreign, Publish(m) PROVE group' /\ Bounded
  <2>1. m \in Message /\ stream \in Seq(Message) /\ Xadd(m)
    BY <1>6, ForeignAssumption DEF Publish, TypeInv, TypeOK, StoreTypeOK
  <2> QED BY <1>1, <1>5, <1>6, <2>1, XaddQueues DEF Publish
<1>7. ASSUME NEW a \in Assets, Age(a), UNCHANGED <<apiVars, workerVars, published>>
      PROVE  group' /\ Bounded
  BY <1>5, <1>7 DEF Age
<1>8. CASE UNCHANGED vars
  BY <1>5, <1>8 DEF vars
<1> QED BY <1>3, <1>4, <1>6, <1>7, <1>8 DEF Next

(* With the group in place and below MAXLEN, every fault strands at most one  *)
(* committed job, and nothing else strands any, for every number of requests, *)
(* workers, messages and faults: handlers, sweeps, retries and foreign        *)
(* producers never drop the message of a job nobody has claimed.              *)
THEOREM StrandedByFaultsHolds == Spec /\ []BelowLimit => []StrandedByFaults
<1>1. Init => CarryInv
  <2> SUFFICES ASSUME Init PROVE CarryInv
    OBVIOUS
  <2>1. Stranded = {} /\ faults = 0 /\ group = GroupExists
    BY DEF Init, StoreInit, Stranded
  <2> QED BY <2>1, FS_EmptySet DEF CarryInv, StrandedByFaults
<1>2. TypeInv /\ BelowLimit /\ CarryInv /\ [Next]_vars => CarryInv'
  BY CarryStep
<1>3. CarryInv => StrandedByFaults
  BY DEF CarryInv
<1> QED BY <1>1, <1>2, <1>3, JobInvariant, PTL DEF Spec
=============================================================================
