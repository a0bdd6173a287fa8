--------------------------- MODULE PipelineProofs ---------------------------
(***************************************************************************)
(* Proofs of the safety properties of Pipeline, for any sets of assets,    *)
(* requests and workers, any schema, and any number of faults.             *)
(***************************************************************************)
EXTENDS Pipeline, TLAPS

USE DEF storeVars, dbVars, storageVars, redisVars, apiVars, workerVars

-----------------------------------------------------------------------------
(* Types *)

(* The sweep's XADD keeps the stream a sequence of messages. *)
LEMMA XaddType ==
  ASSUME NEW m \in Message, stream \in Seq(Message), Xadd(m)
  PROVE  stream' \in Seq(Message)
BY DEF Xadd

(* So does the XADD of the API, which may drop some of the oldest. *)
LEMMA XaddMaxLenType ==
  ASSUME NEW m \in Message, stream \in Seq(Message), XaddMaxLen(m)
  PROVE  stream' \in Seq(Message)
<1> DEFINE s == Append(stream, m)
<1>1. s \in Seq(Message)
  OBVIOUS
<1>2. CASE ~group
  BY <1>2 DEF XaddMaxLen
<1>3. CASE group
  <2>1. PICK k \in 0 .. Excess(s) : stream' = SubSeq(s, k + 1, Len(s))
    BY <1>3 DEF XaddMaxLen
  <2>2. k + 1 \in Nat \ {0} /\ Len(s) \in Nat
    BY <1>1, <2>1, StreamAssumption DEF Excess
  <2> QED BY <1>1, <2>1, <2>2
<1> QED BY <1>2, <1>3

(* What the API and the sweep enqueue is a message. *)
LEMMA JobMessageType == \A a \in Assets : JobMessage(a) \in Message
BY DEF JobMessage, Message

(* One of the faults happens, or none. *)
Faulted == NoFault \/ Fault("crash") \/ Fault("db") \/ Fault("redis") \/ Fault("storage")

(* The counter of faults stays within its bound, whatever fails. *)
LEMMA FaultsType ==
  ASSUME faults \in 0 .. MaxFaults, Faulted
  PROVE  faults' \in 0 .. MaxFaults
BY FaultAssumption DEF Faulted, NoFault, Fault

(* The control steps of a worker that holds a message keep the types of its   *)
(* variables.                                                                 *)
LEMMA ControlType ==
  ASSUME WorkerTypeOK, WorkersInHand, NEW w \in Workers, pc[w] \in Busy,
         \/ Return(w) \/ Die(w) \/ NextVariant(w)
         \/ \E kind \in {"permanent", "retryable"} : Raise(w, kind)
         \/ \E to \in WorkerPc : Step(w, to)
  PROVE  WorkerTypeOK' /\ WorkersInHand'
<1> USE DEF WorkerTypeOK, WorkersInHand, Goto
<1>1. CASE Return(w)
  BY <1>1, RetryAssumption DEF Return, WorkerPc, Busy
<1>2. CASE Die(w)
  BY <1>2, RetryAssumption DEF Die, WorkerPc, Busy
<1>3. CASE NextVariant(w)
  BY <1>3 DEF NextVariant, WorkerPc, Busy
<1>4. ASSUME NEW kind \in {"permanent", "retryable"}, Raise(w, kind)
      PROVE  WorkerTypeOK' /\ WorkersInHand'
  BY <1>4 DEF Raise, WorkerPc, Busy
<1>5. ASSUME NEW to \in WorkerPc, Step(w, to)
      PROVE  WorkerTypeOK' /\ WorkersInHand'
  BY <1>5 DEF Step, Busy
<1> QED BY <1>1, <1>2, <1>3, <1>4, <1>5

(* Polling, recovery and restarts keep the types. *)
LEMMA PollingType ==
  ASSUME StoreTypeOK, WorkerTypeOK, WorkersInHand, NEW w \in Workers,
         \/ Start(w) \/ Elapse(w) \/ Recover(w) \/ Requeue(w)
         \/ Read(w) \/ ReadNothing(w) \/ ReadFails(w) \/ Crash(w)
  PROVE  StoreTypeOK' /\ WorkerTypeOK' /\ WorkersInHand'
<1> USE RetryAssumption
<1>a. ASSUME Return(w)
      PROVE  WorkerTypeOK' /\ WorkersInHand'
  BY <1>a DEF Return, Goto, WorkerTypeOK, WorkersInHand, WorkerPc, Busy
<1>b. ASSUME Die(w)
      PROVE  WorkerTypeOK' /\ WorkersInHand'
  BY <1>b DEF Die, Goto, WorkerTypeOK, WorkersInHand, WorkerPc, Busy
<1>c. ASSUME NEW d \in SUBSET Workers, Escape(w, d)
      PROVE  WorkerTypeOK' /\ WorkersInHand'
  <2>1. CASE w \in booting
    BY <1>b, <1>c, <2>1 DEF Escape
  <2>2. CASE w \notin booting
    BY <1>c, <2>2 DEF Escape, Goto, WorkerTypeOK, WorkersInHand, WorkerPc, Busy
  <2> QED BY <2>1, <2>2
<1>1. CASE Start(w)
  BY <1>1 DEF Start, Goto, StoreTypeOK, WorkerTypeOK, WorkersInHand, WorkerPc, Busy
<1>2. CASE Elapse(w)
  BY <1>2 DEF Elapse, StoreTypeOK, WorkerTypeOK, WorkersInHand
<1>3. CASE Recover(w)
  <2>1. faults' \in 0 .. MaxFaults
    BY <1>3, FaultsType DEF Faulted, Recover, StoreTypeOK
  <2>2. StoreTypeOK'
    BY <1>3, <2>1 DEF Recover, StoreTypeOK
  <2>3. due \ {w} \in SUBSET Workers /\ Stuck \in SUBSET Assets
    BY DEF WorkerTypeOK, Stuck
  <2>4. CASE Goto(w, "requeue") /\ due' = due \ {w} /\ scan' = [scan EXCEPT ![w] = Stuck]
             /\ UNCHANGED <<cur, booting, nxt, exc, seen>>
    <3>1. pc' \in [Workers -> WorkerPc] /\ WorkersInHand'
      BY <2>4 DEF Goto, WorkerTypeOK, WorkersInHand, WorkerPc, Busy
    <3>2. scan' \in [Workers -> SUBSET Assets]
      BY <2>3, <2>4 DEF WorkerTypeOK
    <3> QED BY <2>2, <2>3, <2>4, <3>1, <3>2 DEF WorkerTypeOK
  <2> QED BY <1>3, <1>c, <2>2, <2>3, <2>4 DEF Recover
<1>4. CASE Requeue(w)
  <2>1. PICK a \in scan[w] :
          \/ /\ NoFault
             /\ Xadd(JobMessage(a))
             /\ scan' = [scan EXCEPT ![w] = @ \ {a}]
             /\ UNCHANGED <<pc, cur, due, booting, nxt, exc, seen>>
          \/ /\ Fault("redis")
             /\ Xadd(JobMessage(a)) \/ UNCHANGED stream
             /\ Escape(w, due)
    BY <1>4 DEF Requeue
  <2>2. a \in Assets
    BY DEF WorkerTypeOK
  <2>3. faults' \in 0 .. MaxFaults
    BY <2>1, FaultsType DEF Faulted, StoreTypeOK
  <2>4. stream' \in Seq(Message)
    BY <2>1, <2>2, XaddType, JobMessageType DEF StoreTypeOK
  <2>5. StoreTypeOK'
    BY <1>4, <2>3, <2>4 DEF Requeue, StoreTypeOK
  <2>6. CASE scan' = [scan EXCEPT ![w] = @ \ {a}] /\ UNCHANGED <<pc, cur, due, booting, nxt, exc, seen>>
    <3>1. scan' \in [Workers -> SUBSET Assets]
      BY <2>6 DEF WorkerTypeOK
    <3> QED BY <2>5, <2>6, <3>1 DEF WorkerTypeOK, WorkersInHand
  <2> QED BY <2>1, <2>5, <2>6, <1>c DEF WorkerTypeOK
<1>5. CASE Read(w)
  <2>1. Head(stream) \in Message /\ Tail(stream) \in Seq(Message)
    BY <1>5 DEF Read, StoreTypeOK
  <2>2. StoreTypeOK'
    BY <1>5, <2>1 DEF Read, StoreTypeOK
  <2>3. CASE Deliver(w, Head(stream))
    <3>1. Head(stream).asset \in Assets
      BY <2>1 DEF Message
    <3>2. pc' \in [Workers -> WorkerPc] /\ cur' \in [Workers -> Assets \cup {NoAsset}]
      BY <2>3, <3>1 DEF Deliver, Goto, WorkerTypeOK, WorkerPc
    <3>3. WorkersInHand'
      BY <2>3, <3>1 DEF Deliver, Goto, WorkerTypeOK, WorkersInHand
    <3> QED BY <2>2, <2>3, <3>2, <3>3 DEF Deliver, WorkerTypeOK
  <2> QED BY <1>5, <1>a, <2>2, <2>3 DEF Read
<1>6. CASE ReadNothing(w)
  BY <1>6, <1>a DEF ReadNothing, StoreTypeOK
<1>7. CASE ReadFails(w)
  <2>1. faults' \in 0 .. MaxFaults
    BY <1>7, FaultsType DEF Faulted, ReadFails, StoreTypeOK
  <2>2. stream' \in Seq(Message)
    <3>1. ASSUME stream # <<>>
          PROVE  Tail(stream) \in Seq(Message)
      BY <3>1 DEF StoreTypeOK
    <3> QED BY <1>7, <3>1 DEF ReadFails, StoreTypeOK
  <2> QED BY <1>7, <1>c, <2>1, <2>2 DEF ReadFails, StoreTypeOK, WorkerTypeOK
<1>8. CASE Crash(w)
  <2>1. faults' \in 0 .. MaxFaults
    BY <1>8, FaultsType DEF Faulted, Crash, StoreTypeOK
  <2> QED BY <1>8, <1>b, <2>1 DEF Crash, StoreTypeOK
<1> QED BY <1>1, <1>2, <1>3, <1>4, <1>5, <1>6, <1>7, <1>8

(* The message handlers and process_asset_dispatch keep the types. *)
LEMMA HandlerType ==
  ASSUME StoreTypeOK, WorkerTypeOK, WorkersInHand, NEW w \in Workers,
         \/ EnsureJob(w) \/ Claim(w) \/ Load(w) \/ MarkProcessing(w) \/ Prepare(w)
         \/ MakeVariant(w) \/ InsertVariant(w) \/ LinkVariant(w) \/ MarkReady(w)
         \/ VideoFail(w) \/ FailRead(w) \/ FailWrite(w) \/ Finish(w)
  PROVE  StoreTypeOK' /\ WorkerTypeOK' /\ WorkersInHand'
<1>1. pc[w] \in Busy /\ cur[w] \in Assets
  BY DEF EnsureJob, Claim, Load, MarkProcessing, Prepare, CloneRaises, MakeVariant, InsertVariant,
         LinkVariant, MarkReady, VideoFail, FailRead, FailWrite, Finish, Busy, WorkerPc,
         WorkersInHand
<1>2. faults' \in 0 .. MaxFaults
  <2>1. Faulted
    BY DEF EnsureJob, Claim, Load, MarkProcessing, Prepare, CloneRaises, MakeVariant, InsertVariant,
           LinkVariant, MarkReady, VideoFail, FailRead, FailWrite, Finish, Faulted
  <2> QED BY <2>1, FaultsType DEF StoreTypeOK
<1>3. ASSUME \/ Return(w) \/ Step(w, "claim") \/ Step(w, "load") \/ Step(w, "finish")
             \/ Step(w, "mark") \/ Step(w, "prepare") \/ Step(w, "generate")
             \/ Step(w, "insert") \/ Step(w, "link") \/ Step(w, "videofail")
             \/ NextVariant(w) \/ Raise(w, "permanent") \/ Raise(w, "retryable")
      PROVE  WorkerTypeOK' /\ WorkersInHand'
  BY <1>1, <1>3, ControlType DEF WorkerPc
<1>4. CASE EnsureJob(w)
  <2>1. WorkerTypeOK' /\ WorkersInHand'
    BY <1>4, <1>3 DEF EnsureJob, Abandon
  <2>2. StoreTypeOK'
    BY <1>4, <1>1, <1>2 DEF EnsureJob, InsertJob, StoreTypeOK, SetJob, JobStatus
  <2> QED BY <2>1, <2>2
<1>5. CASE Claim(w)
  <2>1. WorkerTypeOK' /\ WorkersInHand'
    BY <1>5, <1>3 DEF Claim, Abandon
  <2>2. attempts' \in [Assets -> 0 .. MaxRetries]
    <3>1. \A n \in 0 .. MaxRetries : CountAttempt(n) \in 0 .. MaxRetries
      BY RetryAssumption DEF CountAttempt
    <3>2. attempts[cur[w]] \in 0 .. MaxRetries
      BY <1>1 DEF StoreTypeOK
    <3>3. attempts' \in {attempts, [attempts EXCEPT ![cur[w]] = CountAttempt(@)]}
      BY <1>5 DEF Claim, ClaimRow
    <3> QED BY <3>1, <3>2, <3>3 DEF StoreTypeOK
  <2>3. job' \in [Assets -> JobStatus] /\ stale' \subseteq Assets
    BY <1>5, <1>1 DEF Claim, ClaimRow, SetJob, StoreTypeOK, JobStatus
  <2>4. StoreTypeOK'
    BY <1>5, <1>2, <2>2, <2>3 DEF Claim, StoreTypeOK
  <2> QED BY <2>1, <2>4
<1>6. CASE Load(w)
  <2>1. WorkerTypeOK' /\ WorkersInHand'
    BY <1>6, <1>3 DEF Load
  <2>2. StoreTypeOK'
    BY <1>6, <1>1, <1>2 DEF Load, StoreTypeOK
  <2> QED BY <2>1, <2>2
<1>7. CASE MarkProcessing(w)
  <2>1. WorkerTypeOK' /\ WorkersInHand'
    BY <1>7, <1>3 DEF MarkProcessing
  <2>2. StoreTypeOK'
    BY <1>7, <1>1, <1>2 DEF MarkProcessing, StoreTypeOK, SetAsset, AssetStatus
  <2> QED BY <2>1, <2>2
<1>8. CASE Prepare(w)
  <2>1. WorkerTypeOK' /\ WorkersInHand'
    BY <1>8, <1>3 DEF Prepare, CloneRaises
  <2>2. StoreTypeOK'
    BY <1>8, <1>1, <1>2 DEF Prepare, CloneRaises, StoreTypeOK
  <2> QED BY <2>1, <2>2
<1>9. CASE MakeVariant(w)
  <2>1. WorkerTypeOK' /\ WorkersInHand'
    BY <1>9, <1>3 DEF MakeVariant, VariantFails
  <2>2. StoreTypeOK'
    BY <1>9, <1>1, <1>2 DEF MakeVariant, StoreTypeOK
  <2> QED BY <2>1, <2>2
<1>10. CASE InsertVariant(w)
  <2>1. WorkerTypeOK' /\ WorkersInHand'
    BY <1>10, <1>3 DEF InsertVariant, VariantFails
  <2>2. StoreTypeOK'
    BY <1>10, <1>1, <1>2 DEF InsertVariant, StoreTypeOK
  <2> QED BY <2>1, <2>2
<1>11. CASE LinkVariant(w)
  <2>1. WorkerTypeOK' /\ WorkersInHand'
    BY <1>11, <1>3 DEF LinkVariant, VariantFails
  <2>2. StoreTypeOK'
    BY <1>11, <1>1, <1>2 DEF LinkVariant, StoreTypeOK
  <2> QED BY <2>1, <2>2
<1>12. CASE MarkReady(w)
  <2>1. WorkerTypeOK' /\ WorkersInHand'
    BY <1>12, <1>3 DEF MarkReady
  <2>2. StoreTypeOK'
    BY <1>12, <1>1, <1>2 DEF MarkReady, StoreTypeOK, SetAsset, AssetStatus
  <2> QED BY <2>1, <2>2
<1>13. CASE VideoFail(w)
  <2>1. WorkerTypeOK' /\ WorkersInHand'
    BY <1>13, <1>3 DEF VideoFail
  <2>2. StoreTypeOK'
    BY <1>13, <1>1, <1>2 DEF VideoFail, StoreTypeOK, SetAsset, AssetStatus
  <2> QED BY <2>1, <2>2
<1>14. CASE FailRead(w)
  <2>1. WorkerTypeOK' /\ WorkersInHand'
    <3>1. CASE /\ seen' = [seen EXCEPT ![w] = attempts[cur[w]]]
               /\ Goto(w, "fail")
               /\ UNCHANGED <<cur, due, booting, scan, nxt, exc>>
      BY <1>1, <3>1 DEF Goto, StoreTypeOK, WorkerTypeOK, WorkersInHand, WorkerPc, Busy
    <3> QED BY <1>14, <1>3, <3>1 DEF FailRead, Abandon
  <2>2. StoreTypeOK'
    BY <1>14, <1>1, <1>2 DEF FailRead, StoreTypeOK
  <2> QED BY <2>1, <2>2
<1>15. CASE FailWrite(w)
  <2>1. WorkerTypeOK' /\ WorkersInHand'
    BY <1>15, <1>3 DEF FailWrite
  <2>2. StoreTypeOK'
    BY <1>15, <1>1, <1>2 DEF FailWrite, StoreTypeOK, RecordFailure, SetJob, SetAsset, AssetStatus, JobStatus
  <2> QED BY <2>1, <2>2
<1>16. CASE Finish(w)
  <2>1. WorkerTypeOK' /\ WorkersInHand'
    BY <1>16, <1>3 DEF Finish
  <2>2. StoreTypeOK'
    BY <1>16, <1>1, <1>2 DEF Finish, StoreTypeOK, RecordSuccess, SetJob, SetAsset, AssetStatus, JobStatus
  <2> QED BY <2>1, <2>2
<1> QED BY <1>4, <1>5, <1>6, <1>7, <1>8, <1>9, <1>10, <1>11, <1>12, <1>13, <1>14, <1>15, <1>16

(* A step of one worker leaves the local variables of the others alone. *)
LEMMA OtherWorkers ==
  ASSUME WorkerTypeOK, NEW w \in Workers, WorkerNext(w), NEW v \in Workers, v # w
  PROVE  /\ pc'[v] = pc[v] /\ cur'[v] = cur[v] /\ scan'[v] = scan[v]
         /\ nxt'[v] = nxt[v] /\ exc'[v] = exc[v] /\ seen'[v] = seen[v]
<1> USE DEF WorkerTypeOK, Goto
<1> DEFINE Same == /\ pc'[v] = pc[v] /\ cur'[v] = cur[v] /\ scan'[v] = scan[v]
                   /\ nxt'[v] = nxt[v] /\ exc'[v] = exc[v] /\ seen'[v] = seen[v]
<1> SUFFICES Same
  OBVIOUS
<1>1. ASSUME Return(w) \/ Die(w) \/ NextVariant(w) PROVE Same
  BY <1>1 DEF Return, Die, NextVariant
<1>2. ASSUME NEW to, Step(w, to) \/ Raise(w, to) PROVE Same
  BY <1>2 DEF Step, Raise
<1>3. ASSUME NEW d, Escape(w, d) PROVE Same
  BY <1>1, <1>3 DEF Escape
<1>4. ASSUME NEW m, Deliver(w, m) PROVE Same
  BY <1>4 DEF Deliver
<1> HIDE DEF Same
<1>5. CASE Start(w) \/ Elapse(w)
  BY <1>5 DEF Start, Elapse, Same
<1>6. CASE Recover(w)
  <2>1. CASE Goto(w, "requeue") /\ scan' = [scan EXCEPT ![w] = Stuck]
             /\ UNCHANGED <<cur, booting, nxt, exc, seen>>
    BY <2>1 DEF Same
  <2> QED BY <1>3, <1>6, <2>1 DEF Recover
<1>7. CASE Requeue(w)
  <2>1. PICK a \in scan[w] :
          \/ scan' = [scan EXCEPT ![w] = @ \ {a}] /\ UNCHANGED <<pc, cur, nxt, exc, seen>>
          \/ Escape(w, due)
    BY <1>7 DEF Requeue
  <2>2. CASE scan' = [scan EXCEPT ![w] = @ \ {a}] /\ UNCHANGED <<pc, cur, nxt, exc, seen>>
    BY <2>2 DEF Same
  <2> QED BY <1>3, <2>1, <2>2
<1>8. CASE Read(w) \/ ReadNothing(w) \/ ReadFails(w) \/ Crash(w)
  BY <1>1, <1>3, <1>4, <1>8 DEF Read, ReadNothing, ReadFails, Crash
<1>9. CASE EnsureJob(w) \/ Claim(w) \/ Load(w) \/ MarkProcessing(w) \/ Prepare(w)
  BY <1>1, <1>2, <1>9 DEF EnsureJob, Claim, Load, MarkProcessing, Prepare, CloneRaises, Abandon
<1>10. CASE MakeVariant(w) \/ InsertVariant(w) \/ LinkVariant(w) \/ MarkReady(w) \/ VideoFail(w)
  BY <1>1, <1>2, <1>10 DEF MakeVariant, InsertVariant, LinkVariant, MarkReady, VideoFail, VariantFails
<1>11. CASE FailRead(w)
  <2>1. CASE seen' = [seen EXCEPT ![w] = attempts[cur[w]]] /\ Goto(w, "fail")
             /\ UNCHANGED <<cur, due, booting, scan, nxt, exc>>
    BY <2>1 DEF Same
  <2> QED BY <1>1, <1>11, <2>1 DEF FailRead, Abandon
<1>12. CASE FailWrite(w) \/ Finish(w)
  BY <1>1, <1>12 DEF FailWrite, Finish
<1> QED
  BY <1>5, <1>6, <1>7, <1>8, <1>9, <1>10, <1>11, <1>12 DEF WorkerNext, WorkerStep

(* The API keeps the types of the request variables and of the store. *)
LEMMA ApiType ==
  ASSUME StoreTypeOK, ApiTypeOK, RequestsInHand, NEW r \in Requests, ApiNext(r)
  PROVE  StoreTypeOK' /\ ApiTypeOK' /\ RequestsInHand'
<1> USE DEF ApiTypeOK, RequestsInHand, RequestPc, Answer
<1>1. CASE StatObject(r)
  <2>1. faults' \in 0 .. MaxFaults
    BY <1>1, FaultsType DEF Faulted, StatObject, StoreTypeOK
  <2> QED BY <1>1, <2>1 DEF StatObject, StoreTypeOK
<1>2. CASE MarkUploadedTx(r)
  <2>1. faults' \in 0 .. MaxFaults
    BY <1>2, FaultsType DEF Faulted, MarkUploadedTx, StoreTypeOK
  <2>2. StoreTypeOK'
    BY <1>2, <2>1 DEF MarkUploadedTx, ApplyUploaded, StoreTypeOK, AssetStatus, JobStatus
  <2> QED BY <1>2, <2>2 DEF MarkUploadedTx
<1>3. CASE Enqueue(r)
  <2>1. faults' \in 0 .. MaxFaults
    BY <1>3, FaultsType DEF Faulted, Enqueue, StoreTypeOK
  <2>2. stream' \in Seq(Message)
    BY <1>3, XaddMaxLenType, JobMessageType DEF Enqueue, StoreTypeOK
  <2>3. StoreTypeOK'
    BY <1>3, <2>1, <2>2 DEF Enqueue, StoreTypeOK
  <2>4. tries' \in [Requests -> 0 .. MaxEnqueue]
    BY <1>3, EnqueueAssumption DEF Enqueue
  <2> QED BY <1>3, <2>3, <2>4 DEF Enqueue
<1>4. CASE ApiCrash(r)
  <2>1. faults' \in 0 .. MaxFaults
    BY <1>4, FaultsType DEF Faulted, ApiCrash, StoreTypeOK
  <2> QED BY <1>4, <2>1 DEF ApiCrash, StoreTypeOK
<1> QED BY <1>1, <1>2, <1>3, <1>4 DEF ApiNext, RequestStep

(* Creating, uploading and completing an asset keeps the types. *)
LEMMA ClientType ==
  ASSUME StoreTypeOK, ApiTypeOK, RequestsInHand, ClientNext
  PROVE  StoreTypeOK' /\ ApiTypeOK' /\ RequestsInHand'
<1> USE DEF StoreTypeOK, ApiTypeOK, RequestsInHand
<1>1. ASSUME NEW a \in Assets, CreateAsset(a)
      PROVE  StoreTypeOK' /\ ApiTypeOK' /\ RequestsInHand'
  BY <1>1 DEF CreateAsset, InsertAsset, AssetStatus
<1>2. ASSUME NEW a \in Assets, ClientPut(a)
      PROVE  StoreTypeOK' /\ ApiTypeOK' /\ RequestsInHand'
  BY <1>2 DEF ClientPut
<1>3. ASSUME NEW r \in Requests, NEW a \in Assets, CompleteRequest(r, a)
      PROVE  StoreTypeOK' /\ ApiTypeOK' /\ RequestsInHand'
  BY <1>3 DEF CompleteRequest, Answer, RequestPc
<1> QED BY <1>1, <1>2, <1>3 DEF ClientNext

(* Every step keeps the types. *)
LEMMA TypeStep == TypeInv /\ [Next]_vars => TypeInv'
<1> SUFFICES ASSUME TypeInv, [Next]_vars PROVE TypeInv'
  OBVIOUS
<1> USE DEF TypeInv, TypeOK
<1>1. ASSUME ClientNext \/ \E r \in Requests : ApiNext(r), UNCHANGED <<workerVars, published>>
      PROVE  TypeInv'
  <2>1. StoreTypeOK' /\ ApiTypeOK' /\ RequestsInHand'
    BY <1>1, ClientType, ApiType
  <2> QED BY <1>1, <2>1 DEF WorkerTypeOK, WorkersInHand
<1>2. ASSUME NEW w \in Workers, WorkerNext(w), UNCHANGED <<apiVars, published>>
      PROVE  TypeInv'
  <2>1. StoreTypeOK' /\ WorkerTypeOK' /\ WorkersInHand'
    BY <1>2, PollingType, HandlerType DEF WorkerNext, WorkerStep
  <2> QED BY <1>2, <2>1 DEF ApiTypeOK, RequestsInHand
<1>3. ASSUME NEW a \in Assets, Age(a), UNCHANGED <<apiVars, workerVars, published>>
      PROVE  TypeInv'
  BY <1>3 DEF Age, StoreTypeOK, ApiTypeOK, WorkerTypeOK, RequestsInHand, WorkersInHand
<1>4. ASSUME NEW m \in Foreign, Publish(m)
      PROVE  TypeInv'
  <2>1. stream' \in Seq(Message)
    BY <1>4, XaddType, ForeignAssumption DEF Publish, StoreTypeOK
  <2> QED BY <1>4, <2>1
        DEF Publish, StoreTypeOK, ApiTypeOK, WorkerTypeOK, RequestsInHand, WorkersInHand
<1>5. CASE UNCHANGED vars
  BY <1>5 DEF vars, StoreTypeOK, ApiTypeOK, WorkerTypeOK, RequestsInHand, WorkersInHand
<1> QED BY <1>1, <1>2, <1>3, <1>4, <1>5 DEF Next

(* The types hold at the start. *)
LEMMA TypeInit == Init => TypeInv
BY EnqueueAssumption, FaultAssumption, RetryAssumption, StreamAssumption
   DEF Init, StoreInit, ApiInit, ConsumerInit, TypeInv, TypeOK, StoreTypeOK, ApiTypeOK,
       WorkerTypeOK, RequestsInHand, WorkersInHand, AssetStatus, JobStatus, RequestPc,
       WorkerPc, Busy

(* Every variable of the pipeline keeps its type, for any number of assets,   *)
(* requests, workers and faults.                                              *)
THEOREM TypeCorrect == Spec => []TypeOK
<1>1. Spec => []TypeInv
  BY TypeInit, TypeStep, PTL DEF Spec
<1> QED BY <1>1, PTL DEF TypeInv
=============================================================================
