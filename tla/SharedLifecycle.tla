-------------------------- MODULE SharedLifecycle --------------------------
(***************************************************************************)
(* What the pipeline promises about an asset and its job when any number   *)
(* of workers may hold the same job.  JobLifecycle is out of reach then: a *)
(* worker that was overtaken writes its outcome late, over the outcome of  *)
(* the other.  What is left is this.  The job appears when the upload is   *)
(* confirmed; nobody writes an outcome before the job was claimed; a done  *)
(* job is not claimed; an asset is shown as ready, and a job as done, only *)
(* when all variants are made; and no step, a late outcome included, takes *)
(* a variant away again.                                                   *)
(***************************************************************************)
CONSTANT Assets

VARIABLES
  asset,   \* the status of each asset
  job,     \* the status of its job
  made     \* the assets whose variants are all there

Init == /\ asset = [a \in Assets |-> "none"]
        /\ job = [a \in Assets |-> "none"]
        /\ made = {}

(* Move asset and job of a to the given states. *)
Become(a, assetStatus, jobStatus) ==
  /\ asset' = [asset EXCEPT ![a] = assetStatus]
  /\ job' = [job EXCEPT ![a] = jobStatus]
  /\ UNCHANGED made

Create(a) == asset[a] = "none" /\ job[a] = "none" /\ Become(a, "uploading", "none")

Confirm(a) == /\ asset[a] = "uploading"
              /\ job[a] = "none"
              /\ Become(a, "uploaded", "processing")

Claim(a) == job[a] \notin {"none", "done"} /\ Become(a, asset[a], "in_progress")

(* A worker has claimed the job at some time, and may still hold it. *)
Claimed(a) == job[a] \notin {"none", "processing"}

(* The last variant of a is made; asset and job are written later. *)
Make(a) == /\ Claimed(a)
           /\ made' = made \cup {a}
           /\ UNCHANGED <<asset, job>>

(* The pipeline writes the status of the asset, the job's being what it is by *)
(* now.                                                                       *)
Show(a) ==
  /\ Claimed(a)
  /\ \E s \in {"processing", "ready", "failed"} :
       /\ s = "ready" => a \in made
       /\ Become(a, s, job[a])

Succeed(a) == Claimed(a) /\ a \in made /\ Become(a, "ready", "done")

Fail(a) == Claimed(a) /\ Become(a, "failed", "failed")

Retry(a) == Claimed(a) /\ Become(a, asset[a], "pending")

Next == \E a \in Assets : \/ Create(a) \/ Confirm(a) \/ Claim(a) \/ Make(a) \/ Show(a)
                          \/ Succeed(a) \/ Fail(a) \/ Retry(a)

Spec == Init /\ [][Next]_<<asset, job, made>>
=============================================================================
