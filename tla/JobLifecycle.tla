---------------------------- MODULE JobLifecycle ----------------------------
(***************************************************************************)
(* What the pipeline promises about an asset and its job, without workers, *)
(* messages or variants.  An asset and its job advance together: the job   *)
(* appears when the upload is confirmed; only a claimed job lets the asset *)
(* change; a job is done only after its asset is ready, and then nothing   *)
(* changes any more.  A failed or requeued job may be claimed again.       *)
(***************************************************************************)
CONSTANT Assets

VARIABLES asset, job

Init == /\ asset = [a \in Assets |-> "none"]
        /\ job = [a \in Assets |-> "none"]

(* Move asset and job of a to the given states. *)
Become(a, assetStatus, jobStatus) ==
  /\ asset' = [asset EXCEPT ![a] = assetStatus]
  /\ job' = [job EXCEPT ![a] = jobStatus]

Create(a) == asset[a] = "none" /\ job[a] = "none" /\ Become(a, "uploading", "none")

Confirm(a) == /\ asset[a] = "uploading"
              /\ job[a] = "none"
              /\ Become(a, "uploaded", "processing")

Claim(a) == job[a] \notin {"none", "done"} /\ Become(a, asset[a], "in_progress")

(* A claimed job moves its asset: to 'processing' unless it is ready, and     *)
(* from there to 'ready' or 'failed'.                                         *)
Work(a) ==
  /\ job[a] = "in_progress"
  /\ \/ asset[a] # "ready" /\ Become(a, "processing", "in_progress")
     \/ asset[a] = "processing" /\ \E s \in {"ready", "failed"} : Become(a, s, "in_progress")

Succeed(a) == job[a] = "in_progress" /\ asset[a] = "ready" /\ Become(a, "ready", "done")

Fail(a) == job[a] = "in_progress" /\ Become(a, "failed", "failed")

Retry(a) == /\ job[a] = "in_progress"
            /\ asset[a] = "processing"
            /\ Become(a, "processing", "pending")

Next == \E a \in Assets : \/ Create(a) \/ Confirm(a) \/ Claim(a) \/ Work(a)
                          \/ Succeed(a) \/ Fail(a) \/ Retry(a)

Spec == Init /\ [][Next]_<<asset, job>>
=============================================================================
