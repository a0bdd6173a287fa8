------------------------------- MODULE TxRetry -------------------------------
(***************************************************************************)
(* ExecTransaction of the asset repository: a callback is run in a         *)
(* database transaction and run again, after a pause, when the database    *)
(* reports a conflict.  The repository has no caller of it yet, so its     *)
(* arguments are left open: maxAttempts is any member of Limits, and the   *)
(* context may end at any time.                                            *)
(*                                                                         *)
(* Errors are abstracted to what shouldRetry tells apart and to what they  *)
(* mean.  "conflict" is a serialization failure or a deadlock: the server  *)
(* has rolled back.  "context" is a cancelled or expired context.  "other" *)
(* is anything else, a lost connection included: if it hits COMMIT, the    *)
(* transaction may have been applied.  "lookalike" is such an error whose  *)
(* text happens to contain one of the markers, "40001" or "1213" in a port *)
(* number for one: shouldRetry looks for substrings and takes it for a     *)
(* conflict.                                                               *)
(***************************************************************************)
EXTENDS Integers

CONSTANT Limits   \* the values of maxAttempts

ASSUME LimitsAssumption == Limits \subseteq Int

VARIABLES
  maxAttempts,  \* the argument, after its normalisation
  attempt,      \* the loop counter
  at,           \* where the call is
  ended,        \* the context is cancelled or past its deadline
  open,         \* a transaction is open
  applied,      \* how many transactions have been applied
  lookalikes,   \* how many commits have failed with a lookalike
  result        \* "none" until the call returns: "nil" or "error"; or "panic"

vars == <<maxAttempts, attempt, at, ended, open, applied, lookalikes, result>>

(* A mutant: the argument is used as it comes. *)
AsGiven(n) == n

Normalise(n) == IF n <= 0 THEN 1 ELSE n

Init ==
  /\ \E n \in Limits : maxAttempts = Normalise(n)
  /\ attempt = 1
  /\ at = "loop"
  /\ ended = FALSE
  /\ open = FALSE
  /\ applied = 0
  /\ lookalikes = 0
  /\ result = "none"

Errors == {"conflict", "context", "other", "lookalike"}

(* A mutant: every error but a dead context is worth another attempt. *)
RetryAnything(err) == err # "context"

(* A marker in the text of the error, wherever it comes from. *)
ShouldRetry(err) == err \in {"conflict", "lookalike"}

Finish(r) == at' = "returned" /\ result' = r

(* Retry if the error and the counter allow it, else return the error.  Begin *)
(* does not ask for a live context; the others do.                            *)
RetryOr(err, live) ==
  IF ShouldRetry(err) /\ attempt < maxAttempts /\ live
  THEN at' = "pause" /\ UNCHANGED result
  ELSE Finish("error")

(* The head of the loop respects the context. *)
Loop ==
  /\ at = "loop"
  /\ IF ended THEN Finish("error") ELSE at' = "begin" /\ UNCHANGED result
  /\ UNCHANGED <<maxAttempts, attempt, ended, open, applied, lookalikes>>

Begin ==
  /\ at = "begin"
  /\ \/ ~ended /\ at' = "fn" /\ open' = TRUE /\ UNCHANGED result
     \/ \E err \in Errors : RetryOr(err, TRUE) /\ UNCHANGED open
  /\ UNCHANGED <<maxAttempts, attempt, ended, applied, lookalikes>>

(* A mutant: an error leaves the transaction to the garbage collector. *)
KeepOpen == UNCHANGED open

(* Rollback, after which database/sql regards the transaction as done even if *)
(* the command failed.                                                        *)
Rollback == open' = FALSE

(* The callback; a panic of it is turned into an error. *)
Callback ==
  /\ at = "fn"
  /\ \/ at' = "commit" /\ UNCHANGED <<open, result>>
     \/ \E err \in Errors : Rollback /\ RetryOr(err, ~ended)
  /\ UNCHANGED <<maxAttempts, attempt, ended, applied, lookalikes>>

(* Commit.  With a context that has ended database/sql does not send it; a    *)
(* conflict means that nothing was applied; any other error leaves it open.   *)
Commit ==
  /\ at = "commit"
  /\ Rollback
  /\ \/ ~ended /\ applied' = applied + 1 /\ Finish("nil") /\ UNCHANGED lookalikes
     \/ ended /\ RetryOr("context", ~ended) /\ UNCHANGED <<applied, lookalikes>>
     \/ ~ended /\ RetryOr("conflict", ~ended) /\ UNCHANGED <<applied, lookalikes>>
     \/ /\ ~ended /\ RetryOr("other", ~ended)
        /\ applied' \in {applied, applied + 1} /\ UNCHANGED lookalikes
     \/ /\ ~ended /\ RetryOr("lookalike", ~ended)
        /\ applied' \in {applied, applied + 1} /\ lookalikes' = lookalikes + 1
  /\ UNCHANGED <<maxAttempts, attempt, ended>>

(* A mutant: the exponential starts from a second. *)
OverflowsFromSecond(n) == n > 25 /\ (n >= 55 \/ 1953125 >= 2 ^ (55 - n))

(* 100 ms * 2^(n-1), in nanoseconds, does not fit an int64.  As 100 ms are    *)
(* 5^8 * 2^8 ns, that is 5^8 * 2^(n+7) >= 2^63.                               *)
Overflows(n) == n > 25 /\ (n >= 56 \/ 390625 >= 2 ^ (56 - n))

(* A mutant: the retry is not counted. *)
PauseUncounted ==
  /\ at = "pause"
  /\ at' = "loop"
  /\ UNCHANGED <<maxAttempts, attempt, ended, open, applied, lookalikes, result>>

(* sleepWithBackoff.  Go leaves the conversion of a float that does not fit   *)
(* to the platform: arm64 saturates and the cap applies, amd64 gives the      *)
(* smallest integer, and rand.Int63n panics on a negative bound.              *)
Pause ==
  /\ at = "pause"
  /\ \/ at' = "loop" /\ attempt' = attempt + 1 /\ UNCHANGED result
     \/ Overflows(attempt) /\ Finish("panic") /\ UNCHANGED attempt
  /\ UNCHANGED <<maxAttempts, ended, open, applied, lookalikes>>

ContextEnds ==
  /\ ~ended
  /\ result = "none"
  /\ ended' = TRUE
  /\ UNCHANGED <<maxAttempts, attempt, at, open, applied, lookalikes, result>>

Call == Loop \/ Begin \/ Callback \/ Commit \/ Pause

Next == Call \/ ContextEnds

(* The goroutine of the call keeps running: database commands and the pause   *)
(* return in bounded time.                                                    *)
Spec == Init /\ [][Next]_vars /\ WF_vars(Call)

-----------------------------------------------------------------------------
(* Every variable has its type; in particular the loop never runs past its    *)
(* limit, so the error after the loop is never reached.                       *)
TypeOK ==
  /\ maxAttempts \in Nat \ {0}
  /\ attempt \in 1 .. maxAttempts
  /\ at \in {"loop", "begin", "fn", "commit", "pause", "returned"}
  /\ ended \in BOOLEAN
  /\ open \in BOOLEAN
  /\ applied \in Nat
  /\ lookalikes \in Nat
  /\ result \in {"none", "nil", "error", "panic"}

(* The callback's effects are applied once more than COMMIT has failed with a *)
(* lookalike at the most, so at most once without one, and at least once when *)
(* the call reports success.  While the call still runs, only lookalikes have *)
(* applied anything: every other commit of unknown outcome ends the call.     *)
AppliedUnlessMistaken ==
  /\ applied <= lookalikes + (IF result = "none" THEN 0 ELSE 1)
  /\ result = "nil" => applied >= 1

(* No connection leaks: a transaction is open only while the callback and the *)
(* commit run, on every path out of the loop, a panic's included.             *)
NoOpenTransaction == open => at \in {"fn", "commit"} /\ result = "none"

(* The unchecked conversion in the backoff is out of reach up to 38 attempts. *)
PanicsBeyond38 == result = "panic" => maxAttempts > 38

(* The steps a call may still take: six for every attempt that is left, and   *)
(* those of the current one.                                                  *)
Remaining ==
  6 * (maxAttempts - attempt)
    + CASE at = "loop" -> 5 [] at = "begin" -> 4 [] at = "fn" -> 3
        [] at = "commit" -> 2 [] at = "pause" -> 1 [] at = "returned" -> 0

(* No database answer makes the call go round without using up an attempt:    *)
(* every step brings it closer to its return, but for the one in which its    *)
(* context ends, and a call that has returned does nothing more.  So it takes *)
(* fewer than 6 * maxAttempts steps.                                          *)
EveryStepCounts ==
  [][IF ended' = ended THEN Remaining' < Remaining
     ELSE ended' /\ UNCHANGED <<maxAttempts, attempt, at, result>>]_vars

(* The call returns, whatever the database answers. *)
Returns == <>(at = "returned")

(* The strengthening that makes it inductive, with NoOpenTransaction. *)
RunningUnapplied == /\ AppliedUnlessMistaken
                    /\ at = "returned" <=> result # "none"
                    /\ open <=> at \in {"fn", "commit"}
                    /\ at = "pause" => attempt < maxAttempts
=============================================================================
