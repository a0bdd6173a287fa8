---------------------------- MODULE TxRetryProofs ----------------------------
(* What ExecTransaction guarantees for every value of maxAttempts. *)
EXTENDS TxRetry, TLAPS

TxInv == TypeOK /\ RunningUnapplied

(* A fresh call has applied nothing and has nothing open. *)
LEMMA TxInit == Init => TxInv
<1> SUFFICES ASSUME Init PROVE TxInv
  OBVIOUS
<1>1. /\ maxAttempts \in Nat \ {0} /\ attempt \in 1 .. maxAttempts
      /\ applied \in Nat /\ lookalikes \in Nat
  BY LimitsAssumption, SMT DEF Init, Normalise
<1>2. AppliedUnlessMistaken
  BY SMT DEF Init, AppliedUnlessMistaken
<1> QED BY <1>1, <1>2, Zenon DEF Init, TxInv, TypeOK, RunningUnapplied

(* The decision to retry leaves the call paused below its limit, or returned  *)
(* with an error.                                                             *)
LEMMA RetryOrOutcome ==
  ASSUME TypeOK, result = "none", NEW err \in Errors, NEW live \in BOOLEAN,
         RetryOr(err, live)
  PROVE  \/ at' = "pause" /\ result' = "none" /\ attempt < maxAttempts
            /\ err \in {"conflict", "lookalike"}
         \/ at' = "returned" /\ result' = "error"
BY DEF RetryOr, ShouldRetry, Finish

(* What is counted stays within its bound when nothing more is applied, and   *)
(* when a last commit may have been.                                          *)
LEMMA SameCount ==
  ASSUME TypeOK, AppliedUnlessMistaken, result = "none", UNCHANGED <<applied, lookalikes>>,
         result' \in {"none", "error", "panic"}
  PROVE  AppliedUnlessMistaken'
BY DEF TypeOK, AppliedUnlessMistaken

LEMMA LastCount ==
  ASSUME TypeOK, AppliedUnlessMistaken, result = "none", UNCHANGED lookalikes,
         \/ applied' = applied + 1 /\ result' = "nil"
         \/ applied' \in {applied, applied + 1} /\ result' = "error"
  PROVE  applied' \in Nat /\ AppliedUnlessMistaken'
BY DEF TypeOK, AppliedUnlessMistaken

(* A lookalike accounts for the transaction it may have applied, whether the  *)
(* call goes on or not.                                                       *)
LEMMA MistakenCount ==
  ASSUME TypeOK, AppliedUnlessMistaken, result = "none", lookalikes' = lookalikes + 1,
         applied' \in {applied, applied + 1}, result' \in {"none", "error"}
  PROVE  applied' \in Nat /\ lookalikes' \in Nat /\ AppliedUnlessMistaken'
BY DEF TypeOK, AppliedUnlessMistaken

(* Every step of the call preserves the invariant, one action at a time. *)
LEMMA TxStep == TxInv /\ [Next]_vars => TxInv'
<1> SUFFICES ASSUME TxInv, [Next]_vars PROVE TxInv'
  OBVIOUS
<1> USE DEF TxInv, TypeOK, RunningUnapplied
<1>1. CASE Loop
  BY <1>1, SameCount DEF Loop, Finish
<1>2. CASE Begin
  <2>1. result = "none"
    BY <1>2 DEF Begin
  <2>2. CASE ~ended /\ at' = "fn" /\ open' = TRUE /\ UNCHANGED result
    BY <1>2, <2>1, <2>2, SameCount DEF Begin
  <2>3. ASSUME NEW err \in Errors, RetryOr(err, TRUE), UNCHANGED open
        PROVE  TxInv'
    BY <1>2, <2>1, <2>3, RetryOrOutcome, SameCount DEF Begin
  <2> QED BY <1>2, <2>2, <2>3 DEF Begin
<1>3. CASE Callback
  <2>1. result = "none"
    BY <1>3 DEF Callback
  <2>2. CASE at' = "commit" /\ UNCHANGED <<open, result>>
    BY <1>3, <2>1, <2>2, SameCount DEF Callback
  <2>3. ASSUME NEW err \in Errors, Rollback, RetryOr(err, ~ended)
        PROVE  TxInv'
    BY <1>3, <2>1, <2>3, RetryOrOutcome, SameCount DEF Callback, Rollback
  <2> QED BY <1>3, <2>2, <2>3 DEF Callback
<1>4. CASE Commit
  <2>1. /\ result = "none" /\ open' = FALSE /\ UNCHANGED <<maxAttempts, attempt, ended>>
        /\ {"conflict", "context", "other", "lookalike"} = Errors
    BY <1>4 DEF Commit, Rollback, Errors
  <2>2. CASE applied' = applied + 1 /\ Finish("nil") /\ UNCHANGED lookalikes
    <3>1. at' = "returned" /\ result' = "nil"
      BY <2>2 DEF Finish
    <3> QED BY <2>1, <2>2, <3>1, LastCount
  <2>3. CASE /\ RetryOr("context", ~ended) \/ RetryOr("conflict", ~ended)
             /\ UNCHANGED <<applied, lookalikes>>
    BY <2>1, <2>3, RetryOrOutcome, SameCount
  <2>4. CASE /\ RetryOr("other", ~ended)
             /\ applied' \in {applied, applied + 1} /\ UNCHANGED lookalikes
    <3>1. at' = "returned" /\ result' = "error"
      BY <2>1, <2>4, RetryOrOutcome
    <3> QED BY <2>1, <2>4, <3>1, LastCount
  <2>5. CASE /\ RetryOr("lookalike", ~ended)
             /\ applied' \in {applied, applied + 1} /\ lookalikes' = lookalikes + 1
    <3>1. \/ at' = "pause" /\ result' = "none" /\ attempt < maxAttempts
          \/ at' = "returned" /\ result' = "error"
      BY <2>1, <2>5, RetryOrOutcome
    <3> QED BY <2>1, <2>5, <3>1, MistakenCount
  <2> QED BY <1>4, <2>2, <2>3, <2>4, <2>5 DEF Commit
<1>5. CASE Pause
  BY <1>5, SameCount DEF Pause, Finish
<1>6. CASE ContextEnds
  BY <1>6, SameCount DEF ContextEnds
<1>7. CASE UNCHANGED vars
  BY <1>7 DEF vars, AppliedUnlessMistaken
<1> QED BY <1>1, <1>2, <1>3, <1>4, <1>5, <1>6, <1>7 DEF Next, Call

(* ExecTransaction applies its callback at most once more than its COMMITs    *)
(* have failed with an error that shouldRetry takes for a conflict, and at    *)
(* least once when it reports success, for every limit and every sequence of  *)
(* errors.                                                                    *)
THEOREM AppliedUnlessMistakenHolds == Spec => []AppliedUnlessMistaken
<1>1. TxInv => AppliedUnlessMistaken
  BY DEF TxInv, RunningUnapplied
<1> QED BY TxInit, TxStep, <1>1, PTL DEF Spec

(* No path out of the loop leaves a transaction open.                         *)
THEOREM NoOpenTransactionHolds == Spec => []NoOpenTransaction
<1>1. TxInv => NoOpenTransaction
  BY DEF TxInv, TypeOK, RunningUnapplied, NoOpenTransaction
<1> QED BY TxInit, TxStep, <1>1, PTL DEF Spec

(* Every variable has its type; the loop never runs past its limit.           *)
THEOREM TxTypes == Spec => []TypeOK
<1>1. TxInv => TypeOK
  BY DEF TxInv
<1> QED BY TxInit, TxStep, <1>1, PTL DEF Spec

(* The pause before attempt n + 1 fits an int64 for every n up to 37.         *)
LEMMA FitsBelow38 ==
  ASSUME NEW n \in Nat, Overflows(n)
  PROVE  n >= 38
<1> DEFINE Big(k) == ~ (390625 >= 2 ^ k)
<1>1. Big(19)
  BY SMT
<1>2. Big(20)
  BY SMT
<1>3. Big(21)
  BY SMT
<1>4. Big(22)
  BY SMT
<1>5. Big(23)
  BY SMT
<1>6. Big(24)
  BY SMT
<1>7. Big(25)
  BY SMT
<1>8. Big(26)
  BY SMT
<1>9. Big(27)
  BY SMT
<1>10. Big(28)
  BY SMT
<1>11. Big(29)
  BY SMT
<1>12. Big(30)
  BY SMT
<1>13. n > 25 /\ (n >= 56 \/ ~ Big(56 - n))
  BY DEF Overflows
<1> HIDE DEF Big
<1>14. SUFFICES ASSUME n < 38 PROVE FALSE
  OBVIOUS
<1>15. PICK k \in 19 .. 30 : k = 56 - n
  BY <1>13, <1>14
<1>16. ~ Big(k)
  BY <1>13, <1>14, <1>15
<1>17. \/ k = 19 \/ k = 20 \/ k = 21 \/ k = 22 \/ k = 23 \/ k = 24
       \/ k = 25 \/ k = 26 \/ k = 27 \/ k = 28 \/ k = 29 \/ k = 30
  BY <1>15
<1> QED
  BY <1>1, <1>2, <1>3, <1>4, <1>5, <1>6, <1>7, <1>8, <1>9, <1>10, <1>11, <1>12,
     <1>16, <1>17

(* The backoff's unchecked conversion can only panic when a caller asks for   *)
(* more than 38 attempts.                                                     *)
THEOREM PanicsBeyond38Holds == Spec => []PanicsBeyond38
<1>1. Init => PanicsBeyond38
  BY DEF Init, PanicsBeyond38
<1>2. ASSUME TxInv, PanicsBeyond38, [Next]_vars
      PROVE  PanicsBeyond38'
  <2>1. CASE Pause
    <3>1. CASE UNCHANGED result
      BY <1>2, <2>1, <3>1 DEF Pause, PanicsBeyond38
    <3>2. CASE Overflows(attempt)
      <4>1. attempt < maxAttempts /\ attempt \in Nat /\ maxAttempts \in Nat
        BY <1>2, <2>1 DEF TxInv, TypeOK, RunningUnapplied, Pause
      <4>2. attempt >= 38
        BY <3>2, <4>1, FitsBelow38
      <4> QED BY <2>1, <4>1, <4>2 DEF Pause, PanicsBeyond38
    <3> QED BY <2>1, <3>1, <3>2 DEF Pause
  <2>2. CASE Loop \/ Begin \/ Callback \/ Commit \/ ContextEnds \/ UNCHANGED vars
    <3>1. maxAttempts' = maxAttempts /\ (result' # "panic" \/ result' = result)
      BY <2>2 DEF Loop, Begin, Callback, Commit, ContextEnds, vars, Finish, RetryOr
    <3> QED BY <1>2, <3>1 DEF PanicsBeyond38
  <2> QED BY <1>2, <2>1, <2>2 DEF Next, Call
<1> QED BY <1>1, <1>2, TxInit, TxStep, PTL DEF Spec

(* Every step of the call lowers its measure, for every limit and whatever    *)
(* the database answers: the safety half of Returns, which needs only that    *)
(* the goroutine keeps running in addition.                                   *)
THEOREM EveryStepCountsHolds == Spec => EveryStepCounts
<1> DEFINE Counts == IF ended' = ended THEN Remaining' < Remaining
                     ELSE ended' /\ UNCHANGED <<maxAttempts, attempt, at, result>>
<1>1. ASSUME TxInv, Next PROVE Counts
  <2> USE DEF TxInv, TypeOK, RunningUnapplied
  <2>1. maxAttempts \in Nat /\ attempt \in Nat /\ attempt <= maxAttempts
    BY <1>1
  <2> DEFINE rest == 6 * (maxAttempts - attempt)
  <2>2. /\ rest \in Nat
        /\ at = "loop" => Remaining = rest + 5
        /\ at = "begin" => Remaining = rest + 4
        /\ at = "fn" => Remaining = rest + 3
        /\ at = "commit" => Remaining = rest + 2
        /\ at = "pause" => Remaining = rest + 1
    BY <2>1 DEF Remaining
  <2>3. ASSUME UNCHANGED <<maxAttempts, attempt>>
        PROVE  /\ at' = "begin" => Remaining' = rest + 4
               /\ at' = "fn" => Remaining' = rest + 3
               /\ at' = "commit" => Remaining' = rest + 2
               /\ at' = "pause" => Remaining' = rest + 1
               /\ at' = "returned" => Remaining' = rest
    BY <2>1, <2>3 DEF Remaining
  <2>4. CASE Loop
    BY <2>2, <2>3, <2>4 DEF Loop, Finish
  <2>5. CASE Begin
    BY <2>2, <2>3, <2>5 DEF Begin, RetryOr, Finish
  <2>6. CASE Callback
    BY <2>2, <2>3, <2>6 DEF Callback, RetryOr, Finish
  <2>7. CASE Commit
    BY <2>2, <2>3, <2>7 DEF Commit, RetryOr, Finish
  <2>8. CASE Pause
    <3>1. CASE at' = "loop" /\ attempt' = attempt + 1 /\ UNCHANGED maxAttempts
      <4>1. Remaining' = 6 * (maxAttempts - (attempt + 1)) + 5
        BY <2>1, <3>1 DEF Remaining
      <4> QED BY <2>1, <2>2, <2>8, <3>1, <4>1 DEF Pause
    <3> QED BY <2>2, <2>3, <2>8, <3>1 DEF Pause, Finish
  <2>9. CASE ContextEnds
    BY <2>9 DEF ContextEnds
  <2> QED BY <1>1, <2>4, <2>5, <2>6, <2>7, <2>8, <2>9 DEF Next, Call
<1>2. TxInv /\ [Next]_vars => [Counts]_vars
  BY <1>1
<1> QED BY <1>2, TxInit, TxStep, PTL DEF Spec, EveryStepCounts

=============================================================================
