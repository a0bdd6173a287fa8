----------------------------- MODULE TokenBucket -----------------------------
(***************************************************************************)
(* What the presign limiter promises: every key has one bucket of          *)
(* Burst tokens for ever, refilled by one token a tick; a request is let   *)
(* through when it takes a token and refused when there is none.           *)
(***************************************************************************)
EXTENDS Integers

CONSTANTS Keys, Requests, NoKey, Burst

VARIABLES tokens, key, answer

Init == /\ tokens = [k \in Keys |-> Burst]
        /\ key = [r \in Requests |-> NoKey]
        /\ answer = [r \in Requests |-> "none"]

Arrive(r, k) == /\ answer[r] # "waiting"
                /\ answer' = [answer EXCEPT ![r] = "waiting"]
                /\ key' = [key EXCEPT ![r] = k]
                /\ UNCHANGED tokens

Admit(r, k) == /\ key[r] = k
               /\ answer[r] = "waiting"
               /\ tokens[k] > 0
               /\ tokens' = [tokens EXCEPT ![k] = tokens[k] - 1]
               /\ answer' = [answer EXCEPT ![r] = "admitted"]
               /\ UNCHANGED key

Refuse(r, k) == /\ key[r] = k
                /\ answer[r] = "waiting"
                /\ tokens[k] = 0
                /\ answer' = [answer EXCEPT ![r] = "refused"]
                /\ UNCHANGED <<tokens, key>>

Refill == /\ tokens' = [k \in Keys |-> IF tokens[k] < Burst THEN tokens[k] + 1 ELSE Burst]
          /\ UNCHANGED <<key, answer>>

Next == \/ \E r \in Requests, k \in Keys : Arrive(r, k) \/ Admit(r, k) \/ Refuse(r, k)
        \/ Refill

Spec == Init /\ [][Next]_<<tokens, key, answer>>
=============================================================================
