----------------------------- MODULE RateWindow -----------------------------
(***************************************************************************)
(* The presign limiter with an observer: at any moment, and any number of  *)
(* times, the observer opens a window and counts the requests of every     *)
(* key that pass from then on.  It changes nothing the limiter sees.       *)
(***************************************************************************)
EXTENDS RateLimiter

VARIABLES
  opened,  \* when the window was opened
  passed,  \* passed[k]: the requests with key k let through since then
  from,    \* from[r]: the address at the other end of request r's connection
  served   \* served[i]: the requests from address i let through since then

windowVars == <<opened, passed, from, served>>

observed == <<vars, windowVars>>

WindowInit == /\ Init
              /\ opened = now
              /\ passed = [k \in Keys |-> 0]
              /\ from = [r \in Requests |-> NoKey]
              /\ served = [i \in Addresses |-> 0]

Open == /\ opened' = now
        /\ passed' = [k \in Keys |-> 0]
        /\ served' = [i \in Addresses |-> 0]
        /\ UNCHANGED <<vars, from>>

(* Request r comes over connection c. *)
Arrive(r, c, h, l) ==
  /\ GetLimiter(r, Key(c, h), l)
  /\ from' = [from EXCEPT ![r] = c[1]]
  /\ UNCHANGED <<opened, passed, served>>

(* The answer of the middleware to request r is seen. *)
Observe(r) ==
  /\ Allow(r)
  /\ IF answer'[r] = "admitted"
     THEN /\ passed' = [passed EXCEPT ![key[r]] = @ + 1]
          /\ served' = [served EXCEPT ![from[r]] = @ + 1]
     ELSE UNCHANGED <<passed, served>>
  /\ UNCHANGED <<opened, from>>

WindowNext ==
  \/ Open
  \/ \E r \in Requests, c \in Connections, h \in Forwarded \cup {NoHeader}, l \in Lims :
       Arrive(r, c, h, l)
  \/ \E r \in Requests : Observe(r)
  \/ (Sweep \/ Tick) /\ UNCHANGED windowVars

WindowSpec == WindowInit /\ [][WindowNext]_observed

-----------------------------------------------------------------------------
(* What the limit means to the outside: in no period of t ticks, wherever it  *)
(* begins, do more than Burst + t requests with one key pass, also if the key *)
(* falls silent, is evicted and comes back within the period.  A key is a     *)
(* connection or what a header says, so this is not a limit on an IP: see     *)
(* EachIP.                                                                    *)
WindowBound == \A k \in Keys : passed[k] <= Burst + (now - opened)

(* What makes it inductive: what passed and what may still pass at once were  *)
(* either in the bucket when the window was opened or earned since.           *)
PassedAndLeft ==
  /\ opened \in Nat /\ opened <= now
  /\ passed \in [Keys -> Nat]
  /\ \A k \in Keys : passed[k] + Available(k) <= Burst + (now - opened)

(* What the comment on presignRateLimiter says: "Each IP is allowed 10        *)
(* requests/s with a burst of 20."                                            *)
EachIP == \A i \in Addresses : served[i] <= Burst + (now - opened)
=============================================================================
