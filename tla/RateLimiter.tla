----------------------------- MODULE RateLimiter -----------------------------
(***************************************************************************)
(* presignRateLimiter: a map from key to limiter, guarded by a mutex.  The *)
(* key is what the request says about where it comes from, not its IP.     *)
(* A request looks its limiter up under the mutex and asks it for a token  *)
(* after the unlock; a goroutine removes the entries of keys that have not *)
(* been seen for a while, and the next request with such a key gets a new  *)
(* limiter with a full bucket.                                             *)
(*                                                                         *)
(* Time is counted in ticks of a tenth of a second, in which the limiter   *)
(* earns one token: rate 10/s.  In these units the code has Burst = 20 and *)
(* TTL = 3000 (five minutes).                                              *)
(***************************************************************************)
EXTENDS Integers

CONSTANTS
  Addresses, \* the IPs at the other end of a connection ...
  Ports,     \* ... and their ports: RemoteAddr holds both
  Forwarded, \* the addresses that clients and proxies put in a header
  NoHeader,  \* there is none
  Requests,  \* the requests in flight
  Lims,      \* the limiter objects
  NoKey, NoLim,
  Burst,     \* the bucket size
  TTL,       \* an entry unseen for more than this is evicted
  Delay,     \* the longest time a goroutine is suspended between the unlock
             \* in getLimiter and the call of Allow
  MaxTime    \* bound: the last tick

Connections == Addresses \X Ports

(* What the limiter keeps apart. *)
Keys == Connections \cup Forwarded

ASSUME BucketAssumption == Burst \in Nat /\ TTL \in Nat /\ Delay \in Nat

(* A bucket fills up again within the TTL, also if its last token is taken    *)
(* late: with the code's 20 and 3000, for any Delay below 298 seconds.        *)
ASSUME RefillAssumption == Burst + Delay <= TTL
ASSUME TimeAssumption == MaxTime \in Nat
ASSUME NamesAssumption == NoLim \notin Lims /\ NoKey \notin Keys

VARIABLES
  now,       \* the clock
  clients,   \* clients[k]: the limiter of key k, or NoLim
  lastSeen,  \* lastSeen[k]: when the entry of k was last looked up
  tokens,    \* tokens[l]: the tokens limiter l had ...
  last,      \* ... at the time last[l]
  key,       \* key[r]: the key of request r
  lim,       \* lim[r]: the limiter request r has been given
  since,     \* since[r]: when it was
  answer     \* answer[r]: "none", "waiting", "admitted" or "refused"

vars == <<now, clients, lastSeen, tokens, last, key, lim, since, answer>>

Init ==
  /\ now = 0
  /\ clients = [k \in Keys |-> NoLim]
  /\ lastSeen = [k \in Keys |-> 0]
  /\ tokens = [l \in Lims |-> Burst]
  /\ last = [l \in Lims |-> 0]
  /\ key = [r \in Requests |-> NoKey]
  /\ lim = [r \in Requests |-> NoLim]
  /\ since = [r \in Requests |-> 0]
  /\ answer = [r \in Requests |-> "none"]

(* A limiter nobody refers to: a new allocation. *)
Fresh(l) == (\A k \in Keys : clients[k] # l) /\ (\A r \in Requests : lim[r] # l)

(* The entry of key k, made if it is missing. *)
Entry(k, l) ==
  \/ /\ clients[k] = l
     /\ UNCHANGED <<clients, tokens, last>>
  \/ /\ clients[k] = NoLim
     /\ Fresh(l)
     /\ clients' = [clients EXCEPT ![k] = l]
     /\ tokens' = [tokens EXCEPT ![l] = Burst]
     /\ last' = [last EXCEPT ![l] = now]

(* A mutant: looking an entry up does not refresh it. *)
NotSeen(k) == lastSeen' = IF clients[k] = NoLim THEN [lastSeen EXCEPT ![k] = now]
                          ELSE lastSeen

Seen(k) == lastSeen' = [lastSeen EXCEPT ![k] = now]

(* getLimiter, under the mutex. *)
GetLimiter(r, k, l) ==
  /\ answer[r] # "waiting"
  /\ Entry(k, l)
  /\ Seen(k)
  /\ key' = [key EXCEPT ![r] = k]
  /\ lim' = [lim EXCEPT ![r] = l]
  /\ since' = [since EXCEPT ![r] = now]
  /\ answer' = [answer EXCEPT ![r] = "waiting"]
  /\ UNCHANGED now

(* What rate.Limiter has now: it earns one token a tick up to its burst. *)
Level(l) == IF tokens[l] + (now - last[l]) < Burst THEN tokens[l] + (now - last[l])
            ELSE Burst

(* A mutant: a request is let through on credit. *)
AllowOnCredit(r) ==
  /\ answer[r] = "waiting"
  /\ tokens' = [tokens EXCEPT ![lim[r]] = Level(lim[r]) - 1]
  /\ last' = [last EXCEPT ![lim[r]] = now]
  /\ answer' = [answer EXCEPT ![r] = "admitted"]
  /\ lim' = [lim EXCEPT ![r] = NoLim]
  /\ since' = [since EXCEPT ![r] = 0]
  /\ UNCHANGED <<now, clients, lastSeen, key>>

(* Limiter.Allow, atomic by the limiter's own mutex. *)
Allow(r) ==
  LET l == lim[r] IN
  /\ answer[r] = "waiting"
  /\ IF Level(l) > 0
     THEN /\ tokens' = [tokens EXCEPT ![l] = Level(l) - 1]
          /\ last' = [last EXCEPT ![l] = now]
          /\ answer' = [answer EXCEPT ![r] = "admitted"]
     ELSE /\ answer' = [answer EXCEPT ![r] = "refused"]
          /\ UNCHANGED <<tokens, last>>
  /\ lim' = [lim EXCEPT ![r] = NoLim]
  /\ since' = [since EXCEPT ![r] = 0]
  /\ UNCHANGED <<now, clients, lastSeen, key>>

(* A mutant: every entry is evicted by the first sweep after it. *)
AnyAge(k) == clients[k] # NoLim

Expired(k) == clients[k] # NoLim /\ now - lastSeen[k] > TTL

(* One pass of the eviction goroutine, under the mutex. *)
Sweep ==
  /\ \E k \in Keys : Expired(k)
  /\ clients' = [k \in Keys |-> IF Expired(k) THEN NoLim ELSE clients[k]]
  /\ lastSeen' = [k \in Keys |-> IF Expired(k) THEN 0 ELSE lastSeen[k]]
  /\ UNCHANGED <<now, tokens, last, key, lim, since, answer>>

Tick ==
  /\ now < MaxTime
  /\ \A r \in Requests : answer[r] = "waiting" => now - since[r] < Delay
  /\ now' = now + 1
  /\ UNCHANGED <<clients, lastSeen, tokens, last, key, lim, since, answer>>

(* The key of a request: the first address of X-Forwarded-For, else           *)
(* RemoteAddr, which is the connection with its port unless RealIP has        *)
(* replaced it by the address of another such header.                         *)
Key(connection, header) == IF header # NoHeader THEN header ELSE connection

Next ==
  \/ \E r \in Requests, c \in Connections, h \in Forwarded \cup {NoHeader}, l \in Lims :
       GetLimiter(r, Key(c, h), l)
  \/ \E r \in Requests : Allow(r)
  \/ Sweep
  \/ Tick

Spec == Init /\ [][Next]_vars

-----------------------------------------------------------------------------
(* Every variable has its type; no bucket holds more than its burst. *)
TypeOK ==
  /\ now \in Nat
  /\ clients \in [Keys -> Lims \cup {NoLim}]
  /\ lastSeen \in [Keys -> Nat]
  /\ tokens \in [Lims -> 0 .. Burst]
  /\ last \in [Lims -> Nat]
  /\ key \in [Requests -> Keys \cup {NoKey}]
  /\ lim \in [Requests -> Lims \cup {NoLim}]
  /\ since \in [Requests -> Nat]
  /\ answer \in [Requests -> {"none", "waiting", "admitted", "refused"}]

(* A request that waits for its token asks the limiter that the next request  *)
(* of its key will get: eviction between the unlock and Allow never           *)
(* leaves two requests of one key with a bucket each.                         *)
OneBucketPerKey ==
  \A r \in Requests : answer[r] = "waiting" => lim[r] = clients[key[r]]

(* The tokens key k has: a new entry will have a full bucket. *)
Available(k) == IF clients[k] = NoLim THEN Burst ELSE Level(clients[k])

Bucket == INSTANCE TokenBucket WITH tokens <- [k \in Keys |-> Available(k)]

(* Evicting and re-creating entries cannot be observed: the limiter behaves   *)
(* as if every key had one bucket for ever.                                   *)
BucketSpec == Bucket!Spec

-----------------------------------------------------------------------------
(* The parts that make the two inductive: times lie in the past, an entry is  *)
(* seen no earlier than its limiter is used, and limiters are not shared.     *)
TimesArePast ==
  /\ \A k \in Keys : lastSeen[k] <= now
  /\ \A l \in Lims : last[l] <= now
  /\ \A r \in Requests : answer[r] = "waiting" => now - since[r] <= Delay

InFlight ==
  \A r \in Requests : answer[r] = "waiting" => /\ lim[r] \in Lims
                                               /\ key[r] \in Keys
                                               /\ lastSeen[key[r]] >= since[r]

(* After its last look-up an idle key only earned tokens, unless one of       *)
(* its requests was still waiting: it has used its bucket by Delay after it.  *)
UsedWhileSeen ==
  \A k \in Keys : clients[k] # NoLim => last[clients[k]] <= lastSeen[k] + Delay

NotShared ==
  \A k, j \in Keys : k # j /\ clients[k] # NoLim => clients[k] # clients[j]
=============================================================================
