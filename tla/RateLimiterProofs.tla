-------------------------- MODULE RateLimiterProofs --------------------------
(* The limiter with eviction implements one token bucket per key, for every   *)
(* bucket size and every TTL that leaves a bucket time to fill up, and so     *)
(* bounds what passes in every period of time.                                *)
EXTENDS RateWindow, TLAPS

LimiterInv == /\ TypeOK /\ OneBucketPerKey /\ TimesArePast /\ InFlight
              /\ UsedWhileSeen /\ NotShared

(* No entry, no request: the invariant holds at the start. *)
LEMMA LimiterInit == Init => LimiterInv
BY BucketAssumption, NamesAssumption
   DEF Init, LimiterInv, TypeOK, OneBucketPerKey, TimesArePast, InFlight,
       UsedWhileSeen, NotShared

(* The level of a limiter lies between zero and its burst. *)
LEMMA LevelRange ==
  ASSUME TypeOK, TimesArePast, NEW l \in Lims
  PROVE  Level(l) \in 0 .. Burst
BY BucketAssumption DEF TypeOK, TimesArePast, Level

(* An entry is expired only when its bucket is full and no request of its     *)
(* key is waiting.                                                            *)
LEMMA ExpiredIsIdle ==
  ASSUME LimiterInv, NEW k \in Keys, Expired(k)
  PROVE  /\ Level(clients[k]) = Burst
         /\ \A r \in Requests : answer[r] = "waiting" => key[r] # k
<1> USE BucketAssumption, RefillAssumption
<1>1. clients[k] \in Lims /\ now - lastSeen[k] > TTL
  BY DEF LimiterInv, TypeOK, Expired
<1>2. last[clients[k]] <= lastSeen[k] + Delay
  BY <1>1 DEF LimiterInv, UsedWhileSeen, Expired
<1>3. /\ tokens[clients[k]] \in 0 .. Burst /\ last[clients[k]] \in Nat
      /\ lastSeen[k] \in Nat /\ now \in Nat
  BY <1>1 DEF LimiterInv, TypeOK
<1>4. Level(clients[k]) = Burst
  BY <1>1, <1>2, <1>3 DEF Level
<1>5. ASSUME NEW r \in Requests, answer[r] = "waiting", key[r] = k
      PROVE  FALSE
  <2>1. lastSeen[k] >= since[r] /\ now - since[r] <= Delay /\ since[r] \in Nat
    BY <1>5 DEF LimiterInv, TypeOK, InFlight, TimesArePast
  <2> QED BY <1>1, <1>3, <2>1
<1> QED BY <1>4, <1>5

(* A look-up gives the request the limiter of its key, new or old. *)
LEMMA GetLimiterStep ==
  ASSUME LimiterInv, NEW r \in Requests, NEW k \in Keys, NEW l \in Lims,
         GetLimiter(r, k, l)
  PROVE  LimiterInv'
<1> USE BucketAssumption, NamesAssumption DEF LimiterInv
<1>1. TypeOK'
  BY DEF TypeOK, GetLimiter, Entry, Seen
<1>2. clients' = [clients EXCEPT ![k] = l]
  BY DEF TypeOK, GetLimiter, Entry
<1>3. OneBucketPerKey'
  <2> SUFFICES ASSUME NEW q \in Requests, answer'[q] = "waiting"
               PROVE  lim'[q] = clients'[key'[q]]
    BY DEF OneBucketPerKey
  <2>1. CASE q = r
    BY <1>2, <2>1 DEF GetLimiter, TypeOK
  <2>2. CASE q # r
    <3>1. answer[q] = "waiting" /\ lim'[q] = lim[q] /\ key'[q] = key[q]
      BY <2>2 DEF GetLimiter, TypeOK
    <3>2. lim[q] = clients[key[q]] /\ lim[q] \in Lims /\ key[q] \in Keys
      BY <3>1 DEF OneBucketPerKey, InFlight
    <3>3. key[q] = k => clients[k] = l
      BY <3>2 DEF GetLimiter, Entry
    <3> QED BY <1>2, <3>1, <3>2, <3>3 DEF TypeOK
  <2> QED BY <2>1, <2>2
<1>4. TimesArePast'
  <2>1. \A m \in Lims : last'[m] <= now'
    BY DEF TypeOK, TimesArePast, GetLimiter, Entry
  <2>2. \A j \in Keys : lastSeen'[j] <= now'
    BY DEF TypeOK, TimesArePast, GetLimiter, Seen
  <2>3. \A q \in Requests : answer'[q] = "waiting" => now' - since'[q] <= Delay
    BY DEF TypeOK, TimesArePast, GetLimiter
  <2> QED BY <2>1, <2>2, <2>3 DEF TimesArePast
<1>5. InFlight'
  BY DEF TypeOK, TimesArePast, InFlight, GetLimiter, Seen
<1>6. UsedWhileSeen'
  <2> SUFFICES ASSUME NEW j \in Keys, clients'[j] # NoLim
               PROVE  last'[clients'[j]] <= lastSeen'[j] + Delay
    BY DEF UsedWhileSeen
  <2>1. lastSeen' = [lastSeen EXCEPT ![k] = now] /\ now' = now
    BY DEF GetLimiter, Seen
  <2>2. CASE j = k
    <3>1. clients'[j] = l /\ lastSeen'[j] = now /\ last'[l] <= now /\ last'[l] \in Nat
      BY <1>1, <1>2, <1>4, <2>1, <2>2 DEF TypeOK, TimesArePast
    <3> QED BY <3>1 DEF TypeOK
  <2>3. CASE j # k
    <3>1. clients'[j] = clients[j] /\ lastSeen'[j] = lastSeen[j] /\ clients[j] # NoLim
      BY <1>2, <2>1, <2>3 DEF TypeOK
    <3>2. last'[clients[j]] = last[clients[j]]
      BY <3>1, <2>3 DEF GetLimiter, Entry, Fresh, TypeOK
    <3> QED BY <3>1, <3>2 DEF UsedWhileSeen
  <2> QED BY <2>2, <2>3
<1>7. NotShared'
  BY <1>2 DEF TypeOK, NotShared, GetLimiter, Entry, Fresh
<1> QED BY <1>1, <1>3, <1>4, <1>5, <1>6, <1>7

(* Asking for a token touches only the limiter of the request's own key,      *)
(* and not later than Delay after the key was seen.                           *)
LEMMA AllowStep ==
  ASSUME LimiterInv, NEW r \in Requests, Allow(r)
  PROVE  LimiterInv'
<1> USE BucketAssumption, NamesAssumption DEF LimiterInv
<1> DEFINE l == lim[r]
<1>1. /\ answer[r] = "waiting" /\ l \in Lims /\ key[r] \in Keys
      /\ l = clients[key[r]] /\ lastSeen[key[r]] >= since[r]
      /\ now - since[r] <= Delay /\ since[r] \in Nat
  BY DEF Allow, OneBucketPerKey, InFlight, TimesArePast, TypeOK
<1>2. Level(l) \in 0 .. Burst
  BY <1>1, LevelRange
<1>3. tokens' \in [Lims -> 0 .. Burst] /\ last' \in [Lims -> Nat]
  BY <1>1, <1>2 DEF Allow, TypeOK
<1>4. TypeOK'
  BY <1>3 DEF Allow, TypeOK
<1>5. \A q \in Requests : answer'[q] = "waiting" =>
        /\ q # r /\ answer[q] = "waiting" /\ lim'[q] = lim[q] /\ since'[q] = since[q]
  BY DEF Allow, TypeOK
<1>6. OneBucketPerKey' /\ InFlight' /\ NotShared'
  BY <1>5 DEF Allow, OneBucketPerKey, InFlight, NotShared
<1>7. TimesArePast'
  BY <1>5, <1>1 DEF Allow, TimesArePast, TypeOK
<1>8. UsedWhileSeen'
  <2> SUFFICES ASSUME NEW j \in Keys, clients[j] # NoLim
               PROVE  last'[clients[j]] <= lastSeen[j] + Delay
    BY DEF UsedWhileSeen, Allow
  <2>1. CASE j = key[r]
    <3>1. last'[l] \in {now, last[l]}
      BY <1>1 DEF Allow, TypeOK
    <3>2. now <= lastSeen[j] + Delay
      BY <1>1, <2>1 DEF TypeOK
    <3> QED BY <1>1, <2>1, <3>1, <3>2 DEF UsedWhileSeen
  <2>2. CASE j # key[r]
    <3>1. clients[j] # l
      BY <1>1, <2>2 DEF NotShared
    <3>2. last'[clients[j]] = last[clients[j]]
      BY <1>1, <3>1 DEF Allow, TypeOK
    <3> QED BY <3>2 DEF UsedWhileSeen
  <2> QED BY <2>1, <2>2
<1> QED BY <1>4, <1>6, <1>7, <1>8

(* A sweep removes idle entries only. *)
LEMMA SweepStep ==
  ASSUME LimiterInv, Sweep
  PROVE  LimiterInv'
<1> USE BucketAssumption, NamesAssumption DEF LimiterInv
<1>1. TypeOK'
  BY DEF Sweep, TypeOK
<1>2. \A k \in Keys : \/ clients'[k] = NoLim /\ lastSeen'[k] = 0 /\ Expired(k)
                      \/ clients'[k] = clients[k] /\ lastSeen'[k] = lastSeen[k]
  BY DEF Sweep
<1>3. \A r \in Requests : answer[r] = "waiting" =>
        clients'[key[r]] = clients[key[r]] /\ lastSeen'[key[r]] = lastSeen[key[r]]
  BY <1>2, ExpiredIsIdle DEF InFlight
<1>4. OneBucketPerKey' /\ InFlight'
  BY <1>3 DEF Sweep, OneBucketPerKey, InFlight
<1>5. TimesArePast'
  BY <1>2 DEF Sweep, TimesArePast, TypeOK
<1>6. UsedWhileSeen' /\ NotShared'
  BY <1>2 DEF Sweep, UsedWhileSeen, NotShared
<1> QED BY <1>1, <1>4, <1>5, <1>6

(* Time passes within the bound on the requests in flight. *)
LEMMA TickStep ==
  ASSUME LimiterInv, Tick
  PROVE  LimiterInv'
BY BucketAssumption, TimeAssumption
   DEF LimiterInv, Tick, TypeOK, OneBucketPerKey, TimesArePast, InFlight,
       UsedWhileSeen, NotShared

(* Whatever a request says of itself is a key. *)
LEMMA KeyIsKey ==
  ASSUME NEW c \in Connections, NEW h \in Forwarded \cup {NoHeader}
  PROVE  Key(c, h) \in Keys
BY DEF Key, Keys

(* The invariant is inductive. *)
LEMMA LimiterStep == LimiterInv /\ [Next]_vars => LimiterInv'
<1> SUFFICES ASSUME LimiterInv, [Next]_vars PROVE LimiterInv'
  OBVIOUS
<1>1. CASE UNCHANGED vars
  BY <1>1 DEF vars, LimiterInv, TypeOK, OneBucketPerKey, TimesArePast, InFlight,
              UsedWhileSeen, NotShared
<1>2. ASSUME NEW r \in Requests, NEW c \in Connections,
             NEW h \in Forwarded \cup {NoHeader}, NEW l \in Lims, GetLimiter(r, Key(c, h), l)
      PROVE  LimiterInv'
  BY <1>2, KeyIsKey, GetLimiterStep
<1> QED BY <1>1, <1>2, AllowStep, SweepStep, TickStep DEF Next

(* All requests of one key in flight share one bucket, whatever the           *)
(* eviction goroutine does between their look-up and their Allow.             *)
THEOREM OneBucketPerKeyHolds == Spec => []OneBucketPerKey
<1>1. LimiterInv => OneBucketPerKey
  BY DEF LimiterInv
<1> QED BY LimiterInit, LimiterStep, <1>1, PTL DEF Spec

-----------------------------------------------------------------------------
(* The refinement *)

BucketTokens == [k \in Keys |-> Available(k)]

(* Without entries every key has a full bucket. *)
LEMMA BucketInit == Init => Bucket!Init
BY DEF Init, Bucket!Init, Available

(* A look-up takes no token: a new limiter is as full as no limiter. *)
LEMMA GetLimiterArrives ==
  ASSUME LimiterInv, NEW r \in Requests, NEW k \in Keys, NEW l \in Lims,
         GetLimiter(r, k, l)
  PROVE  Bucket!Arrive(r, k)
<1> USE BucketAssumption, NamesAssumption DEF LimiterInv
<1>1. ASSUME NEW j \in Keys PROVE Available(j)' = Available(j)
  <2>1. CASE clients[k] = l /\ UNCHANGED <<clients, tokens, last>>
    BY <2>1 DEF GetLimiter, Available, Level
  <2>2. CASE clients[k] = NoLim /\ Entry(k, l) /\ j = k
    <3>1. clients'[k] = l /\ tokens'[l] = Burst /\ last'[l] = now /\ now' = now
      BY <2>2 DEF GetLimiter, Entry, TypeOK
    <3> QED BY <2>2, <3>1 DEF Available, Level, TypeOK
  <2>3. CASE clients[k] = NoLim /\ Entry(k, l) /\ j # k
    <3>1. clients'[j] = clients[j] /\ clients[j] # l /\ now' = now
      BY <2>3 DEF GetLimiter, Entry, Fresh, TypeOK
    <3>2. clients[j] # NoLim => /\ tokens'[clients[j]] = tokens[clients[j]]
                                /\ last'[clients[j]] = last[clients[j]]
      BY <2>3, <3>1 DEF Entry, TypeOK
    <3> QED BY <3>1, <3>2 DEF Available, Level
  <2> QED BY <2>1, <2>2, <2>3 DEF GetLimiter, Entry
<1>2. BucketTokens' = BucketTokens
  BY <1>1 DEF BucketTokens
<1> QED BY <1>2 DEF GetLimiter, Bucket!Arrive, BucketTokens

(* Allow takes a token of the request's own key, or refuses for want of       *)
(* one.                                                                       *)
LEMMA AllowAnswers ==
  ASSUME LimiterInv, NEW r \in Requests, Allow(r)
  PROVE  \E k \in Keys : Bucket!Admit(r, k) \/ Bucket!Refuse(r, k)
<1> USE BucketAssumption, NamesAssumption DEF LimiterInv
<1> DEFINE l == lim[r]
<1>1. PICK k \in Keys : k = key[r] /\ l \in Lims /\ clients[k] = l /\ answer[r] = "waiting"
  BY DEF Allow, OneBucketPerKey, InFlight
<1>2. Available(k) = Level(l) /\ Level(l) \in 0 .. Burst
  BY <1>1, LevelRange DEF Available
<1>3. CASE Level(l) > 0
  <2>1. /\ tokens' = [tokens EXCEPT ![l] = Level(l) - 1]
        /\ last' = [last EXCEPT ![l] = now]
        /\ answer' = [answer EXCEPT ![r] = "admitted"]
        /\ UNCHANGED <<now, clients, key>>
    BY <1>3 DEF Allow
  <2>2. Available(k)' = Available(k) - 1
    <3>1. tokens'[l] = Level(l) - 1 /\ last'[l] = now /\ now \in Nat
      BY <1>1, <2>1 DEF TypeOK
    <3>2. Available(k)' = IF tokens'[l] + (now' - last'[l]) < Burst
                          THEN tokens'[l] + (now' - last'[l]) ELSE Burst
      BY <1>1, <2>1 DEF Available, Level
    <3> QED BY <1>2, <2>1, <3>1, <3>2
  <2>3. ASSUME NEW j \in Keys, j # k PROVE Available(j)' = Available(j)
    <3>1. clients[j] # l
      BY <1>1, <2>3 DEF NotShared
    <3> QED BY <2>1, <3>1 DEF Available, Level, TypeOK
  <2>4. BucketTokens' = [BucketTokens EXCEPT ![k] = BucketTokens[k] - 1]
    BY <2>2, <2>3 DEF BucketTokens
  <2>5. Bucket!Admit(r, k)
    BY <1>1, <1>2, <1>3, <2>1, <2>4 DEF Bucket!Admit, BucketTokens
  <2> QED BY <1>1, <2>5
<1>4. CASE ~(Level(l) > 0)
  <2>1. Level(l) = 0
    BY <1>2, <1>4
  <2>2. /\ answer' = [answer EXCEPT ![r] = "refused"]
        /\ UNCHANGED <<now, clients, key, tokens, last>>
    BY <1>4 DEF Allow
  <2>3. BucketTokens' = BucketTokens
    BY <2>2 DEF BucketTokens, Available, Level
  <2>4. Bucket!Refuse(r, k)
    BY <1>1, <1>2, <2>1, <2>2, <2>3 DEF Bucket!Refuse, BucketTokens
  <2> QED BY <1>1, <2>4
<1> QED BY <1>3, <1>4

(* An evicted entry had a full bucket: a sweep is a stutter. *)
LEMMA SweepStutters ==
  ASSUME LimiterInv, Sweep
  PROVE  UNCHANGED <<BucketTokens, key, answer>>
<1>1. ASSUME NEW k \in Keys PROVE Available(k)' = Available(k)
  <2>1. CASE Expired(k)
    BY <2>1, ExpiredIsIdle DEF Sweep, Available
  <2>2. CASE ~Expired(k)
    BY <2>2 DEF Sweep, Available, Level
  <2> QED BY <2>1, <2>2
<1> QED BY <1>1 DEF Sweep, BucketTokens

(* A tick earns every bucket that is not full one token. *)
LEMMA TickRefills ==
  ASSUME LimiterInv, Tick
  PROVE  Bucket!Refill
<1> USE BucketAssumption
<1>1. ASSUME NEW k \in Keys
      PROVE  Available(k)' = IF Available(k) < Burst THEN Available(k) + 1 ELSE Burst
  <2>1. CASE clients[k] = NoLim
    BY <2>1 DEF Tick, Available
  <2>2. CASE clients[k] # NoLim
    <3>1. /\ tokens[clients[k]] \in 0 .. Burst /\ last[clients[k]] \in Nat
          /\ now \in Nat /\ now' = now + 1
          /\ UNCHANGED <<clients, tokens, last>>
      BY <2>2 DEF LimiterInv, TypeOK, Tick
    <3> QED BY <2>2, <3>1 DEF Available, Level
  <2> QED BY <2>1, <2>2
<1> QED BY <1>1 DEF Tick, Bucket!Refill

(* The limiter implements one bucket per key: evicting and re-creating        *)
(* entries never gives a key a token it has not earned, and never takes       *)
(* one away.                                                                  *)
THEOREM LimiterRefines == Spec => BucketSpec
<1>1. LimiterInv /\ [Next]_vars => [Bucket!Next]_<<BucketTokens, key, answer>>
  <2> SUFFICES ASSUME LimiterInv, [Next]_vars
               PROVE  Bucket!Next \/ UNCHANGED <<BucketTokens, key, answer>>
    OBVIOUS
  <2>1. ASSUME NEW r \in Requests, NEW c \in Connections,
               NEW h \in Forwarded \cup {NoHeader}, NEW l \in Lims, GetLimiter(r, Key(c, h), l)
        PROVE  Bucket!Next
    BY <2>1, KeyIsKey, GetLimiterArrives DEF Bucket!Next
  <2>2. ASSUME NEW r \in Requests, Allow(r)
        PROVE  Bucket!Next
    BY <2>2, AllowAnswers DEF Bucket!Next
  <2>3. CASE Sweep
    BY <2>3, SweepStutters
  <2>4. CASE Tick
    BY <2>4, TickRefills DEF Bucket!Next
  <2>5. CASE UNCHANGED vars
    BY <2>5 DEF vars, BucketTokens, Available, Level
  <2> QED BY <2>1, <2>2, <2>3, <2>4, <2>5 DEF Next
<1>2. LimiterInv /\ [Next]_vars
        => [Bucket!Next]_<<[k \in Keys |-> Available(k)], key, answer>>
  BY <1>1 DEF BucketTokens
<1> QED BY BucketInit, LimiterInit, LimiterStep, <1>2, PTL DEF Spec, BucketSpec, Bucket!Spec

(* Every variable has its type; no bucket is overdrawn or holds more than its *)
(* burst.                                                                     *)
THEOREM LimiterTypes == Spec => []TypeOK
<1>1. LimiterInv => TypeOK
  BY DEF LimiterInv
<1> QED BY LimiterInit, LimiterStep, <1>1, PTL DEF Spec

-----------------------------------------------------------------------------
(* The limit as an observer sees it *)

(* The observer only watches. *)
LEMMA ObservedIsLimiter == WindowSpec => Spec
<1>1. WindowInit => Init
  BY DEF WindowInit
<1>2. [WindowNext]_observed => [Next]_vars
  BY DEF WindowNext, Observe, Arrive, Open, Next, observed
<1> QED BY <1>1, <1>2, PTL DEF WindowSpec, Spec

(* What a key has lies between nothing and a full bucket. *)
LEMMA AvailableRange ==
  ASSUME LimiterInv, NEW k \in Keys
  PROVE  Available(k) \in 0 .. Burst
BY BucketAssumption, LevelRange DEF LimiterInv, TypeOK, Available

(* A request that passes has taken a token, and a tick earns at most one: the *)
(* sum of what passed and what is left grows with the clock only.             *)
LEMMA PassedStep == LimiterInv /\ PassedAndLeft /\ [WindowNext]_observed => PassedAndLeft'
<1> SUFFICES ASSUME LimiterInv, PassedAndLeft, [WindowNext]_observed PROVE PassedAndLeft'
  OBVIOUS
<1> USE BucketAssumption
<1>0. /\ now \in Nat /\ opened \in Nat /\ opened <= now /\ passed \in [Keys -> Nat]
      /\ \A k \in Keys : passed[k] + Available(k) <= Burst + (now - opened)
      /\ \A k \in Keys : Available(k) \in 0 .. Burst
  BY AvailableRange DEF PassedAndLeft, LimiterInv, TypeOK
<1>1. CASE Open
  <2>1. ASSUME NEW k \in Keys PROVE Available(k)' = Available(k)
    BY <1>1 DEF Open, vars, Available, Level
  <2> QED BY <1>0, <1>1, <2>1 DEF Open, vars, PassedAndLeft
<1>2. ASSUME NEW r \in Requests, Observe(r) PROVE PassedAndLeft'
  <2>1. /\ answer \in [Requests -> {"none", "waiting", "admitted", "refused"}]
        /\ now' = now /\ opened' = opened
    BY <1>2 DEF Observe, Allow, LimiterInv, TypeOK
  <2>2. PICK k \in Keys : Bucket!Admit(r, k) \/ Bucket!Refuse(r, k)
    BY <1>2, AllowAnswers DEF Observe
  <2>3. CASE Bucket!Admit(r, k)
    <3>1. /\ key[r] = k /\ answer'[r] = "admitted"
          /\ BucketTokens' = [BucketTokens EXCEPT ![k] = BucketTokens[k] - 1]
      BY <2>1, <2>3 DEF Bucket!Admit, BucketTokens
    <3>2. passed' = [passed EXCEPT ![k] = @ + 1]
      BY <1>2, <3>1 DEF Observe
    <3>3. ASSUME NEW j \in Keys
          PROVE  Available(j)' = IF j = k THEN Available(j) - 1 ELSE Available(j)
      BY <3>1 DEF BucketTokens
    <3> QED BY <1>0, <2>1, <3>2, <3>3 DEF PassedAndLeft
  <2>4. CASE Bucket!Refuse(r, k)
    <3>1. answer'[r] = "refused" /\ BucketTokens' = BucketTokens
      BY <2>1, <2>4 DEF Bucket!Refuse, BucketTokens
    <3>2. passed' = passed
      BY <1>2, <3>1 DEF Observe
    <3>3. ASSUME NEW j \in Keys PROVE Available(j)' = Available(j)
      BY <3>1 DEF BucketTokens
    <3> QED BY <1>0, <2>1, <3>2, <3>3 DEF PassedAndLeft
  <2> QED BY <2>2, <2>3, <2>4
<1>3. ASSUME UNCHANGED <<now, opened, passed>>, BucketTokens' = BucketTokens
      PROVE  PassedAndLeft'
  <2>1. ASSUME NEW j \in Keys PROVE Available(j)' = Available(j)
    BY <1>3 DEF BucketTokens
  <2> QED BY <1>0, <1>3, <2>1 DEF PassedAndLeft
<1>4. ASSUME NEW r \in Requests, NEW c \in Connections,
             NEW h \in Forwarded \cup {NoHeader}, NEW l \in Lims, Arrive(r, c, h, l)
      PROVE  PassedAndLeft'
  <2>1. GetLimiter(r, Key(c, h), l) /\ UNCHANGED <<now, opened, passed>>
    BY <1>4 DEF Arrive, GetLimiter
  <2>2. BucketTokens' = BucketTokens
    BY <2>1, KeyIsKey, GetLimiterArrives DEF Bucket!Arrive, BucketTokens
  <2> QED BY <1>3, <2>1, <2>2
<1>5. CASE Sweep /\ UNCHANGED windowVars
  BY <1>3, <1>5, SweepStutters DEF Sweep, windowVars
<1>6. CASE Tick /\ UNCHANGED <<opened, passed>>
  <2>1. ASSUME NEW j \in Keys
        PROVE  Available(j)' = IF Available(j) < Burst THEN Available(j) + 1 ELSE Burst
    BY <1>6, TickRefills DEF Bucket!Refill
  <2>2. now' = now + 1
    BY <1>6 DEF Tick
  <2> QED BY <1>0, <1>6, <2>1, <2>2 DEF PassedAndLeft
<1>7. CASE UNCHANGED observed
  BY <1>3, <1>7 DEF observed, windowVars, vars, BucketTokens, Available, Level
<1> QED BY <1>1, <1>2, <1>4, <1>5, <1>6, <1>7 DEF WindowNext, windowVars

(* For every burst, TTL and delay that RefillAssumption admits, every number  *)
(* of keys and requests, and every period of t ticks: at most Burst + t       *)
(* requests with one key get through the middleware.                          *)
THEOREM WindowBoundHolds == WindowSpec => []WindowBound
<1>1. WindowInit => PassedAndLeft
  BY BucketAssumption DEF WindowInit, Init, PassedAndLeft, Available
<1>2. WindowSpec => []LimiterInv
  BY ObservedIsLimiter, LimiterInit, LimiterStep, PTL DEF Spec
<1>3. LimiterInv /\ PassedAndLeft => WindowBound
  <2> SUFFICES ASSUME LimiterInv, PassedAndLeft, NEW k \in Keys
               PROVE  passed[k] <= Burst + (now - opened)
    BY DEF WindowBound
  <2>1. Available(k) \in 0 .. Burst
    BY AvailableRange
  <2> QED BY <2>1, BucketAssumption DEF PassedAndLeft, LimiterInv, TypeOK
<1> QED BY <1>1, <1>2, <1>3, PassedStep, PTL DEF WindowSpec

=============================================================================
