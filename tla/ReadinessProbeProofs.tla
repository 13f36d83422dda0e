------------------------- MODULE ReadinessProbeProofs -------------------------
(***************************************************************************)
(* What the probe promises holds for any number of dependencies and of     *)
(* other clients, and for any settings that satisfy ProbeAssumption.  IInv *)
(* (in ReadinessProbe) is inductive and implies each promise.              *)
(***************************************************************************)
EXTENDS ReadinessProbe, TLAPS

-----------------------------------------------------------------------------
(* Arithmetic: the products in the bounds.                                  *)

LEMMA ProductsAreNat ==
  ASSUME NEW a \in Nat, NEW b \in Nat
  PROVE  a * b \in Nat
  OBVIOUS

LEMMA ProductsAreMonotone ==
  ASSUME NEW a \in Nat, NEW b \in Nat, NEW c \in Nat, a <= b
  PROVE  a * c <= b * c
<1>1. b * c = a * c + (b - a) * c
  OBVIOUS
<1>2. (b - a) * c \in Nat
  BY ProductsAreNat
<1>3. a * c \in Nat /\ b * c \in Nat
  BY ProductsAreNat
<1> QED
  BY <1>1, <1>2, <1>3

LEMMA OneMore ==
  ASSUME NEW a \in Nat, NEW c \in Nat
  PROVE  (a + 1) * c = a * c + c
  OBVIOUS

\* What the settings are, without the products.
LEMMA Settings ==
  /\ Probers \subseteq Handlers
  /\ {Pings, CacheTTL, ProbeTimeout, FailureThreshold, Period} \subseteq Nat \ {0}
  /\ Latency \in Nat
  /\ \A d \in Deps : PingTimeout[d] \in Nat /\ Latency < PingTimeout[d]
  /\ Watched \subseteq Deps
  /\ ProbeTimeout < Period
  /\ InitialDelay \in 0 .. Period
  BY ProbeAssumption DEF Handlers, Deps

\* How long a ping may have run: as long as some dependency's client waits.
LEMMA PingTimesAreBounded ==
  /\ 0 \in PingTimes
  /\ PingTimes \subseteq Nat
  /\ \A d \in Deps, n \in Nat : n <= PingTimeout[d] => n \in PingTimes
<1>1. 1 \in Deps
  BY Settings DEF Deps
<1> QED
  BY <1>1, Settings DEF PingTimes

\* The pings of one handler, when all is well.
LEMMA PingsInTime ==
  /\ Pings * Latency \in Nat /\ Pings * Latency < ProbeTimeout
  /\ OutageBound \in Nat
  /\ RecoveryBound \in Nat
<1>1. /\ Pings \in Nat /\ Latency \in Nat /\ Period \in Nat
      /\ CacheTTL \in Nat /\ ProbeTimeout \in Nat /\ FailureThreshold - 1 \in Nat
      /\ Period - 1 \in Nat
  BY Settings
<1>2. /\ Pings * Latency \in Nat
      /\ (FailureThreshold - 1) * Period \in Nat
  BY <1>1, ProductsAreNat
<1>3. OutageBound \in Nat
  BY <1>1, <1>2 DEF OutageBound
<1>4. RecoveryBound \in Nat
  BY <1>1, <1>2 DEF RecoveryBound
<1> QED
  BY <1>2, <1>3, <1>4, ProbeAssumption

\* A ping that has begun starts where the one before it, at the latest, ended.
LEMMA PingsAddUp ==
  ASSUME NEW d \in Nat \ {0}, NEW c \in Nat
  PROVE  /\ (d - 1) * c \in Nat
         /\ (d + 1 - 1) * c = (d - 1) * c + c
         /\ d <= Pings => (d - 1) * c + c <= Pings * c
<1>1. d - 1 \in Nat
  OBVIOUS
<1>2. d * c = (d - 1) * c + c
  BY <1>1, OneMore
<1>3. d + 1 - 1 = d
  OBVIOUS
<1>4. d <= Pings => d * c <= Pings * c
  BY ProductsAreMonotone, Settings
<1> QED
  BY <1>1, <1>2, <1>3, <1>4, ProductsAreNat

-----------------------------------------------------------------------------
LEMMA InitEstablishesIInv == Init => IInv
<1> SUFFICES ASSUME Init PROVE IInv
  OBVIOUS
<1> USE Settings, PingsInTime, PingTimesAreBounded DEF Init
<1>1. TypeOK
  <2>1. /\ 0 \in 0 .. OutageBound + 1 /\ 0 \in 0 .. RecoveryBound + 1
        /\ 0 \in 0 .. Pings
        /\ CacheTTL \in 0 .. CacheTTL /\ InitialDelay \in 0 .. Period
        /\ 0 \in 0 .. FailureThreshold
    OBVIOUS
  <2> QED
    BY <2>1 DEF TypeOK
<1>2. ProbeInv /\ \A h \in Handlers : AgeInv(h)
  BY DEF ProbeInv, AgeInv
<1>3. OutageInv
  BY DEF OutageInv, SawItUp, Fresh, Deps
<1>4. HealthInv
  BY DEF HealthInv, SawItDown, SinceProbe, Fresh
<1> QED
  BY <1>1, <1>2, <1>3, <1>4 DEF IInv

-----------------------------------------------------------------------------
(* The kubelet's record of its probes.                                      *)

\* What a probe that has been answered or given up leaves: a success is one that was
\* sent before the outage could be CacheTTL old, a failure one that was sent before
\* all had been well so long.
LEMMA RecordKeepsBounds ==
  ASSUME TypeOK, OutageInv, HealthInv, asking \/ untilProbe = 0,
         NEW success \in BOOLEAN, Record(success),
         NEW since \in Nat, asking => since = SinceProbe, ~asking => since = 0,
         success => downFor < CacheTTL + since,
         ~success => healthyFor < CacheTTL + since
  PROVE  /\ failures' \in 0 .. FailureThreshold
         /\ podReady' \in BOOLEAN
         /\ podReady' => /\ failures' < FailureThreshold
                         /\ downFor < CacheTTL + since + failures' * Period
         /\ ~podReady' \/ failures' > 0 => healthyFor < CacheTTL + since
<1> USE Settings DEF TypeOK
<1>1. failures' \in 0 .. FailureThreshold /\ podReady' \in BOOLEAN
  BY DEF Record
<1>2. CASE success
  <2>1. failures' = 0 /\ podReady'
    BY <1>2 DEF Record
  <2>2. failures' * Period = 0
    BY <2>1
  <2> QED
    BY <1>1, <1>2, <2>1, <2>2
<1>3. CASE ~success
  <2>1. podReady' => podReady /\ failures' = failures + 1 /\ failures' < FailureThreshold
    BY <1>3 DEF Record
  <2>2. (failures + 1) * Period = failures * Period + Period
    BY OneMore
  <2>3. podReady => downFor < CacheTTL + since + (failures + 1) * Period
    BY <2>2, ProductsAreNat DEF OutageInv, SinceProbe
  <2> QED
    BY <1>1, <1>3, <2>1, <2>3
<1> QED
  BY <1>2, <1>3

-----------------------------------------------------------------------------
(* What a handler knows.                                                    *)

LEMMA WaitedIsNat ==
  ASSUME TypeOK, NEW h \in Handlers
  PROVE  waited[h] \in Nat
<1>1. waited[h] \in PingTimes
  BY DEF TypeOK
<1> QED
  BY <1>1, PingTimesAreBounded

\* A handler that is behind the end of the last outage is not behind it by much.
LEMMA GoodTime ==
  ASSUME IInv, NEW h \in Handlers, at[h] # 0, healthyFor > age[h]
  PROVE  /\ ~hung[h] /\ ready[h]
         /\ age[h] <= (at[h] - 1) * Latency + Latency
<1>1. /\ at[h] - 1 \in Nat /\ waited[h] \in Nat /\ age[h] \in Nat /\ healthyFor \in Nat
      /\ Latency \in Nat
  BY Settings, WaitedIsNat DEF IInv, TypeOK
<1>2. (at[h] - 1) * Latency \in Nat
  BY <1>1, ProductsAreNat
<1>3. SawItDown(h) /\ AgeInv(h)
  BY DEF IInv, HealthInv
<1>4. ~hung[h] /\ ready[h]
  BY <1>1, <1>3 DEF SawItDown, AgeInv
<1>5. age[h] <= (at[h] - 1) * Latency + waited[h] /\ waited[h] <= Latency
  BY <1>3, <1>4 DEF SawItDown, AgeInv
<1> QED
  BY <1>1, <1>2, <1>4, <1>5

\* The handler of a probe that all has been well for is done when its pings can be.
LEMMA ProbeMakesGoodTime ==
  ASSUME IInv, asking, healthyFor > SinceProbe
  PROVE  SinceProbe <= Pings * Latency
<1> USE Settings DEF IInv
<1>1. /\ probe \in Handlers
      /\ age[probe] = SinceProbe /\ age[probe] \in Nat
      /\ at[probe] \in Nat \ {0} /\ at[probe] <= Pings
  BY DEF ProbeInv, TypeOK
<1>2. age[probe] <= (at[probe] - 1) * Latency + Latency
  BY <1>1, GoodTime
<1>3. /\ (at[probe] - 1) * Latency \in Nat
      /\ (at[probe] - 1) * Latency + Latency <= Pings * Latency
  BY <1>1, PingsAddUp
<1> QED
  BY <1>1, <1>2, <1>3, PingsInTime

\* What the end of a ping says: "up" was seen before the outage, "down" before all
\* was well.
LEMMA PingTellsTheTruth ==
  ASSUME IInv, NEW h \in Handlers, at[h] # 0, NEW up \in BOOLEAN, Result(h, up)
  PROVE  /\ at[h] >= watched /\ ready[h] /\ up => downFor <= age[h]
         /\ ~(ready[h] /\ up) => healthyFor <= age[h]
<1>1. /\ at[h] \in Nat /\ waited[h] \in Nat /\ age[h] \in Nat /\ healthyFor \in Nat
      /\ downFor \in Nat /\ watched \in Nat
      /\ Latency \in Nat /\ PingTimeout[at[h]] \in Nat /\ Latency < PingTimeout[at[h]]
  <2>1. at[h] \in Deps
    BY Settings DEF IInv, TypeOK, Deps
  <2>2. Latency \in Nat /\ PingTimeout[at[h]] \in Nat /\ Latency < PingTimeout[at[h]]
    BY <2>1, Settings
  <2> QED
    BY <2>1, <2>2, Settings, WaitedIsNat DEF IInv, TypeOK, Deps
<1>2. ASSUME at[h] >= watched, ready[h], up PROVE downFor <= age[h]
  <2>1. CASE at[h] = watched
    BY <1>1, <1>2, <2>1 DEF Result, IInv, OutageInv
  <2>2. CASE at[h] > watched
    BY <1>2, <2>2 DEF IInv, OutageInv, SawItUp
  <2> QED
    BY <1>1, <1>2, <2>1, <2>2
<1>3. ASSUME ~(ready[h] /\ up) PROVE healthyFor <= age[h]
  <2>1. CASE ~ready[h]
    BY <2>1 DEF IInv, HealthInv, SawItDown
  <2>2. CASE at[h] \in down
    BY <1>1, <2>2 DEF IInv, HealthInv
  <2>3. CASE waited[h] = PingTimeout[at[h]]
    <3>1. hung[h] /\ waited[h] <= age[h]
      BY <1>1, <2>3 DEF IInv, AgeInv
    <3>2. healthyFor <= waited[h]
      BY <3>1 DEF IInv, HealthInv, SawItDown
    <3> QED
      BY <1>1, <3>1, <3>2
  <2> QED
    BY <1>3, <2>1, <2>2, <2>3 DEF Result
<1> QED
  BY <1>2, <1>3

-----------------------------------------------------------------------------
(* One lemma per action.                                                    *)

LEMMA ProbeHitsKeepsIInv ==
  ASSUME IInv, ProbeHits
  PROVE  IInv'
<1> USE Settings DEF IInv, ProbeHits, deps, cache, handlers
<1>1. /\ failures' \in 0 .. FailureThreshold
      /\ podReady' \in BOOLEAN
      /\ podReady' => /\ failures' < FailureThreshold
                      /\ downFor < CacheTTL + 0 + failures' * Period
      /\ ~podReady' \/ failures' > 0 => healthyFor < CacheTTL + 0
  <2>1. cacheReady => downFor < CacheTTL + 0
    BY DEF OutageInv, Fresh, TypeOK
  <2>2. ~cacheReady => healthyFor < CacheTTL + 0
    BY DEF HealthInv, Fresh, TypeOK
  <2>3. cacheReady \in BOOLEAN
    BY DEF TypeOK
  <2> QED
    BY <2>1, <2>2, <2>3, RecordKeepsBounds
<1>2. SinceProbe' = 0 /\ untilProbe' = Period
  BY DEF SinceProbe
<1>3. TypeOK'
  BY <1>1, <1>2 DEF TypeOK
<1>4. ProbeInv' /\ \A h \in Handlers : AgeInv(h)'
  BY DEF ProbeInv, AgeInv
<1>5. OutageInv'
  BY <1>1, <1>2 DEF OutageInv, SawItUp, Fresh
<1>6. HealthInv'
  BY <1>1, <1>2 DEF HealthInv, SawItDown, Fresh
<1> QED
  BY <1>3, <1>4, <1>5, <1>6

LEMMA ProbeTimesOutKeepsIInv ==
  ASSUME IInv, ProbeTimesOut
  PROVE  IInv'
<1> USE Settings DEF IInv, ProbeTimesOut, deps, cache, handlers
<1> DEFINE since == SinceProbe
<1>1. at[probe] # 0 /\ since = age[probe] /\ since = ProbeTimeout /\ since \in Nat
  BY DEF ProbeInv, SinceProbe, TypeOK
<1>2. healthyFor <= age[probe]
  BY <1>1, ProbeMakesGoodTime, PingsInTime DEF TypeOK
<1>3. /\ failures' \in 0 .. FailureThreshold
      /\ podReady' \in BOOLEAN
      /\ podReady' => /\ failures' < FailureThreshold
                      /\ downFor < CacheTTL + since + failures' * Period
      /\ ~podReady' \/ failures' > 0 => healthyFor < CacheTTL + since
  <2>1. healthyFor < CacheTTL + since
    BY <1>1, <1>2 DEF TypeOK
  <2> HIDE DEF since
  <2> QED
    BY <1>1, <2>1, RecordKeepsBounds DEF since
<1>4. SinceProbe' = since
  BY DEF SinceProbe
<1>5. TypeOK'
  BY <1>3 DEF TypeOK
<1>6. ProbeInv' /\ \A h \in Handlers : AgeInv(h)'
  BY <1>4 DEF ProbeInv, AgeInv
<1> HIDE DEF since
<1>7. OutageInv'
  BY <1>3, <1>4 DEF OutageInv, SawItUp, Fresh
<1>8. HealthInv'
  BY <1>1, <1>3, <1>4 DEF HealthInv, SawItDown, Fresh, TypeOK
<1> QED
  BY <1>5, <1>6, <1>7, <1>8

\* The part of the invariant that is about handlers, for all of them.
HandlersInv ==
  /\ at \in [Handlers -> 0 .. Pings]
  /\ age \in [Handlers -> Nat]
  /\ waited \in [Handlers -> PingTimes]
  /\ hung \in [Handlers -> BOOLEAN]
  /\ ready \in [Handlers -> BOOLEAN]
  /\ \A h \in Handlers : AgeInv(h) /\ SawItUp(h) /\ SawItDown(h)

LEMMA BeginKeepsHandlers ==
  ASSUME IInv, NEW h \in Handlers, Begin(h)
  PROVE  HandlersInv'
<1> USE Settings, PingsInTime, PingTimesAreBounded DEF Begin, StartPing, deps, cache
<1>1. /\ at' \in [Handlers -> 0 .. Pings]
      /\ age' \in [Handlers -> Nat]
      /\ waited' \in [Handlers -> PingTimes]
      /\ hung' \in [Handlers -> BOOLEAN]
      /\ ready' \in [Handlers -> BOOLEAN]
  <2>1. 1 \in 0 .. Pings
    OBVIOUS
  <2> QED
    BY <2>1 DEF IInv, TypeOK
<1>2. /\ at'[h] = 1 /\ age'[h] = 0 /\ waited'[h] = 0
      /\ hung'[h] <=> 1 \in down
      /\ ready'[h]
  BY DEF IInv, TypeOK
<1>3. AgeInv(h)' /\ SawItUp(h)' /\ SawItDown(h)'
  <2>1. (1 - 1) * Latency = 0
    OBVIOUS
  <2>2. /\ watched \in Nat \ {0} /\ healthyFor \in Nat
        /\ 1 \in down => healthyFor = 0
    BY DEF IInv, TypeOK, HealthInv, Deps
  <2>3. AgeInv(h)'
    BY <1>2, <2>1 DEF AgeInv
  <2>4. SawItUp(h)'
    BY <1>2, <2>2 DEF SawItUp
  <2>5. SawItDown(h)'
    BY <1>2, <2>1, <2>2 DEF SawItDown
  <2> QED
    BY <2>3, <2>4, <2>5
<1>4. ASSUME NEW q \in Handlers, q # h
      PROVE  AgeInv(q)' /\ SawItUp(q)' /\ SawItDown(q)'
  <2>1. /\ at'[q] = at[q] /\ age'[q] = age[q] /\ waited'[q] = waited[q]
        /\ hung'[q] = hung[q] /\ ready'[q] = ready[q]
    BY <1>4 DEF IInv, TypeOK
  <2> QED
    BY <2>1 DEF AgeInv, SawItUp, SawItDown, IInv, OutageInv, HealthInv
<1> QED
  BY <1>1, <1>3, <1>4 DEF HandlersInv

LEMMA ClientAsksKeepsIInv ==
  ASSUME IInv, NEW h \in Clients, ClientAsks(h)
  PROVE  IInv'
<1> USE Settings DEF IInv, ClientAsks, Begin, StartPing, deps, cache, kubelet
<1>1. h \in Handlers /\ h # probe
  BY ProbeAssumption DEF Handlers, TypeOK
<1>2. HandlersInv'
  BY <1>1, BeginKeepsHandlers
<1>3. at'[probe] = at[probe] /\ age'[probe] = age[probe]
  BY <1>1 DEF TypeOK
<1>4. TypeOK'
  BY <1>2 DEF TypeOK, HandlersInv
<1>5. ProbeInv'
  BY <1>3 DEF ProbeInv, SinceProbe
<1>6. OutageInv' /\ HealthInv'
  BY <1>2 DEF OutageInv, HealthInv, HandlersInv, SinceProbe, Fresh
<1> QED
  BY <1>2, <1>4, <1>5, <1>6 DEF HandlersInv

LEMMA ProbeMissesKeepsIInv ==
  ASSUME IInv, ProbeMisses
  PROVE  IInv'
<1> USE Settings DEF IInv, ProbeMisses, Begin, StartPing, deps, cache
<1>0. PICK h \in Probers : Begin(h) /\ probe' = h
  OBVIOUS
<1>1. HandlersInv' /\ UNCHANGED <<deps, cache>>
  BY <1>0, BeginKeepsHandlers
<1>2. at'[probe'] = 1 /\ age'[probe'] = 0
  BY <1>0 DEF TypeOK
<1>3. SinceProbe = Period /\ SinceProbe' = 0
  BY DEF SinceProbe
<1>4. TypeOK'
  BY <1>1 DEF TypeOK, HandlersInv
<1>5. ProbeInv'
  BY <1>2, <1>3 DEF ProbeInv
<1>6. OutageInv'
  <2>1. failures \in Nat /\ failures * Period \in Nat /\ (failures + 1) * Period \in Nat
    BY ProductsAreNat DEF TypeOK
  <2>2. (failures + 1) * Period = failures * Period + Period
    BY <2>1, OneMore
  <2>3. podReady => downFor < CacheTTL + 0 + (failures + 1) * Period
    BY <1>3, <2>1, <2>2 DEF OutageInv, TypeOK
  <2> QED
    BY <1>1, <1>3, <2>3 DEF OutageInv, HandlersInv, Fresh
<1>7. HealthInv'
  BY <1>1, <1>3 DEF HealthInv, HandlersInv, Fresh, TypeOK
<1> QED
  BY <1>1, <1>4, <1>5, <1>6, <1>7 DEF HandlersInv

LEMMA NextPingKeepsIInv ==
  ASSUME IInv, NEW h \in Handlers, NEW up \in BOOLEAN, NextPing(h, up)
  PROVE  IInv'
<1> USE Settings DEF IInv, NextPing, StartPing, deps, cache, kubelet
<1>1. /\ at'[h] = at[h] + 1 /\ age'[h] = age[h] /\ waited'[h] = 0
      /\ hung'[h] <=> at[h] + 1 \in down
      /\ ready'[h] <=> ready[h] /\ up
  BY DEF TypeOK
<1>2. /\ at[h] \in Nat \ {0} /\ at[h] < Pings /\ age[h] \in Nat
      /\ waited[h] \in Nat /\ healthyFor \in Nat /\ watched \in Nat
  BY WaitedIsNat DEF TypeOK, Deps
<1>3. AgeInv(h)' /\ SawItUp(h)' /\ SawItDown(h)'
  <2>1. /\ (at[h] - 1) * Latency \in Nat
        /\ (at[h] + 1 - 1) * Latency = (at[h] - 1) * Latency + Latency
    BY <1>2, PingsAddUp
  <2>2. /\ at[h] >= watched /\ ready[h] /\ up => downFor <= age[h]
        /\ ~(ready[h] /\ up) => healthyFor <= age[h]
    BY <1>2, PingTellsTheTruth
  <2>4. healthyFor > age[h] => age[h] <= (at[h] - 1) * Latency + Latency
    BY <1>2, GoodTime
  <2>5. at[h] + 1 \in down => healthyFor = 0
    BY <1>2 DEF HealthInv
  <2>6. AgeInv(h)'
    BY <1>1, <1>2 DEF AgeInv
  <2>7. SawItUp(h)'
    BY <1>1, <1>2, <2>2 DEF SawItUp
  <2>8. SawItDown(h)'
    BY <1>1, <1>2, <2>1, <2>2, <2>4, <2>5 DEF SawItDown
  <2> QED
    BY <2>6, <2>7, <2>8
<1>4. ASSUME NEW q \in Handlers, q # h
      PROVE  AgeInv(q)' /\ SawItUp(q)' /\ SawItDown(q)'
  <2>1. /\ at'[q] = at[q] /\ age'[q] = age[q] /\ waited'[q] = waited[q]
        /\ hung'[q] = hung[q] /\ ready'[q] = ready[q]
    BY <1>4 DEF TypeOK
  <2> QED
    BY <2>1 DEF AgeInv, SawItUp, SawItDown, OutageInv, HealthInv
<1>5. TypeOK'
  BY <1>2, PingTimesAreBounded DEF TypeOK
<1>6. ProbeInv'
  BY <1>1, <1>2 DEF ProbeInv, SinceProbe, TypeOK
<1>7. OutageInv' /\ HealthInv'
  BY <1>3, <1>4 DEF OutageInv, HealthInv, SinceProbe, Fresh
<1> QED
  BY <1>3, <1>4, <1>5, <1>6, <1>7

LEMMA LastPingKeepsIInv ==
  ASSUME IInv, NEW h \in Handlers, NEW up \in BOOLEAN, LastPing(h, up)
  PROVE  IInv'
<1> USE Settings DEF IInv, deps
<1> DEFINE result == ready[h] /\ up
<1>1. /\ at[h] # 0 /\ age[h] \in Nat /\ healthyFor \in Nat /\ downFor \in Nat
      /\ at[h] >= watched
  BY DEF LastPing, TypeOK, Deps
<1>2. /\ result => downFor <= age[h]
      /\ ~result => healthyFor <= age[h]
  BY <1>1, PingTellsTheTruth DEF LastPing
<1>3. /\ cacheAge' \in 0 .. CacheTTL /\ (cacheAge' < CacheTTL => cacheAge' = age[h])
      /\ cacheReady' \in BOOLEAN /\ (cacheReady' <=> result)
      /\ UNCHANGED deps
  <2>1. CacheTTL \in Nat
    OBVIOUS
  <2>2. /\ cacheAge' = (IF age[h] < CacheTTL THEN age[h] ELSE CacheTTL)
        /\ cacheReady' = result
        /\ UNCHANGED deps
    BY DEF LastPing, Store
  <2>3. cacheAge' \in 0 .. CacheTTL /\ (cacheAge' < CacheTTL => cacheAge' = age[h])
    BY <1>1, <2>1, <2>2
  <2> QED
    BY <2>2, <2>3
<1>4. /\ at' = [at EXCEPT ![h] = 0] /\ age' = [age EXCEPT ![h] = 0]
      /\ waited' = [waited EXCEPT ![h] = 0] /\ hung' = [hung EXCEPT ![h] = FALSE]
      /\ ready' = [ready EXCEPT ![h] = FALSE]
  BY DEF LastPing
<1>5. HandlersInv'
  <2>1. /\ at' \in [Handlers -> 0 .. Pings]
        /\ age' \in [Handlers -> Nat]
        /\ waited' \in [Handlers -> PingTimes]
        /\ hung' \in [Handlers -> BOOLEAN]
        /\ ready' \in [Handlers -> BOOLEAN]
    BY <1>4, PingTimesAreBounded DEF TypeOK
  <2>2. AgeInv(h)' /\ SawItUp(h)' /\ SawItDown(h)'
    BY <1>3, <1>4 DEF AgeInv, SawItUp, SawItDown, TypeOK, Deps
  <2>3. ASSUME NEW q \in Handlers, q # h
        PROVE  AgeInv(q)' /\ SawItUp(q)' /\ SawItDown(q)'
    <3>1. /\ at'[q] = at[q] /\ age'[q] = age[q] /\ waited'[q] = waited[q]
          /\ hung'[q] = hung[q] /\ ready'[q] = ready[q]
      BY <1>4, <2>3 DEF TypeOK
    <3> QED
      BY <1>3, <3>1 DEF AgeInv, SawItUp, SawItDown, OutageInv, HealthInv
  <2> QED
    BY <2>1, <2>2, <2>3 DEF HandlersInv
<1>6. CASE h = probe /\ asking
  <2> DEFINE since == SinceProbe
  <2>1. since \in Nat /\ age[probe] = since
    BY <1>1, <1>6 DEF ProbeInv, SinceProbe, TypeOK
  <2>2. Record(result) /\ asking' = FALSE /\ UNCHANGED <<probe, untilProbe>>
    BY <1>6 DEF LastPing, Answered
  <2>3. /\ failures' \in 0 .. FailureThreshold
        /\ podReady' \in BOOLEAN
        /\ podReady' => /\ failures' < FailureThreshold
                        /\ downFor < CacheTTL + since + failures' * Period
        /\ ~podReady' \/ failures' > 0 => healthyFor < CacheTTL + since
    <3>1. /\ result => downFor < CacheTTL + since
          /\ ~result => healthyFor < CacheTTL + since
      BY <1>1, <1>2, <1>6, <2>1
    <3>2. result \in BOOLEAN
      OBVIOUS
    <3> HIDE DEF since, result
    <3> QED
      BY <1>6, <2>1, <2>2, <3>1, <3>2, RecordKeepsBounds DEF since
  <2>4. SinceProbe' = since
    BY <2>2 DEF SinceProbe
  <2> HIDE DEF since, result
  <2>5. TypeOK'
    BY <1>3, <1>5, <2>2, <2>3 DEF TypeOK, HandlersInv
  <2>6. ProbeInv'
    BY <1>4, <1>6, <2>2 DEF ProbeInv, TypeOK
  <2>7. OutageInv'
    BY <1>2, <1>3, <1>5, <2>2, <2>3, <2>4 DEF OutageInv, HandlersInv, Fresh
  <2>8. HealthInv'
    BY <1>2, <1>3, <1>5, <2>1, <2>2, <2>3, <2>4 DEF HealthInv, HandlersInv, Fresh, TypeOK
  <2> QED
    BY <1>5, <2>5, <2>6, <2>7, <2>8 DEF HandlersInv
<1>7. CASE ~(h = probe /\ asking)
  <2>1. UNCHANGED kubelet
    BY <1>7 DEF LastPing, Answered
  <2>2. TypeOK'
    BY <1>3, <1>5, <2>1 DEF TypeOK, HandlersInv, kubelet
  <2>3. ProbeInv'
    BY <1>4, <1>7, <2>1 DEF ProbeInv, SinceProbe, TypeOK, kubelet
  <2>4. OutageInv'
    BY <1>2, <1>3, <1>5, <2>1 DEF OutageInv, HandlersInv, Fresh, SinceProbe, kubelet
  <2>5. HealthInv'
    BY <1>2, <1>3, <1>5, <2>1 DEF HealthInv, HandlersInv, Fresh, SinceProbe, kubelet
  <2> QED
    BY <1>5, <2>2, <2>3, <2>4, <2>5 DEF HandlersInv
<1> QED
  BY <1>6, <1>7

\* Every bound and the age it is compared with move together.
LEMMA AdvanceKeepsIInv ==
  ASSUME IInv, Advance
  PROVE  IInv'
<1> USE Settings, PingsInTime DEF IInv, Advance
<1>1. /\ untilProbe \in 1 .. Period /\ untilProbe' \in 0 .. Period
      /\ SinceProbe \in Nat /\ SinceProbe' = SinceProbe + 1
      /\ asking => SinceProbe' <= ProbeTimeout
  BY DEF SinceProbe, TypeOK, ProbeInv
<1>2. /\ downFor' \in 0 .. OutageBound + 1 /\ downFor' <= downFor + 1
      /\ downFor' > 0 => watched \in down
      /\ healthyFor' \in 0 .. RecoveryBound + 1 /\ healthyFor' <= healthyFor + 1
      /\ healthyFor' > 0 => down = {}
      /\ cacheAge' \in 0 .. CacheTTL
      /\ cacheAge' < CacheTTL => cacheAge < CacheTTL /\ cacheAge' = cacheAge + 1
  <2>1. ASSUME NEW limit \in Nat, NEW n \in 0 .. limit
        PROVE  Upto(limit, n) \in 0 .. limit /\ Upto(limit, n) <= n + 1
               /\ (Upto(limit, n) < limit => Upto(limit, n) = n + 1 /\ n < limit)
    BY DEF Upto
  <2> DEFINE outage == Upto(OutageBound + 1, downFor)
             health == Upto(RecoveryBound + 1, healthyFor)
             entry == Upto(CacheTTL, cacheAge)
  <2>2. /\ downFor' = IF watched \in down THEN outage ELSE 0
        /\ healthyFor' = IF down = {} THEN health ELSE 0
        /\ cacheAge' = entry
    OBVIOUS
  <2>3. /\ downFor \in 0 .. OutageBound + 1 /\ OutageBound + 1 \in Nat
        /\ healthyFor \in 0 .. RecoveryBound + 1 /\ RecoveryBound + 1 \in Nat
        /\ cacheAge \in 0 .. CacheTTL /\ CacheTTL \in Nat
    BY DEF TypeOK
  <2>4. /\ outage \in 0 .. OutageBound + 1 /\ outage <= downFor + 1
        /\ health \in 0 .. RecoveryBound + 1 /\ health <= healthyFor + 1
        /\ entry \in 0 .. CacheTTL
        /\ entry < CacheTTL => entry = cacheAge + 1 /\ cacheAge < CacheTTL
    BY <2>1, <2>3
  <2> HIDE DEF outage, health, entry
  <2> QED
    BY <2>2, <2>3, <2>4
<1>3. ASSUME NEW h \in Handlers, at[h] # 0
      PROVE  /\ age'[h] = age[h] + 1 /\ waited'[h] = waited[h] + 1
             /\ waited[h] < PingTimeout[at[h]] /\ at[h] \in Deps
             /\ ~hung[h] => waited[h] < Latency
             /\ at[h] \in Nat \ {0} /\ at[h] <= Pings
             /\ age[h] \in Nat /\ waited[h] \in Nat
  <2>1. waited[h] \in Nat /\ waited[h] < PingTimeout[at[h]] /\ (~hung[h] => waited[h] < Latency)
    BY <1>3, WaitedIsNat DEF MayTakeLonger
  <2> QED
    BY <1>3, <2>1 DEF TypeOK, Deps
<1>4. ASSUME NEW h \in Handlers
      PROVE  /\ AgeInv(h)' /\ SawItUp(h)' /\ SawItDown(h)'
             /\ age'[h] \in Nat /\ waited'[h] \in PingTimes
  <2>1. CASE at[h] = 0
    BY <2>1, PingTimesAreBounded DEF AgeInv, SawItUp, SawItDown, TypeOK, Deps
  <2>2. CASE at[h] # 0
    <3>1. (at[h] - 1) * Latency \in Nat
      BY <1>3, <2>2, PingsAddUp
    <3>2. /\ downFor \in Nat /\ downFor' \in Nat /\ healthyFor \in Nat /\ healthyFor' \in Nat
      BY <1>2 DEF TypeOK
    <3>3. AgeInv(h)'
      BY <1>3, <2>2 DEF AgeInv
    <3>4. SawItUp(h)'
      BY <1>2, <1>3, <2>2, <3>2 DEF SawItUp, OutageInv
    <3>5. SawItDown(h)'
      BY <1>2, <1>3, <2>2, <3>1, <3>2 DEF SawItDown, HealthInv
    <3>6. age'[h] \in Nat /\ waited'[h] \in PingTimes
      <4>1. waited[h] + 1 \in Nat /\ waited[h] + 1 <= PingTimeout[at[h]]
        BY <1>3, <2>2
      <4>2. waited'[h] \in PingTimes
        BY <1>3, <2>2, <4>1, PingTimesAreBounded
      <4> QED
        BY <1>3, <2>2, <4>2
    <3> QED
      BY <3>3, <3>4, <3>5, <3>6
  <2> QED
    BY <2>1, <2>2
<1>5. TypeOK'
  <2>1. age' \in [Handlers -> Nat]
    BY <1>4
  <2>2. waited' \in [Handlers -> PingTimes]
    BY <1>4
  <2> QED
    BY <1>1, <1>2, <2>1, <2>2 DEF TypeOK
<1>6. ProbeInv'
  <2>1. probe \in Handlers
    BY DEF TypeOK
  <2>2. asking => at[probe] # 0 /\ age[probe] = SinceProbe
    BY DEF ProbeInv
  <2> QED
    BY <1>1, <1>3, <2>1, <2>2 DEF ProbeInv
<1>7. OutageInv'
  <2>1. podReady =>
          downFor' < CacheTTL + SinceProbe'
                       + (IF asking THEN failures + 1 ELSE failures) * Period
    <3> DEFINE sent == IF asking THEN failures + 1 ELSE failures
    <3>1. sent * Period \in Nat
      BY ProductsAreNat DEF TypeOK
    <3>2. podReady => downFor < CacheTTL + SinceProbe + sent * Period
      BY DEF OutageInv
    <3> HIDE DEF sent
    <3>3. podReady => downFor' < CacheTTL + SinceProbe' + sent * Period
      BY <1>1, <1>2, <3>1, <3>2 DEF TypeOK
    <3> QED
      BY <3>3 DEF sent
  <2>2. Fresh' /\ cacheReady => downFor' <= cacheAge'
    BY <1>2 DEF OutageInv, Fresh, TypeOK
  <2> QED
    BY <1>2, <1>4, <2>1, <2>2 DEF OutageInv
<1>8. HealthInv'
  <2>1. ~podReady \/ failures > 0 =>
          healthyFor' < CacheTTL + SinceProbe' + (IF asking THEN Period ELSE 0)
    BY <1>1, <1>2 DEF HealthInv, TypeOK
  <2>2. Fresh' /\ ~cacheReady => healthyFor' <= cacheAge'
    BY <1>2 DEF HealthInv, Fresh, TypeOK
  <2> QED
    BY <1>2, <1>4, <2>1, <2>2 DEF HealthInv
<1> QED
  BY <1>4, <1>5, <1>6, <1>7, <1>8

LEMMA FailKeepsIInv ==
  ASSUME IInv, NEW d \in Deps, Fail(d)
  PROVE  IInv'
<1> USE Settings DEF IInv, Fail, cache, kubelet
<1>1. ASSUME NEW h \in Handlers
      PROVE  hung'[h] <=> hung[h] \/ at[h] = d
  BY <1>1
<1>2. TypeOK'
  BY DEF TypeOK, RecoveryBound
<1>3. ProbeInv' /\ \A h \in Handlers : AgeInv(h)'
  BY <1>1 DEF ProbeInv, AgeInv, SinceProbe
<1>4. OutageInv'
  BY DEF OutageInv, SawItUp, Fresh, SinceProbe
<1>5. HealthInv'
  <2>1. SinceProbe \in Nat
    BY DEF SinceProbe, TypeOK
  <2>2. ASSUME NEW h \in Handlers PROVE SawItDown(h)'
    BY <1>1, WaitedIsNat DEF SawItDown, TypeOK
  <2> QED
    BY <2>1, <2>2 DEF HealthInv, Fresh, SinceProbe, TypeOK
<1> QED
  BY <1>2, <1>3, <1>4, <1>5

LEMMA RecoverKeepsIInv ==
  ASSUME IInv, NEW d \in Deps, Recover(d)
  PROVE  IInv'
<1> USE Settings DEF IInv, Recover, cache, handlers, kubelet
<1>1. /\ downFor' <= downFor /\ downFor' \in 0 .. OutageBound + 1 /\ downFor \in Nat
      /\ downFor' > 0 => watched \in down'
  BY PingsInTime DEF TypeOK, OutageInv
<1>2. TypeOK'
  BY <1>1 DEF TypeOK
<1>3. ProbeInv' /\ \A h \in Handlers : AgeInv(h)'
  BY DEF ProbeInv, AgeInv, SinceProbe
<1>4. OutageInv'
  <2>1. \A h \in Handlers : SawItUp(h)'
    BY <1>1 DEF OutageInv, SawItUp, TypeOK
  <2>2. Fresh' /\ cacheReady' => downFor' <= cacheAge'
    BY <1>1 DEF OutageInv, Fresh, TypeOK
  <2>3. podReady' => downFor' < CacheTTL + SinceProbe
                                + (IF asking THEN failures + 1 ELSE failures) * Period
    <3> DEFINE limit == CacheTTL + SinceProbe
                          + (IF asking THEN failures + 1 ELSE failures) * Period
    <3>1. limit \in Nat
      <4>1. (IF asking THEN failures + 1 ELSE failures) \in Nat
        BY DEF TypeOK
      <4>2. (IF asking THEN failures + 1 ELSE failures) * Period \in Nat
        BY <4>1, ProductsAreNat
      <4> QED
        BY <4>2 DEF SinceProbe, TypeOK
    <3>2. podReady => downFor < limit
      BY DEF OutageInv
    <3> HIDE DEF limit
    <3>3. podReady => downFor' < limit
      BY <1>1, <3>1, <3>2
    <3> QED
      BY <3>3 DEF limit
  <2> QED
    BY <1>1, <2>1, <2>2, <2>3 DEF OutageInv, SinceProbe
<1>5. HealthInv'
  BY DEF HealthInv, SawItDown, Fresh, SinceProbe
<1> QED
  BY <1>2, <1>3, <1>4, <1>5

LEMMA StutteringKeepsIInv ==
  ASSUME IInv, UNCHANGED vars
  PROVE  IInv'
<1> USE DEF IInv, vars, deps, cache, handlers, kubelet
<1>1. TypeOK'
  BY DEF TypeOK
<1>2. ProbeInv' /\ \A h \in Handlers : AgeInv(h)'
  BY DEF ProbeInv, AgeInv, SinceProbe
<1>3. OutageInv'
  BY DEF OutageInv, SawItUp, Fresh, SinceProbe
<1>4. HealthInv'
  BY DEF HealthInv, SawItDown, Fresh, SinceProbe
<1> QED
  BY <1>1, <1>2, <1>3, <1>4

-----------------------------------------------------------------------------
THEOREM IInvAlways == Spec => []IInv
<1>1. ASSUME IInv, [Next]_vars
      PROVE  IInv'
  <2>1. CASE ProbeHits \/ ProbeMisses \/ ProbeTimesOut
    BY <1>1, <2>1, ProbeHitsKeepsIInv, ProbeMissesKeepsIInv, ProbeTimesOutKeepsIInv
  <2>2. ASSUME NEW h \in Clients, ClientAsks(h)
        PROVE  IInv'
    BY <1>1, <2>2, ClientAsksKeepsIInv
  <2>3. ASSUME NEW h \in Handlers, NEW up \in BOOLEAN, NextPing(h, up) \/ LastPing(h, up)
        PROVE  IInv'
    BY <1>1, <2>3, NextPingKeepsIInv, LastPingKeepsIInv
  <2>4. CASE Advance
    BY <1>1, <2>4, AdvanceKeepsIInv
  <2>5. ASSUME NEW d \in Deps, Fail(d) \/ Recover(d)
        PROVE  IInv'
    BY <1>1, <2>5, FailKeepsIInv, RecoverKeepsIInv
  <2>6. CASE UNCHANGED vars
    BY <1>1, <2>6, StutteringKeepsIInv
  <2> QED
    BY <1>1, <2>1, <2>2, <2>3, <2>4, <2>5, <2>6 DEF Next, Event
<1> QED
  BY <1>1, InitEstablishesIInv, PTL DEF Spec

\* Every variable keeps its type.
THEOREM TypesAreRight == Spec => []TypeOK
<1>1. IInv => TypeOK
  BY DEF IInv
<1> QED
  BY <1>1, IInvAlways, PTL

\* An outage reaches the pod within the TTL, the threshold's probes and a timeout.
THEOREM OutageTakesPodOutAlways == Spec => []OutageTakesPodOut
<1>1. IInv => OutageTakesPodOut
  <2> SUFFICES ASSUME IInv, podReady PROVE downFor <= OutageBound
    BY PingsInTime DEF OutageTakesPodOut, IInv, TypeOK
  <2> USE Settings
  <2> DEFINE last == FailureThreshold - 1
  <2>1. /\ last \in Nat /\ failures \in Nat /\ failures <= last
        /\ SinceProbe \in Nat /\ SinceProbe <= Period
        /\ asking => SinceProbe <= ProbeTimeout
        /\ downFor \in Nat
    BY DEF IInv, TypeOK, ProbeInv, OutageInv, SinceProbe
  <2>2. /\ failures * Period <= last * Period
        /\ failures * Period \in Nat /\ last * Period \in Nat
        /\ (failures + 1) * Period = failures * Period + Period
    BY <2>1, ProductsAreNat, ProductsAreMonotone, OneMore
  <2>3. CASE asking
    <3>1. downFor < CacheTTL + SinceProbe + (failures + 1) * Period
      BY <2>3 DEF IInv, OutageInv
    <3> QED
      BY <2>1, <2>2, <2>3, <3>1 DEF OutageBound
  <2>4. CASE ~asking
    <3>1. downFor < CacheTTL + SinceProbe + failures * Period
      BY <2>4 DEF IInv, OutageInv
    <3> QED
      BY <2>1, <2>2, <3>1 DEF OutageBound
  <2> QED
    BY <2>3, <2>4
<1> QED
  BY <1>1, IInvAlways, PTL

\* All has been well for so long only if the last probe succeeded.
LEMMA TroubleIsRecent ==
  ASSUME IInv, ~podReady \/ failures > 0
  PROVE  healthyFor <= RecoveryBound
<1> USE Settings
<1>1. /\ SinceProbe \in Nat /\ SinceProbe <= Period
      /\ healthyFor \in Nat
      /\ healthyFor < CacheTTL + SinceProbe + (IF asking THEN Period ELSE 0)
  BY DEF IInv, TypeOK, HealthInv, SinceProbe
<1>2. CASE asking
  <2>1. SinceProbe <= ProbeTimeout
    BY <1>2 DEF IInv, ProbeInv
  <2>2. healthyFor > SinceProbe => SinceProbe <= Pings * Latency
    BY <1>2, ProbeMakesGoodTime
  <2> QED
    BY <1>1, <1>2, <2>1, <2>2, PingsInTime DEF RecoveryBound
<1>3. CASE ~asking
  BY <1>1, <1>3, PingsInTime DEF RecoveryBound
<1> QED
  BY <1>2, <1>3

\* The end of all outages reaches the pod within the TTL, a period and the pings.
THEOREM HealthyPodIsReadyAlways == Spec => []HealthyPodIsReady
<1>1. IInv => HealthyPodIsReady
  BY TroubleIsRecent, PingsInTime DEF HealthyPodIsReady, IInv, TypeOK
<1> QED
  BY <1>1, IInvAlways, PTL

\* What makes a probe fail: an entry that is still fresh, or what its own pings have met.
LEMMA FailedProbeMetTrouble ==
  ASSUME IInv, [Next]_vars, failures' # failures, failures' # 0
  PROVE  \/ ~asking /\ untilProbe = 0 /\ healthyFor < CacheTTL
         \/ asking /\ healthyFor <= SinceProbe
<1> USE Settings DEF IInv
<1>1. CASE ProbeHits
  <2>1. ~cacheReady /\ ~asking /\ untilProbe = 0 /\ Fresh
    BY <1>1 DEF ProbeHits, Record
  <2> QED
    BY <2>1 DEF HealthInv, Fresh, TypeOK
<1>2. CASE ProbeTimesOut
  <2>1. asking /\ SinceProbe = ProbeTimeout /\ at[probe] # 0
    BY <1>2 DEF ProbeTimesOut, SinceProbe, ProbeInv
  <2> QED
    BY <2>1, ProbeMakesGoodTime, PingsInTime DEF TypeOK
<1>3. ASSUME NEW h \in Handlers, NEW up \in BOOLEAN, LastPing(h, up)
      PROVE  asking /\ healthyFor <= SinceProbe
  <2>1. h = probe /\ asking /\ Record(ready[h] /\ up)
    BY <1>3 DEF LastPing, Answered, kubelet
  <2>2. ~(ready[h] /\ up)
    BY <2>1 DEF Record
  <2>3. at[h] # 0 /\ Result(h, up)
    BY <1>3 DEF LastPing
  <2>4. healthyFor <= age[h]
    BY <2>2, <2>3, PingTellsTheTruth
  <2> QED
    BY <2>1, <2>3, <2>4 DEF ProbeInv
<1>4. ASSUME NEW h \in Handlers, NEW up \in BOOLEAN, NextPing(h, up)
      PROVE  UNCHANGED failures
  BY <1>4 DEF NextPing, kubelet
<1>5. CASE \/ ProbeMisses \/ Advance \/ UNCHANGED vars
           \/ \E h \in Clients : ClientAsks(h)
           \/ \E d \in Deps : Fail(d) \/ Recover(d)
  BY <1>5 DEF ProbeMisses, Advance, vars, ClientAsks, Fail, Recover, kubelet
<1> QED
  BY <1>1, <1>2, <1>3, <1>4, <1>5 DEF Next, Event

\* A pod goes out with a probe that failed.
LEMMA PodGoesOutWithAFailure ==
  ASSUME IInv, [Next]_vars, podReady, ~podReady'
  PROVE  failures' = failures + 1 /\ failures' = FailureThreshold
<1> USE Settings DEF IInv
<1>1. ASSUME NEW success \in BOOLEAN, Record(success)
      PROVE  failures' = failures + 1 /\ failures' = FailureThreshold
  <2>1. ~success /\ ~(failures' < FailureThreshold)
    BY <1>1 DEF Record
  <2>2. failures < FailureThreshold
    BY DEF OutageInv
  <2>3. failures' = failures + 1
    BY <1>1, <2>1, <2>2 DEF Record
  <2> QED
    BY <2>1, <2>2, <2>3 DEF TypeOK
<1>2. CASE ProbeHits \/ ProbeTimesOut
  BY <1>1, <1>2 DEF ProbeHits, ProbeTimesOut, TypeOK
<1>3. ASSUME NEW h \in Handlers, NEW up \in BOOLEAN, NextPing(h, up) \/ LastPing(h, up)
      PROVE  \E success \in BOOLEAN : Record(success)
  BY <1>3 DEF NextPing, LastPing, Answered, kubelet
<1>4. CASE \/ ProbeMisses \/ Advance \/ UNCHANGED vars
           \/ \E h \in Clients : ClientAsks(h)
           \/ \E d \in Deps : Fail(d) \/ Recover(d)
  BY <1>4 DEF ProbeMisses, Advance, vars, ClientAsks, Fail, Recover, kubelet
<1> QED
  BY <1>1, <1>2, <1>3, <1>4 DEF Next, Event

=============================================================================
