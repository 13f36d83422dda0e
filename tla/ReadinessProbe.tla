---------------------------- MODULE ReadinessProbe ----------------------------
(***************************************************************************)
(* The readiness probe of src/deploy/k8s/deployment.yaml against /readyz:  *)
(* what an outage, and the end of one, do to the pod.                      *)
(*                                                                         *)
(* The kubelet asks every Period, takes no answer within ProbeTimeout for  *)
(* a failure, and changes its mind after FailureThreshold failures in a    *)
(* row or one success.  The handler of a probe it gave up on runs on: the  *)
(* pings use context.Background(), and those of Redis wait longer than     *)
(* their context.  Other clients ask too, and write the cache the probe    *)
(* reads.                                                                  *)
(*                                                                         *)
(* Against seconds a handler's own steps take no time, so each stretch of  *)
(* readinessSnapshot between two pings is one step here; ReadinessCache    *)
(* has them one by one, with the lock.  Times are ages, counted up to the  *)
(* largest that matters: the behaviours are unbounded.                     *)
(***************************************************************************)
EXTENDS Naturals

CONSTANTS
  Probers,           \* handlers of the kubelet's requests, as many as ever run at once
  Clients,           \* handlers of other requests to /readyz
  Pings,             \* how many dependencies are enabled
  Watched,           \* those of them whose outages the history may time
  CacheTTL,          \* SystemService.cacheTTL
  PingTimeout,       \* per dependency: how long its client may wait in one ping
  Latency,           \* how long a working dependency may take to answer one
  InitialDelay,      \* initialDelaySeconds
  Period,            \* periodSeconds
  ProbeTimeout,      \* timeoutSeconds
  FailureThreshold   \* failureThreshold, 3 where the manifest is silent

ASSUME ProbeAssumption ==
  /\ Probers # {} /\ Probers \cap Clients = {}
  /\ {Pings, CacheTTL, ProbeTimeout, FailureThreshold} \subseteq Nat \ {0}
  /\ {Latency, InitialDelay, Period} \subseteq Nat
  /\ Watched \subseteq 1 .. Pings
  /\ PingTimeout \in [1 .. Pings -> Nat]
  /\ \A d \in 1 .. Pings : Latency < PingTimeout[d]
  /\ Pings * Latency < ProbeTimeout
  /\ ProbeTimeout < Period
  /\ InitialDelay <= Period

Handlers == Clients \cup Probers
Deps == 1 .. Pings      \* the enabled dependencies, in the order of the pings

\* The promises: how long an outage, or the end of one, may go unnoticed.
OutageBound == CacheTTL + (Period - 1) + (FailureThreshold - 1) * Period + ProbeTimeout
RecoveryBound == CacheTTL + (Period - 1) + Pings * Latency

VARIABLES
  down,         \* the dependencies that do not answer
  watched,      \* history: a dependency,
  downFor,      \* how long its current outage has lasted,
  healthyFor,   \* and how long every dependency has worked
  cacheAge,     \* now - SystemService.cacheAt; CacheTTL also if there is no entry
  cacheReady,   \* SystemService.cacheReady
  at,           \* per handler: the dependency it pings, 0 when it does not run
  age,          \* per handler: the time since its local variable now
  waited,       \* per handler: how long its ping has run
  hung,         \* per handler: the dependency was down at some time of this ping
  ready,        \* per handler: no ping so far has failed
  asking,       \* the kubelet waits for the answer to its probe
  probe,        \* from the handler of its last probe that no entry answered
  untilProbe,   \* the time to its next probe
  failures,     \* failed probes in a row, counted up to FailureThreshold
  podReady      \* the pod receives traffic

deps == <<down, watched, downFor, healthyFor>>
cache == <<cacheAge, cacheReady>>
handlers == <<at, age, waited, hung, ready>>
kubelet == <<asking, probe, untilProbe, failures, podReady>>
vars == <<deps, cache, handlers, kubelet>>

PingTimes == UNION {0 .. PingTimeout[d] : d \in Deps}

TypeOK ==
  /\ down \subseteq Deps
  /\ watched \in Watched
  /\ downFor \in 0 .. OutageBound + 1
  /\ healthyFor \in 0 .. RecoveryBound + 1
  /\ cacheAge \in 0 .. CacheTTL
  /\ cacheReady \in BOOLEAN
  /\ at \in [Handlers -> 0 .. Pings]
  /\ age \in [Handlers -> Nat]
  /\ waited \in [Handlers -> PingTimes]
  /\ hung \in [Handlers -> BOOLEAN]
  /\ ready \in [Handlers -> BOOLEAN]
  /\ asking \in BOOLEAN
  /\ probe \in Probers
  /\ untilProbe \in 0 .. Period
  /\ failures \in 0 .. FailureThreshold
  /\ podReady \in BOOLEAN

\* A pod is not ready before its first successful probe.
Init ==
  /\ down = {}
  /\ watched \in Watched
  /\ downFor = 0
  /\ healthyFor = 0
  /\ cacheAge = CacheTTL
  /\ cacheReady = FALSE
  /\ at = [h \in Handlers |-> 0]
  /\ age = [h \in Handlers |-> 0]
  /\ waited = [h \in Handlers |-> 0]
  /\ hung = [h \in Handlers |-> FALSE]
  /\ ready = [h \in Handlers |-> FALSE]
  /\ asking = FALSE
  /\ probe \in Probers
  /\ untilProbe = InitialDelay
  /\ failures = 0
  /\ podReady = FALSE

-----------------------------------------------------------------------------
(* The kubelet.                                                             *)

\* 200 is a success; 503, and no answer, a failure.
Record(success) ==
  /\ failures' = IF success THEN 0
                 ELSE IF failures < FailureThreshold THEN failures + 1 ELSE failures
  /\ podReady' = (success \/ (podReady /\ failures' < FailureThreshold))

\* Fault: the answer to a probe that was given up counts as well.
AnsweredLate(h, success) ==
  IF h = probe
    THEN Record(success) /\ asking' = FALSE /\ UNCHANGED <<probe, untilProbe>>
    ELSE UNCHANGED kubelet

\* The answer to a probe that was given up is ignored.
Answered(h, success) ==
  IF h = probe /\ asking
    THEN Record(success) /\ asking' = FALSE /\ UNCHANGED <<probe, untilProbe>>
    ELSE UNCHANGED kubelet

\* An answer that comes at the same moment may be too late.
ProbeTimesOut ==
  /\ asking
  /\ Period - untilProbe = ProbeTimeout
  /\ Record(FALSE)
  /\ asking' = FALSE
  /\ UNCHANGED <<probe, untilProbe, deps, cache, handlers>>

-----------------------------------------------------------------------------
(* readinessSnapshot, from ping to ping.                                    *)

\* Faults: an entry that says "ready" does not expire, or one that does not.
FreshWhileReady == cacheAge < CacheTTL \/ cacheReady
FreshWhileDown == cacheAge < CacheTTL \/ ~cacheReady

Fresh == cacheAge < CacheTTL

StartPing(h, d) ==
  /\ at' = [at EXCEPT ![h] = d]
  /\ waited' = [waited EXCEPT ![h] = 0]
  /\ hung' = [hung EXCEPT ![h] = d \in down]

\* now := time.Now(), and a miss.
Begin(h) ==
  /\ at[h] = 0
  /\ ~Fresh
  /\ StartPing(h, 1)
  /\ age' = [age EXCEPT ![h] = 0]
  /\ ready' = [ready EXCEPT ![h] = TRUE]
  /\ UNCHANGED <<deps, cache>>

\* A client that is answered from the cache changes nothing.
ClientAsks(h) == Begin(h) /\ UNCHANGED kubelet

ProbeHits ==
  /\ ~asking /\ untilProbe = 0
  /\ Fresh
  /\ Record(cacheReady)
  /\ untilProbe' = Period
  /\ UNCHANGED <<asking, probe, deps, cache, handlers>>

\* Handlers of earlier probes may still run.
ProbeMisses ==
  /\ ~asking /\ untilProbe = 0
  /\ \E h \in Probers : Begin(h) /\ probe' = h
  /\ asking' = TRUE
  /\ untilProbe' = Period
  /\ UNCHANGED <<failures, podReady>>

\* A ping fails because the dependency is down or because its time is up.
Result(h, up) ==
  IF up THEN at[h] \notin down ELSE at[h] \in down \/ waited[h] = PingTimeout[at[h]]

\* The next dependency is pinged whatever the last one said.
NextPing(h, up) ==
  /\ at[h] \in 1 .. Pings - 1
  /\ Result(h, up)
  /\ StartPing(h, at[h] + 1)
  /\ ready' = [ready EXCEPT ![h] = @ /\ up]
  /\ UNCHANGED <<deps, cache, age, kubelet>>

\* The entry is as old as the handler, and replaces a newer one.
Store(h, result) ==
  /\ cacheAge' = IF age[h] < CacheTTL THEN age[h] ELSE CacheTTL
  /\ cacheReady' = result

LastPing(h, up) ==
  /\ at[h] = Pings
  /\ Result(h, up)
  /\ Store(h, ready[h] /\ up)
  /\ Answered(h, ready[h] /\ up)
  /\ at' = [at EXCEPT ![h] = 0]
  /\ age' = [age EXCEPT ![h] = 0]
  /\ waited' = [waited EXCEPT ![h] = 0]
  /\ hung' = [hung EXCEPT ![h] = FALSE]
  /\ ready' = [ready EXCEPT ![h] = FALSE]
  /\ UNCHANGED deps

-----------------------------------------------------------------------------
(* Time and the dependencies.                                               *)

Upto(limit, n) == IF n < limit THEN n + 1 ELSE limit

\* Fault: a ping has no deadline of its own.
MayTakeForever(h) == hung[h] \/ waited[h] < Latency

\* A working dependency answers in time; one that was down may leave the ping to
\* the end: the second of its context, but for Redis the ReadTimeout of a client
\* without ContextTimeoutEnabled, after up to a second for a new connection.
MayTakeLonger(h) ==
  waited[h] < PingTimeout[at[h]] /\ (hung[h] \/ waited[h] < Latency)

\* Time never passes a moment at which something is due.
Advance ==
  /\ \A h \in Handlers : at[h] # 0 => MayTakeLonger(h)
  /\ IF asking THEN Period - untilProbe < ProbeTimeout ELSE untilProbe > 0
  /\ untilProbe' = untilProbe - 1
  /\ age' = [h \in Handlers |-> IF at[h] = 0 THEN 0 ELSE age[h] + 1]
  /\ waited' = [h \in Handlers |-> IF at[h] = 0 THEN 0 ELSE waited[h] + 1]
  /\ cacheAge' = Upto(CacheTTL, cacheAge)
  /\ downFor' = IF watched \in down THEN Upto(OutageBound + 1, downFor) ELSE 0
  /\ healthyFor' = IF down = {} THEN Upto(RecoveryBound + 1, healthyFor) ELSE 0
  /\ UNCHANGED <<down, watched, cacheReady, at, hung, ready, asking, probe, failures, podReady>>

Fail(d) ==
  /\ d \notin down
  /\ down' = down \cup {d}
  /\ healthyFor' = 0
  /\ hung' = [h \in Handlers |-> hung[h] \/ at[h] = d]
  /\ UNCHANGED <<watched, downFor, cache, at, age, waited, ready, kubelet>>

Recover(d) ==
  /\ d \in down
  /\ down' = down \ {d}
  /\ downFor' = IF d = watched THEN 0 ELSE downFor
  /\ UNCHANGED <<watched, healthyFor, cache, handlers, kubelet>>

\* What takes no time.
Event ==
  \/ ProbeHits \/ ProbeMisses \/ ProbeTimesOut
  \/ \E h \in Clients : ClientAsks(h)
  \/ \E h \in Handlers, up \in BOOLEAN : NextPing(h, up) \/ LastPing(h, up)
  \/ \E d \in Deps : Fail(d) \/ Recover(d)

Next == Event \/ Advance

Spec == Init /\ [][Next]_vars

-----------------------------------------------------------------------------
(* What the probe and the cache promise together.                           *)

\* A dependency that stays down takes the pod out of service: a probe sent CacheTTL
\* or more into the outage fails, and so do the ones after it.
OutageTakesPodOut == downFor > OutageBound => ~podReady

\* Once every dependency works again the pod is back, after the first probe that no
\* entry made during the outage can answer, and stays: the pings, one after the
\* other, come within ProbeTimeout.
HealthyPodIsReady == healthyFor > RecoveryBound => podReady

-----------------------------------------------------------------------------
(* The inductive invariant behind these promises.  Each clock of the history *)
(* is bounded by an age that moves with it.                                 *)

\* The time since the last probe was sent.
SinceProbe == Period - untilProbe

\* A probe is given up in time, and its handler began when it was sent.
ProbeInv ==
  asking =>
    /\ at[probe] # 0 /\ age[probe] = SinceProbe
    /\ SinceProbe <= ProbeTimeout

\* A ping is not older than its handler, and longer than it need be only for an outage.
AgeInv(h) ==
  at[h] # 0 =>
    /\ waited[h] <= age[h]
    /\ ~hung[h] => waited[h] <= Latency

\* Whoever has found the watched dependency up began before its outage.
SawItUp(h) == at[h] > watched /\ ready[h] => downFor <= age[h]

\* Probes sent CacheTTL or more into the outage have failed, all but the one that
\* is still out.
OutageInv ==
  /\ downFor > 0 => watched \in down
  /\ Fresh /\ cacheReady => downFor <= cacheAge
  /\ \A h \in Handlers : SawItUp(h)
  /\ podReady =>
       /\ failures < FailureThreshold
       /\ downFor < CacheTTL + SinceProbe
                      + (IF asking THEN failures + 1 ELSE failures) * Period

\* Whoever has found anything down began before all was well; one that began later
\* makes good time.
SawItDown(h) ==
  at[h] # 0 =>
    /\ hung[h] => healthyFor <= waited[h]
    /\ ~ready[h] => healthyFor <= age[h]
    /\ healthyFor > age[h] => age[h] <= (at[h] - 1) * Latency + waited[h]

\* A probe sent CacheTTL or more after the last outage succeeds.
HealthInv ==
  /\ healthyFor > 0 => down = {}
  /\ Fresh /\ ~cacheReady => healthyFor <= cacheAge
  /\ \A h \in Handlers : SawItDown(h)
  /\ ~podReady \/ failures > 0 =>
       healthyFor < CacheTTL + SinceProbe + (IF asking THEN Period ELSE 0)

IInv ==
  /\ TypeOK
  /\ ProbeInv
  /\ \A h \in Handlers : AgeInv(h)
  /\ OutageInv
  /\ HealthInv

=============================================================================
