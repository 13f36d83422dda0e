------------------------ MODULE ReadinessCacheProofs ------------------------
(***************************************************************************)
(* The promises of /readyz hold for any number of concurrent requests, any *)
(* set of enabled dependencies, any TTL, ping timeout and bound on time.   *)
(* IInv (in ReadinessCache) is inductive and implies each of them.         *)
(***************************************************************************)
EXTENDS ReadinessCache, TLAPS

USE ConstantsAssumption DEF Zero, Time, Deps, Statuses, Steps, mu!LockTypeOK

LEMMA InitEstablishesIInv == Init => IInv
<1> SUFFICES ASSUME Init PROVE IInv
  OBVIOUS
<1> USE DEF Init, mu!LockInit
<1>1. TypeOK
  BY DEF TypeOK
<1>2. LockInv /\ ClockInv
  BY DEF LockInv, ClockInv
<1>3. UpInv /\ CacheInv
  BY DEF UpInv, CacheInv
<1>4. \A r \in Requests : RequestInv(r)
  BY DEF RequestInv
<1> QED
  BY <1>1, <1>2, <1>3, <1>4 DEF IInv

-----------------------------------------------------------------------------
(* One lemma per action.                                                    *)

LEMMA EnvironmentKeepsIInv ==
  ASSUME IInv, Tick \/ \E d \in Enabled : Fail(d) \/ Recover(d)
  PROVE  IInv'
<1> USE DEF IInv
<1> DEFINE Kept == UNCHANGED <<cache, mutex, pc, local>>
<1>1. /\ Kept
      /\ clock' \in Time /\ clock <= clock'
      /\ downSince' \in [Deps -> Time \cup {Zero}]
      /\ \A d \in Deps : downSince'[d] = downSince[d]
                         \/ downSince'[d] = Zero \/ downSince'[d] = clock
      /\ \A d \in Deps : downSince'[d] <= clock'
  BY DEF Tick, Fail, Recover, env, TypeOK, ClockInv
<1>2. TypeOK'
  BY <1>1 DEF TypeOK, cache, mutex, local
<1>3. LockInv'
  BY <1>1 DEF LockInv, mutex
<1>4. ClockInv'
  BY <1>1 DEF ClockInv, TypeOK, cache, local
<1>5. UpInv'
  <2>1. \A d \in Deps : cacheSeen[d] <= clock
    BY DEF ClockInv
  <2>2. \A r \in Requests, d \in Deps : seen[r][d] <= clock
    BY DEF ClockInv
  <2> QED
    BY <1>1, <2>1, <2>2 DEF UpInv, TypeOK, cache, local
<1>6. CacheInv'
  BY <1>1 DEF CacheInv, NoneDown, cache
<1>7. ASSUME NEW r \in Requests PROVE RequestInv(r)'
  BY <1>1 DEF RequestInv, Pinged, NoneDown, Fresh, cache, local
<1> QED
  BY <1>2, <1>3, <1>4, <1>5, <1>6, <1>7

\* The steps that leave the cache, its stamps and the clock alone.
LEMMA BeginKeepsIInv ==
  ASSUME IInv, NEW r \in Requests, Begin(r)
  PROVE  IInv'
<1> USE DEF IInv, Begin, env, cache, mutex
<1>1. TypeOK'
  BY DEF TypeOK
<1>2. LockInv'
  BY DEF TypeOK, LockInv
<1>3. ClockInv'
  BY DEF TypeOK, ClockInv
<1>4. UpInv'
  BY DEF TypeOK, UpInv
<1>5. CacheInv'
  BY DEF TypeOK, CacheInv, NoneDown
<1>6. ASSUME NEW q \in Requests PROVE RequestInv(q)'
  BY DEF TypeOK, RequestInv, Pinged, NoneDown, Fresh
<1> QED
  BY <1>1, <1>2, <1>3, <1>4, <1>5, <1>6

LEMMA RLockKeepsIInv ==
  ASSUME IInv, NEW r \in Requests, RLock(r)
  PROVE  IInv'
<1> USE DEF IInv, RLock, env, cache, local, mu!RLock
<1>1. TypeOK'
  BY DEF TypeOK
<1>2. LockInv'
  BY DEF TypeOK, LockInv
<1>3. ClockInv' /\ UpInv'
  BY DEF TypeOK, ClockInv, UpInv
<1>4. CacheInv'
  BY DEF TypeOK, CacheInv, NoneDown
<1>5. ASSUME NEW q \in Requests PROVE RequestInv(q)'
  BY DEF TypeOK, RequestInv, Pinged, NoneDown, Fresh
<1> QED
  BY <1>1, <1>2, <1>3, <1>4, <1>5

LEMMA ReadReadyKeepsIInv ==
  ASSUME IInv, NEW r \in Requests, ReadReady(r)
  PROVE  IInv'
<1> USE DEF IInv, ReadReady, env, cache, mutex
<1>1. TypeOK'
  BY DEF TypeOK
<1>2. LockInv'
  BY DEF TypeOK, LockInv
<1>3. ClockInv' /\ UpInv'
  BY DEF TypeOK, ClockInv, UpInv
<1>4. CacheInv'
  BY DEF TypeOK, CacheInv, NoneDown
<1>5. ASSUME NEW q \in Requests PROVE RequestInv(q)'
  BY DEF TypeOK, RequestInv, Pinged, NoneDown, Fresh
<1> QED
  BY <1>1, <1>2, <1>3, <1>4, <1>5

\* A hit holds the read lock, so no store is in progress and the cache is one
\* whole, fresh snapshot.
LEMMA CopyChecksKeepsIInv ==
  ASSUME IInv, NEW r \in Requests, CopyChecks(r)
  PROVE  IInv'
<1> USE DEF IInv, CopyChecks, env, cache, mu!RUnlock
<1>1. TypeOK'
  BY DEF TypeOK
<1>2. LockInv'
  BY DEF TypeOK, LockInv
<1>3. ClockInv' /\ UpInv'
  BY DEF TypeOK, ClockInv, UpInv
<1>4. CacheInv'
  BY DEF TypeOK, CacheInv, NoneDown
<1>5. RequestInv(r)'
  <2>1. \A q \in Requests : pc[q] # "store"
    BY DEF LockInv
  <2>2. cacheAt # Zero /\ now[r] - cacheAt < CacheTTL /\ ready[r] = cacheReady
    BY DEF RequestInv, Fresh
  <2>3. /\ cacheReady <=> NoneDown(cacheChecks)
        /\ \A d \in Enabled : cacheChecks[d] # "skipped" /\ cacheSeen[d] >= cacheAt
    BY <2>1, <2>2 DEF CacheInv
  <2>4. \A d \in Enabled : cacheSeen[d] > now[r] - CacheTTL
    BY <2>2, <2>3 DEF TypeOK
  <2>5. /\ pc'[r] = "done" /\ checks'[r] = cacheChecks /\ seen'[r] = cacheSeen
        /\ now' = now /\ ready' = ready
    BY DEF TypeOK
  <2> QED
    BY <2>2, <2>3, <2>4, <2>5 DEF RequestInv, NoneDown
<1>6. ASSUME NEW q \in Requests, q # r PROVE RequestInv(q)'
  BY <1>6 DEF TypeOK, RequestInv, Pinged, NoneDown, Fresh
<1> QED
  BY <1>1, <1>2, <1>3, <1>4, <1>5, <1>6

LEMMA MissKeepsIInv ==
  ASSUME IInv, NEW r \in Requests, Miss(r)
  PROVE  IInv'
<1> USE DEF IInv, Miss, env, cache, mu!RUnlock
<1>1. TypeOK'
  BY DEF TypeOK
<1>2. LockInv'
  BY DEF TypeOK, LockInv
<1>3. ClockInv' /\ UpInv'
  BY DEF TypeOK, ClockInv, UpInv
<1>4. CacheInv'
  BY DEF TypeOK, CacheInv, NoneDown
<1>5. ASSUME NEW q \in Requests PROVE RequestInv(q)'
  BY DEF TypeOK, RequestInv, Pinged, NoneDown, Fresh
<1> QED
  BY <1>1, <1>2, <1>3, <1>4, <1>5

LEMMA CheckKeepsIInv ==
  ASSUME IInv, NEW r \in Requests, NEW d \in Deps, NEW status \in Statuses,
         Check(r, d, status)
  PROVE  IInv'
<1> USE DEF IInv, Check, env, cache, mutex
<1>1. TypeOK'
  <2>1. After[d] \in Steps
    BY DEF After
  <2>2. NoneDown(checks'[r]) \in BOOLEAN
    BY DEF NoneDown
  <2> QED
    BY <2>1, <2>2 DEF TypeOK
<1>2. LockInv'
  BY DEF TypeOK, LockInv, After
<1>3. ClockInv'
  BY DEF TypeOK, ClockInv
<1>4. UpInv'
  BY DEF TypeOK, UpInv, ClockInv, PingResult
<1>5. CacheInv'
  BY DEF TypeOK, CacheInv, NoneDown, After
<1>6. RequestInv(r)'
  <2>1. Pinged(r, d)'
    BY DEF TypeOK, Pinged, PingResult, ClockInv
  <2>2. \A e \in Deps : e # d /\ Pinged(r, e) => Pinged(r, e)'
    BY DEF TypeOK, Pinged
  <2>3. pc'[r] = After[d] /\ (ready'[r] <=> NoneDown(checks'[r]))
    BY DEF TypeOK
  <2>4. CASE d = "postgres"
    BY <2>1, <2>3, <2>4 DEF RequestInv, After
  <2>5. CASE d = "redis"
    BY <2>1, <2>2, <2>3, <2>5 DEF RequestInv, After
  <2>6. CASE d = "mongodb"
    <3>1. Pinged(r, "postgres")' /\ Pinged(r, "redis")' /\ Pinged(r, "mongodb")'
      BY <2>1, <2>2, <2>6 DEF RequestInv
    <3>2. (ready[r] <=> NoneDown(checks[r]))'
      BY <2>3
    <3> QED
      BY <3>1, <3>2, <2>3, <2>6 DEF RequestInv, After
  <2> QED
    BY <2>4, <2>5, <2>6
<1>7. ASSUME NEW q \in Requests, q # r PROVE RequestInv(q)'
  BY <1>7 DEF TypeOK, RequestInv, Pinged, NoneDown, Fresh
<1> QED
  BY <1>1, <1>2, <1>3, <1>4, <1>5, <1>6, <1>7

LEMMA LockKeepsIInv ==
  ASSUME IInv, NEW r \in Requests, Lock(r)
  PROVE  IInv'
<1> USE DEF IInv, Lock, env, cache, local, mu!Announce
<1>1. TypeOK'
  BY DEF TypeOK
<1>2. LockInv'
  BY DEF TypeOK, LockInv
<1>3. ClockInv' /\ UpInv'
  BY DEF TypeOK, ClockInv, UpInv
<1>4. CacheInv'
  BY DEF TypeOK, CacheInv, NoneDown
<1>5. ASSUME NEW q \in Requests PROVE RequestInv(q)'
  BY DEF TypeOK, RequestInv, Pinged, NoneDown, Fresh
<1> QED
  BY <1>1, <1>2, <1>3, <1>4, <1>5

\* The lock is drained: nobody is between the two reads of a hit.
LEMMA StampCacheKeepsIInv ==
  ASSUME IInv, NEW r \in Requests, StampCache(r)
  PROVE  IInv'
<1> USE DEF IInv, StampCache, Stamp, env, local, mu!Drained
<1>1. TypeOK'
  BY DEF TypeOK
<1>2. LockInv'
  BY DEF TypeOK, LockInv
<1>3. ClockInv' /\ UpInv'
  BY DEF TypeOK, ClockInv, UpInv
<1>4. CacheInv'
  BY DEF TypeOK, CacheInv
<1>5. ASSUME NEW q \in Requests PROVE RequestInv(q)'
  BY DEF TypeOK, LockInv, RequestInv, Pinged, NoneDown
<1> QED
  BY <1>1, <1>2, <1>3, <1>4, <1>5

\* The store completes the snapshot that was stamped with now[r].
LEMMA StoreChecksKeepsIInv ==
  ASSUME IInv, NEW r \in Requests, StoreChecks(r)
  PROVE  IInv'
<1> USE DEF IInv, StoreChecks, env, local, mu!Unlock
<1>0. /\ cacheAt = now[r] /\ cacheReady = ready[r]
      /\ ready[r] <=> NoneDown(checks[r])
      /\ \A d \in Enabled : checks[r][d] # "skipped" /\ seen[r][d] >= now[r]
  BY DEF RequestInv, Pinged
<1>1. TypeOK'
  BY DEF TypeOK
<1>2. LockInv'
  BY DEF TypeOK, LockInv
<1>3. ClockInv'
  BY DEF TypeOK, ClockInv
<1>4. UpInv'
  BY DEF TypeOK, UpInv
<1>5. CacheInv'
  BY <1>0 DEF TypeOK, CacheInv, NoneDown
<1>6. RequestInv(r)'
  BY <1>0 DEF TypeOK, RequestInv, NoneDown
<1>7. ASSUME NEW q \in Requests, q # r PROVE RequestInv(q)'
  BY <1>7 DEF TypeOK, LockInv, RequestInv, Pinged, NoneDown, Fresh
<1> QED
  BY <1>1, <1>2, <1>3, <1>4, <1>5, <1>6, <1>7

LEMMA StutteringKeepsIInv ==
  ASSUME IInv, UNCHANGED vars
  PROVE  IInv'
  BY DEF vars, env, cache, mutex, local, IInv, TypeOK, LockInv, ClockInv, UpInv,
         CacheInv, RequestInv, Pinged, NoneDown, Fresh

-----------------------------------------------------------------------------
THEOREM IInvAlways == Spec => []IInv
<1>1. ASSUME IInv, [Next]_vars
      PROVE  IInv'
  <2>1. CASE Tick \/ \E d \in Enabled : Fail(d) \/ Recover(d)
    BY <1>1, <2>1, EnvironmentKeepsIInv
  <2>2. ASSUME NEW r \in Requests, Begin(r) \/ RLock(r) \/ Lock(r)
        PROVE  IInv'
    BY <1>1, <2>2, BeginKeepsIInv, RLockKeepsIInv, LockKeepsIInv
  <2>3. ASSUME NEW r \in Requests, Serve(r)
        PROVE  IInv'
    BY <1>1, <2>3, ReadReadyKeepsIInv, CopyChecksKeepsIInv, MissKeepsIInv,
       CheckKeepsIInv, StampCacheKeepsIInv, StoreChecksKeepsIInv DEF Serve
  <2>4. CASE UNCHANGED vars
    BY <1>1, <2>4, StutteringKeepsIInv
  <2> QED
    BY <1>1, <2>1, <2>2, <2>3, <2>4 DEF Next
<1> QED
  BY <1>1, InitEstablishesIInv, PTL DEF Spec

\* Every variable keeps its type.
THEOREM TypesAreRight == Spec => []TypeOK
<1>1. IInv => TypeOK
  BY DEF IInv
<1> QED
  BY <1>1, IInvAlways, PTL

\* The cached fields have one writer and, while it writes, no reader
\* (system.go:125-145, s.mu around every access).
THEOREM CacheWriterIsAloneAlways == Spec => []CacheWriterIsAlone
<1>1. IInv => CacheWriterIsAlone
  BY DEF IInv, LockInv, CacheWriterIsAlone
<1> QED
  BY <1>1, IInvAlways, PTL

\* Status code and body come from one snapshot (system.go:126-130, 142-146).
THEOREM AnswerAgreesWithChecksAlways == Spec => []AnswerAgreesWithChecks
<1>1. IInv => AnswerAgreesWithChecks
  BY DEF IInv, RequestInv, NoneDown, AnswerAgreesWithChecks, Reply
<1> QED
  BY <1>1, IInvAlways, PTL

\* No answer is based on an observation of age cacheTTL (system.go:124, 142).
THEOREM FreshReplyAlways == Spec => []FreshReply
<1>1. IInv => FreshReply
  BY DEF IInv, RequestInv, FreshReply, Reply
<1> QED
  BY <1>1, IInvAlways, PTL

\* An outage older than cacheTTL is reported to whoever asks (system.go:126, 139).
THEOREM OutageReportedWithinTTLAlways == Spec => []OutageReportedWithinTTL
<1>1. IInv => OutageReportedWithinTTL
  <2> SUFFICES ASSUME IInv, NEW r \in Requests, NEW d \in Enabled,
                      Reply(r), ready[r], downSince[d] # Zero
               PROVE  now[r] < downSince[d] + CacheTTL
    BY DEF OutageReportedWithinTTL
  <2>1. checks[r][d] = "up" /\ seen[r][d] > now[r] - CacheTTL
    BY DEF IInv, RequestInv, Reply, NoneDown, TypeOK
  <2>2. seen[r][d] <= downSince[d]
    BY <2>1 DEF IInv, UpInv
  <2> QED
    BY <2>1, <2>2 DEF IInv, TypeOK
<1> QED
  BY <1>1, IInvAlways, PTL

-----------------------------------------------------------------------------
(* The refinement of ReadinessService.                                      *)

\* A dependency that is not enabled is "skipped" wherever it is written down.
SkippedInv ==
  \A d \in Deps \ Enabled :
    cacheChecks[d] = "skipped" /\ \A r \in Requests : checks[r][d] = "skipped"

LEMMA SkippedAlways == Spec => []SkippedInv
<1>1. Init => SkippedInv
  BY DEF Init, SkippedInv
<1>2. ASSUME TypeOK, SkippedInv, [Next]_vars
      PROVE  SkippedInv'
  <2> USE <1>2
  <2>1. CASE UNCHANGED <<cacheChecks, checks>>
    BY <2>1 DEF SkippedInv
  <2>2. ASSUME NEW r \in Requests, Begin(r) \/ CopyChecks(r) \/ StoreChecks(r)
        PROVE  SkippedInv'
    <3>1. CASE Begin(r)
      BY <3>1 DEF Begin, SkippedInv, TypeOK, cache
    <3>2. CASE CopyChecks(r)
      BY <3>2 DEF CopyChecks, SkippedInv, TypeOK, cache
    <3>3. CASE StoreChecks(r)
      BY <3>3 DEF StoreChecks, SkippedInv, TypeOK, local
    <3> QED
      BY <2>2, <3>1, <3>2, <3>3
  <2>3. ASSUME NEW r \in Requests, NEW d \in Deps, NEW status \in Statuses, Check(r, d, status)
        PROVE  SkippedInv'
    BY <2>3 DEF Check, PingResult, SkippedInv, TypeOK, cache
  <2>4. \/ UNCHANGED <<cacheChecks, checks>>
        \/ \E r \in Requests : Begin(r) \/ CopyChecks(r) \/ StoreChecks(r)
        \/ \E r \in Requests, d \in Deps, status \in Statuses : Check(r, d, status)
    BY DEF Next, Serve, vars, cache, local, env, Tick, Fail, Recover, RLock, Lock,
           ReadReady, Miss, StampCache
  <2> QED
    BY <2>1, <2>2, <2>3, <2>4
<1> QED
  BY <1>1, <1>2, TypesAreRight, PTL DEF Spec

LEMMA InitMapsToInit == Init => Service!Init
  BY DEF Init, Service!Init, Service!NothingSaid, Waits, Reply

\* The world is the same in both.
LEMMA WorldMapsToWorld ==
  ASSUME TypeOK, Tick \/ \E d \in Enabled : Fail(d) \/ Recover(d)
  PROVE  Service!Next
<1>1. CASE Tick
  <2>1. Service!Tick
    BY <1>1 DEF Tick, Service!Tick, Service!answers, Waits, Reply, local
  <2> QED
    BY <2>1 DEF Service!Next
<1>2. ASSUME NEW d \in Enabled, Fail(d) \/ Recover(d)
      PROVE  Service!Next
  <2>1. Service!Change(d)
    BY <1>2 DEF Fail, Recover, Service!Change, Service!answers, Waits, Reply, local, TypeOK
  <2> QED
    BY <2>1 DEF Service!Next
<1> QED
  BY <1>1, <1>2

LEMMA BeginMapsToAsk ==
  ASSUME TypeOK, NEW r \in Requests, Begin(r)
  PROVE  Service!Ask(r)
  BY DEF TypeOK, Begin, Service!Ask, Service!NothingSaid, Service!world, Waits, Reply, env

\* A request finishes with what RequestInv says of it.
LEMMA FinishMapsToAnswer ==
  ASSUME IInv, IInv', SkippedInv', NEW r \in Requests, CopyChecks(r) \/ StoreChecks(r),
         NEW c, c = checks'[r]
  PROVE  Service!Answer(r, c)
<1>1. /\ pc[r] \in {"copy", "store"}
      /\ pc' = [pc EXCEPT ![r] = "done"] /\ pc'[r] = "done"
      /\ UNCHANGED <<env, now, ready>>
      /\ \A q \in Requests : q # r => checks'[q] = checks[q]
  BY DEF IInv, TypeOK, CopyChecks, StoreChecks, local
<1>2. /\ ready[r] <=> NoneDown(checks'[r])
      /\ \A d \in Enabled : checks'[r][d] # "skipped" /\ seen'[r][d] > now[r] - CacheTTL
  BY <1>1 DEF IInv, RequestInv, NoneDown
<1>3. ASSUME NEW d \in Deps
      PROVE  Service!MaySay(d, c[d], now[r] - CacheTTL)
  <2>1. c[d] = "skipped" <=> d \notin Enabled
    BY <1>2 DEF SkippedInv
  <2>2. ASSUME c[d] = "up" PROVE Service!WorkedAfter(d, now[r] - CacheTTL)
    <3>1. d \in Enabled /\ seen'[r][d] > now[r] - CacheTTL
      BY <1>2, <2>1, <2>2
    <3>2. downSince[d] # Zero => seen'[r][d] <= downSince[d]
      BY <1>1, <2>2, <3>1 DEF IInv, UpInv, env
    <3> QED
      BY <3>1, <3>2 DEF Service!WorkedAfter, IInv, TypeOK
  <2> QED
    BY <2>1, <2>2 DEF Service!MaySay
<1>4. Waits(r) /\ ~Reply(r) /\ ~Waits(r)' /\ Reply(r)'
  BY <1>1 DEF Waits, Reply
<1>5. \A q \in Requests : q # r => (Waits(q)' <=> Waits(q)) /\ (Reply(q)' <=> Reply(q))
  BY <1>1 DEF Waits, Reply, IInv, TypeOK
<1> DEFINE asked == [q \in Requests |-> IF Waits(q) THEN now[q] ELSE Zero]
           status == [q \in Requests |->
             IF ~Reply(q) THEN "none" ELSE IF ready[q] THEN "ready" ELSE "not_ready"]
           said == [q \in Requests |->
             IF Reply(q) THEN checks[q] ELSE [d \in Deps |-> "skipped"]]
<1>6. asked[r] = now[r] /\ now[r] # Zero
  BY <1>4 DEF IInv, TypeOK
<1>7. asked' = [asked EXCEPT ![r] = Zero]
  <2>1. now' = now
    BY <1>1
  <2> QED
    BY <2>1, <1>4, <1>5
<1>8. status' = [status EXCEPT ![r] =
        IF \A d \in Deps : c[d] # "down" THEN "ready" ELSE "not_ready"]
  BY <1>1, <1>2, <1>4, <1>5 DEF NoneDown
<1>9. said' = [said EXCEPT ![r] = c]
  BY <1>1, <1>4, <1>5
<1> QED
  BY <1>1, <1>3, <1>6, <1>7, <1>8, <1>9 DEF Service!Answer, Service!world, env

\* Nothing that a request does before its last step can be seen from outside.
LEMMA WorkIsInvisible ==
  ASSUME TypeOK, NEW r \in Requests,
         \/ RLock(r) \/ Lock(r) \/ ReadReady(r) \/ Miss(r) \/ StampCache(r)
         \/ \E d \in Deps, s \in Statuses : Check(r, d, s)
  PROVE  UNCHANGED Service!vars
<1>1. /\ pc'[r] \notin {"idle", "done"} /\ pc[r] \notin {"idle", "done"}
      /\ \A q \in Requests \ {r} :
           pc'[q] = pc[q] /\ ready'[q] = ready[q] /\ checks'[q] = checks[q]
      /\ UNCHANGED <<env, now>>
  BY DEF TypeOK, RLock, Lock, ReadReady, Miss, StampCache, Check, After, local
<1>2. \A q \in Requests : (Waits(q)' <=> Waits(q)) /\ (Reply(q)' <=> Reply(q))
  BY <1>1 DEF Waits, Reply
<1>3. ~Reply(r)
  BY <1>1 DEF Reply
<1> QED
  BY <1>1, <1>2, <1>3 DEF Service!vars, Service!world, Service!answers, env

\* /readyz implements the service: each question has one answer, whole and young
\* enough (system.go:123-147, http.go:55-62).
THEOREM CacheImplementsService == Spec => ImplementsReadinessService
<1>1. ASSUME IInv, IInv', SkippedInv', [Next]_vars
      PROVE  [Service!Next]_(Service!vars)
  <2>1. CASE Tick \/ \E d \in Enabled : Fail(d) \/ Recover(d)
    BY <1>1, <2>1, WorldMapsToWorld DEF IInv
  <2>2. ASSUME NEW r \in Requests, Begin(r)
        PROVE  Service!Next
    BY <1>1, <2>2, BeginMapsToAsk DEF IInv, Service!Next
  <2>3. ASSUME NEW r \in Requests, CopyChecks(r) \/ StoreChecks(r)
        PROVE  Service!Next
    <3>1. checks'[r] \in Service!Lists
      BY <1>1 DEF IInv, TypeOK, Service!Lists
    <3>2. PICK c \in Service!Lists : c = checks'[r]
      BY <3>1
    <3>3. Service!Answer(r, c)
      BY <1>1, <2>3, <3>2, FinishMapsToAnswer
    <3> QED
      BY <3>3 DEF Service!Next
  <2>4. ASSUME NEW r \in Requests,
               \/ RLock(r) \/ Lock(r) \/ ReadReady(r) \/ Miss(r) \/ StampCache(r)
               \/ \E d \in Deps, s \in Statuses : Check(r, d, s)
        PROVE  UNCHANGED Service!vars
    BY <1>1, <2>4, WorkIsInvisible DEF IInv
  <2>5. CASE UNCHANGED vars
    BY <2>5 DEF vars, env, cache, local, Service!vars, Service!world, Service!answers, Waits, Reply
  <2> QED
    BY <1>1, <2>1, <2>2, <2>3, <2>4, <2>5 DEF Next, Serve
<1> QED
  BY <1>1, InitMapsToInit, IInvAlways, SkippedAlways, PTL
     DEF Spec, ImplementsReadinessService, Service!Spec

=============================================================================
