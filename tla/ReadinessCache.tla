--------------------------- MODULE ReadinessCache ---------------------------
(***************************************************************************)
(* SystemService.readinessSnapshot (src/internal/service/system.go): the   *)
(* answer of GET /readyz, cached for cacheTTL behind a sync.RWMutex.       *)
(*                                                                         *)
(* Any number of HTTP handlers run readinessSnapshot at once.  A handler   *)
(* reads the clock, tests the cache under the read lock, and on a miss     *)
(* pings the three dependencies one after the other with NO lock held,     *)
(* then stores what it saw under the write lock, stamped with the time it  *)
(* read at the start.  Two misses may therefore overlap and store in the   *)
(* opposite order to the one they started in.                              *)
(*                                                                         *)
(* Time is a counter of seconds.  `seen' and `cacheSeen' are history       *)
(* variables: the time of the observation behind each check.  They let the *)
(* properties speak of the age of an answer; no action tests them.         *)
(***************************************************************************)
EXTENDS Integers

CONSTANTS
  Requests,     \* concurrent executions of readinessSnapshot
  NoRequest,    \* not a request: nobody holds the write lock
  Enabled,      \* the dependencies whose client is not nil
  CacheTTL,     \* SystemService.cacheTTL
  PingTimeout,  \* the timeout of one dependency's ping
  MaxTime       \* bound on the clock

Deps == {"postgres", "redis", "mongodb"}

ASSUME ConstantsAssumption ==
  /\ NoRequest \notin Requests
  /\ Enabled \subseteq Deps
  /\ CacheTTL \in Nat \ {0}
  /\ PingTimeout \in Nat \ {0}
  /\ MaxTime \in Nat

VARIABLES
  clock,        \* time.Now(), monotonic
  downSince,    \* per dependency: when its outage began, Zero while it works
  cacheAt,      \* SystemService.cacheAt
  cacheReady,   \* SystemService.cacheReady
  cacheChecks,  \* SystemService.cacheChecks
  cacheSeen,    \* history: when each of cacheChecks was observed
  readers,      \* SystemService.mu: holders of the read lock
  writer,       \* SystemService.mu: holder (or first in line) of the write lock
  pc,           \* per request: the statement it executes next
  now,          \* per request: the local variable now
  sent,         \* per request: when its current ping was sent
  ready,        \* per request: the local variable ready
  checks,       \* per request: the local variable checks
  seen          \* history, per request: when each of checks was observed

env == <<clock, downSince>>
cache == <<cacheAt, cacheReady, cacheChecks, cacheSeen>>
mutex == <<readers, writer>>
local == <<now, sent, ready, checks, seen>>
vars == <<env, cache, mutex, pc, local>>

mu == INSTANCE RWMutex WITH Threads <- Requests, NoThread <- NoRequest

-----------------------------------------------------------------------------
\* time.Time's zero value: before every reading of the clock.
Zero == -1
Time == Nat
Statuses == {"up", "down", "skipped"}

Steps ==
  {"idle", "rlock", "test", "copy", "postgres", "redis", "mongodb",
   "lock", "stamp", "store", "done"}

\* The map literal of lines 134-138 evaluates its calls in source order.
After == [postgres |-> "redis", redis |-> "mongodb", mongodb |-> "lock"]

Probing(r) == pc[r] \in Deps

\* Fault: one of the three checks is left out of the conjunction.
NoneDownButMongoDB(c) == \A d \in Deps \ {"mongodb"} : c[d] # "down"

\* ready := none of the three checks is "down".
NoneDown(c) == \A d \in Deps : c[d] # "down"

TypeOK ==
  /\ clock \in Time
  /\ downSince \in [Deps -> Time \cup {Zero}]
  /\ cacheAt \in Time \cup {Zero}
  /\ cacheReady \in BOOLEAN
  /\ cacheChecks \in [Deps -> Statuses]
  /\ cacheSeen \in [Deps -> Time]
  /\ mu!LockTypeOK
  /\ pc \in [Requests -> Steps]
  /\ now \in [Requests -> Time]
  /\ sent \in [Requests -> Time]
  /\ ready \in [Requests -> BOOLEAN]
  /\ checks \in [Requests -> [Deps -> Statuses]]
  /\ seen \in [Requests -> [Deps -> Time]]

\* NewSystemService: an empty cache; no request has arrived.
Init ==
  /\ clock = 0
  /\ downSince = [d \in Deps |-> Zero]
  /\ cacheAt = Zero
  /\ cacheReady = FALSE
  /\ cacheChecks = [d \in Deps |-> "skipped"]
  /\ cacheSeen = [d \in Deps |-> 0]
  /\ mu!LockInit
  /\ pc = [r \in Requests |-> "idle"]
  /\ now = [r \in Requests |-> 0]
  /\ sent = [r \in Requests |-> 0]
  /\ ready = [r \in Requests |-> FALSE]
  /\ checks = [r \in Requests |-> [d \in Deps |-> "skipped"]]
  /\ seen = [r \in Requests |-> [d \in Deps |-> 0]]

-----------------------------------------------------------------------------
(* The environment: time passes, dependencies fail and recover.             *)

\* A ping is answered by its deadline, so time cannot run past one.
Tick ==
  /\ clock < MaxTime
  /\ \A r \in Requests : Probing(r) => clock < sent[r] + PingTimeout
  /\ clock' = clock + 1
  /\ UNCHANGED <<downSince, cache, mutex, pc, local>>

Fail(d) ==
  /\ downSince[d] = Zero
  /\ downSince' = [downSince EXCEPT ![d] = clock]
  /\ UNCHANGED <<clock, cache, mutex, pc, local>>

Recover(d) ==
  /\ downSince[d] # Zero
  /\ downSince' = [downSince EXCEPT ![d] = Zero]
  /\ UNCHANGED <<clock, cache, mutex, pc, local>>

-----------------------------------------------------------------------------
(* readinessSnapshot.                                                       *)

\* now := time.Now(), before the lock is asked for.
Begin(r) ==
  /\ pc[r] \in {"idle", "done"}
  /\ now' = [now EXCEPT ![r] = clock]
  /\ checks' = [checks EXCEPT ![r] = [d \in Deps |-> "skipped"]]
  /\ ready' = [ready EXCEPT ![r] = FALSE]
  /\ seen' = [seen EXCEPT ![r] = [d \in Deps |-> 0]]
  /\ pc' = [pc EXCEPT ![r] = "rlock"]
  /\ UNCHANGED <<env, cache, mutex, sent>>

RLock(r) ==
  /\ pc[r] = "rlock"
  /\ mu!RLock(r)
  /\ pc' = [pc EXCEPT ![r] = "test"]
  /\ UNCHANGED <<env, cache, local>>

\* A later request may have filled the cache: now - cacheAt can be negative.
Fresh(r) == cacheAt # Zero /\ now[r] - cacheAt < CacheTTL

\* Fault: the read lock is dropped between the two reads of a hit.
ReadReadyUnlocks(r) ==
  /\ pc[r] = "test"
  /\ Fresh(r)
  /\ ready' = [ready EXCEPT ![r] = cacheReady]
  /\ mu!RUnlock(r)
  /\ pc' = [pc EXCEPT ![r] = "copy"]
  /\ UNCHANGED <<env, cache, now, sent, checks, seen>>

\* The lock is kept between the two reads of a hit.
ReadReady(r) ==
  /\ pc[r] = "test"
  /\ Fresh(r)
  /\ ready' = [ready EXCEPT ![r] = cacheReady]
  /\ pc' = [pc EXCEPT ![r] = "copy"]
  /\ UNCHANGED <<env, cache, mutex, now, sent, checks, seen>>

CopyChecks(r) ==
  /\ pc[r] = "copy"
  /\ checks' = [checks EXCEPT ![r] = cacheChecks]
  /\ seen' = [seen EXCEPT ![r] = cacheSeen]
  /\ mu!RUnlock(r)
  /\ pc' = [pc EXCEPT ![r] = "done"]
  /\ UNCHANGED <<env, cache, now, sent, ready>>

\* Fault: a miss returns to the probes without RUnlock.
MissKeepsLock(r) ==
  /\ pc[r] = "test"
  /\ ~Fresh(r)
  /\ sent' = [sent EXCEPT ![r] = clock]
  /\ pc' = [pc EXCEPT ![r] = "postgres"]
  /\ UNCHANGED <<env, cache, mutex, now, ready, checks, seen>>

Miss(r) ==
  /\ pc[r] = "test"
  /\ ~Fresh(r)
  /\ mu!RUnlock(r)
  /\ sent' = [sent EXCEPT ![r] = clock]
  /\ pc' = [pc EXCEPT ![r] = "postgres"]
  /\ UNCHANGED <<env, cache, now, ready, checks, seen>>

\* A ping fails because the dependency is down or because its time is up.
PingResult(r, d, status) ==
  \/ d \notin Enabled /\ status = "skipped"
  \/ d \in Enabled /\ status = "up" /\ downSince[d] = Zero
  \/ /\ d \in Enabled
     /\ status = "down"
     /\ downSince[d] # Zero \/ clock = sent[r] + PingTimeout

Check(r, d, status) ==
  /\ pc[r] = d
  /\ PingResult(r, d, status)
  /\ checks' = [checks EXCEPT ![r][d] = status]
  /\ seen' = [seen EXCEPT ![r][d] = IF d \in Enabled THEN clock ELSE 0]
  /\ ready' = [ready EXCEPT ![r] = NoneDown(checks'[r])]
  /\ sent' = [sent EXCEPT ![r] = IF After[d] \in Deps THEN clock ELSE 0]
  /\ pc' = [pc EXCEPT ![r] = After[d]]
  /\ UNCHANGED <<env, cache, mutex, now>>

\* Faults: the entry is stamped when it is stored; it is stored already expired.
StampAtStore(r) == clock
StampExpired(r) == now[r] - CacheTTL

\* The entry is as old as the start of the request that made it.
Stamp(r) == now[r]

\* Fault: the entry is stored without taking the lock.
StampUnlocked(r) ==
  /\ pc[r] = "lock"
  /\ cacheAt' = Stamp(r)
  /\ cacheReady' = ready[r]
  /\ pc' = [pc EXCEPT ![r] = "store"]
  /\ UNCHANGED <<env, cacheChecks, cacheSeen, mutex, local>>

Lock(r) ==
  /\ pc[r] = "lock"
  /\ mu!Announce(r)
  /\ pc' = [pc EXCEPT ![r] = "stamp"]
  /\ UNCHANGED <<env, cache, local>>

StampCache(r) ==
  /\ pc[r] = "stamp"
  /\ mu!Drained(r)
  /\ cacheAt' = Stamp(r)
  /\ cacheReady' = ready[r]
  /\ pc' = [pc EXCEPT ![r] = "store"]
  /\ UNCHANGED <<env, cacheChecks, cacheSeen, local>>

StoreChecks(r) ==
  /\ pc[r] = "store"
  /\ cacheChecks' = checks[r]
  /\ cacheSeen' = seen[r]
  /\ mu!Unlock(r)
  /\ pc' = [pc EXCEPT ![r] = "done"]
  /\ UNCHANGED <<env, cacheAt, cacheReady, local>>

Serve(r) ==
  \/ ReadReady(r) \/ CopyChecks(r) \/ Miss(r)
  \/ \E d \in Deps, status \in Statuses : Check(r, d, status)
  \/ StampCache(r) \/ StoreChecks(r)

Next ==
  \/ Tick
  \/ \E d \in Enabled : Fail(d) \/ Recover(d)
  \/ \E r \in Requests : Begin(r) \/ RLock(r) \/ Lock(r) \/ Serve(r)

\* The handlers' own steps are taken; a lock that keeps becoming free is
\* granted (sync.RWMutex admits every waiting reader at Unlock, and its writers
\* queue on a sync.Mutex, which is starvation-free).  Nothing is assumed of the
\* clock, of the dependencies or of new requests.
Fairness ==
  \A r \in Requests :
    /\ WF_vars(Serve(r))
    /\ SF_vars(RLock(r))
    /\ SF_vars(Lock(r))

Spec == Init /\ [][Next]_vars
FairSpec == Spec /\ Fairness

-----------------------------------------------------------------------------
(* What readinessSnapshot promises.                                         *)

Reply(r) == pc[r] = "done"

\* No answer rests on an observation that was cacheTTL old or older when the
\* request arrived, whether it comes from this request's own pings, from the
\* cache, or from a cache overwritten by a slower, earlier request.
FreshReply ==
  \A r \in Requests : Reply(r) =>
    \A d \in Enabled : seen[r][d] > now[r] - CacheTTL

\* /readyz does not say "ready" to a request that arrives cacheTTL or more into
\* an outage of an enabled dependency.
OutageReportedWithinTTL ==
  \A r \in Requests, d \in Enabled :
    Reply(r) /\ ready[r] /\ downSince[d] # Zero
      => now[r] < downSince[d] + CacheTTL

\* The status code (200 or 503) and the body's "checks" come from the same
\* snapshot, although a hit reads them in two steps and a store writes them in
\* two.
AnswerAgreesWithChecks ==
  \A r \in Requests : Reply(r) => (ready[r] <=> \A d \in Deps : checks[r][d] # "down")

\* While a handler is between its writes of the cached fields, no other handler
\* reads or writes them: the map cacheChecks is never accessed concurrently.
CacheWriterIsAlone ==
  \A w, r \in Requests :
    pc[w] = "store" /\ pc[r] \in {"test", "copy", "store"} => r = w

\* Every request is answered: the pings have deadlines, no lock is held across
\* them and every lock taken is given back.
EveryRequestAnswered ==
  \A r \in Requests : pc[r] = "rlock" ~> pc[r] = "done"

Waits(r) == pc[r] \notin {"idle", "done"}

Service == INSTANCE ReadinessService WITH
  Window <- CacheTTL,
  Never <- Zero,
  asked <- [r \in Requests |-> IF Waits(r) THEN now[r] ELSE Zero],
  status <- [r \in Requests |->
    IF ~Reply(r) THEN "none" ELSE IF ready[r] THEN "ready" ELSE "not_ready"],
  checks <- [r \in Requests |-> IF Reply(r) THEN checks[r] ELSE [d \in Deps |-> "skipped"]]

\* Seen by those who ask, the cache is a service without one: each request gets one
\* whole answer, that stays as it was given, and "up" is said only of what has worked
\* within cacheTTL before the question or since.
ImplementsReadinessService == Service!Spec

-----------------------------------------------------------------------------
(* The inductive invariant behind these promises: who holds the lock at     *)
(* which step, and what the cache and the local variables say meanwhile.    *)

LockInv ==
  /\ \A r \in Requests : r \in readers <=> pc[r] \in {"test", "copy"}
  /\ \A r \in Requests : writer = r <=> pc[r] \in {"stamp", "store"}
  /\ \A r \in Requests : pc[r] = "store" => readers = {}

\* Nothing was observed, started or broken in the future.
ClockInv ==
  /\ cacheAt <= clock
  /\ \A r \in Requests : now[r] <= clock
  /\ \A d \in Deps : downSince[d] <= clock /\ cacheSeen[d] <= clock
  /\ \A r \in Requests, d \in Deps : seen[r][d] <= clock

\* An "up" was observed before the outage that is going on now, if any.
UpInv ==
  \A d \in Enabled : downSince[d] # Zero =>
    /\ cacheChecks[d] = "up" => cacheSeen[d] <= downSince[d]
    /\ \A r \in Requests : checks[r][d] = "up" => seen[r][d] <= downSince[d]

\* Outside a store, the cache is one whole snapshot begun at cacheAt.
CacheInv ==
  (\A r \in Requests : pc[r] # "store") /\ cacheAt # Zero =>
    /\ cacheReady <=> NoneDown(cacheChecks)
    /\ \A d \in Enabled : cacheChecks[d] # "skipped" /\ cacheSeen[d] >= cacheAt

\* r's own ping of d has been answered.
Pinged(r, d) ==
  d \in Enabled => checks[r][d] # "skipped" /\ seen[r][d] >= now[r]

RequestInv(r) ==
  /\ pc[r] \in {"redis", "mongodb", "lock", "stamp", "store"} => Pinged(r, "postgres")
  /\ pc[r] \in {"mongodb", "lock", "stamp", "store"} => Pinged(r, "redis")
  /\ pc[r] \in {"lock", "stamp", "store"} =>
       Pinged(r, "mongodb") /\ (ready[r] <=> NoneDown(checks[r]))
  /\ pc[r] = "store" => cacheAt = now[r] /\ cacheReady = ready[r]
  /\ pc[r] = "copy" => Fresh(r) /\ ready[r] = cacheReady
  /\ pc[r] = "done" =>
       /\ ready[r] <=> NoneDown(checks[r])
       /\ \A d \in Enabled : checks[r][d] # "skipped" /\ seen[r][d] > now[r] - CacheTTL

IInv ==
  /\ TypeOK
  /\ LockInv
  /\ ClockInv
  /\ UpInv
  /\ CacheInv
  /\ \A r \in Requests : RequestInv(r)

=============================================================================
