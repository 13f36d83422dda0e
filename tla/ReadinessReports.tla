-------------------------- MODULE ReadinessReports --------------------------
(***************************************************************************)
(* ReadinessCache with the history of what /readyz has already told its    *)
(* callers: `reported' holds the dependencies whose current outage some    *)
(* finished request answered "down", `warned[r]' those that were reported  *)
(* before r arrived and have not recovered since.  The history restricts   *)
(* no step of ReadinessCache.                                              *)
(***************************************************************************)
EXTENDS ReadinessCache

VARIABLES reported, warned

reports == <<reported, warned>>

\* The answer r gives in this step says that d is down, in its current outage.
Reports(r, d) ==
  /\ pc[r] # "done"
  /\ pc'[r] = "done"
  /\ checks'[r][d] = "down"
  /\ seen'[r][d] > downSince[d]

Arrives(r) == pc[r] # "rlock" /\ pc'[r] = "rlock"

Remember ==
  /\ reported' = {d \in Enabled :
       /\ downSince'[d] # Zero
       /\ d \in reported \/ \E r \in Requests : Reports(r, d)}
  /\ warned' = [r \in Requests |->
       IF Arrives(r) THEN reported ELSE warned[r] \cap reported']

ReportsInit ==
  /\ Init
  /\ reported = {}
  /\ warned = [r \in Requests |-> {}]

ReportsSpec == ReportsInit /\ [][Next /\ Remember]_<<vars, reports>>

-----------------------------------------------------------------------------
\* README.md:143 states that /readyz returns 503 while an enabled dependency is
\* unavailable.  Even granting the cache its TTL, this asks: once a finished
\* request has reported an outage, no request that arrives later during the same
\* outage is answered "ready".
OutageStaysReported ==
  \A r \in Requests : Reply(r) /\ ready[r] => warned[r] = {}

=============================================================================
