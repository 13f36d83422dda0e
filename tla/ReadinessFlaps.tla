---------------------------- MODULE ReadinessFlaps ----------------------------
(***************************************************************************)
(* ReadinessProbe with the history of how long there has been trouble:     *)
(* outages with so little time between them that a probe may have met each *)
(* of them count as one trouble.  The history restricts no step.           *)
(***************************************************************************)
EXTENDS ReadinessProbe

VARIABLE troubleFor   \* the time since the pod was last calm, up to what matters

flapVars == <<vars, troubleFor>>

\* All has been well for so long that every probe in sight has succeeded.
Calm == healthyFor > RecoveryBound

\* The pings of one probe, when all is well, and the time between n + 1 probes.
PingTime == Pings * Latency
Periods(n) == n * Period

\* From the first failed probe to the last.
Patience == Periods(FailureThreshold - 1)

Remember == troubleFor' = IF Calm' THEN 0 ELSE Upto(Patience, troubleFor)

FlapInit == Init /\ troubleFor = 0

FlapNext ==
  \/ Event /\ UNCHANGED troubleFor
  \/ Advance /\ Remember

FlapSpec == FlapInit /\ [][FlapNext]_flapVars

-----------------------------------------------------------------------------
\* It has been there since the first failed probe, but for the pings that met it last.
HasLasted == troubleFor + PingTime >= Patience

\* It is not over, or has not been for as long as an entry or a probe lives.
IsRecent == healthyFor < CacheTTL \/ healthyFor <= ProbeTimeout

\* A short outage leaves the pod in, and so does one that is over, whatever entries slow
\* handlers bring: no entry is counted against a pod as several failures.
OnlyLastingTroubleTakesPodOut ==
  [][podReady /\ ~podReady' => HasLasted /\ IsRecent]_flapVars

-----------------------------------------------------------------------------
(* The inductive invariant behind it, with that of ReadinessProbe.          *)

FlapTypeOK == troubleFor \in 0 .. Patience

\* Since a failed probe was sent there has been trouble, but for the time that its
\* pings may have taken before they met it.
FlapInv ==
  /\ asking /\ troubleFor < Patience => SinceProbe <= troubleFor + PingTime
  /\ failures > 0 /\ podReady /\ troubleFor < Patience =>
       SinceProbe + Periods(IF asking THEN failures ELSE failures - 1)
         <= troubleFor + PingTime

FlapIInv == IInv /\ FlapTypeOK /\ FlapInv

=============================================================================
