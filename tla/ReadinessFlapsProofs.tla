------------------------- MODULE ReadinessFlapsProofs -------------------------
(***************************************************************************)
(* Only lasting trouble takes the pod out, for any settings that satisfy   *)
(* ProbeAssumption.  FlapIInv (in ReadinessFlaps) is inductive; its part   *)
(* IInv comes from ReadinessProbeProofs, since the history restricts no    *)
(* step.                                                                   *)
(***************************************************************************)
EXTENDS ReadinessFlaps, ReadinessProbeProofs

\* The history adds no behaviour and takes none away.
THEOREM FlapsAreProbes == FlapSpec => Spec
<1>1. FlapInit => Init
  BY DEF FlapInit
<1>2. [FlapNext]_flapVars => [Next]_vars
  BY DEF FlapNext, flapVars, Next
<1> QED
  BY <1>1, <1>2, PTL DEF FlapSpec, Spec

LEMMA Durations ==
  /\ Patience \in Nat
  /\ PingTime \in Nat
  /\ Period \in Nat /\ FailureThreshold - 1 \in Nat
<1>1. Period \in Nat /\ FailureThreshold - 1 \in Nat
  BY Settings
<1> QED
  BY <1>1, PingsInTime, ProductsAreNat DEF Patience, Periods, PingTime

LEMMA PeriodsAddUp ==
  ASSUME NEW n \in Nat
  PROVE  /\ Periods(n) \in Nat /\ Periods(0) = 0
         /\ Periods(n + 1) = Periods(n) + Period
         /\ n > 0 => Periods(n) = Periods(n - 1) + Period
<1>1. Period \in Nat
  BY Settings
<1>2. ASSUME n > 0
      PROVE  n * Period = (n - 1) * Period + Period
  <2>1. n - 1 \in Nat /\ n - 1 + 1 = n
    BY <1>2
  <2> QED
    BY <1>1, <2>1, OneMore
<1> QED
  BY <1>1, <1>2, OneMore, ProductsAreNat DEF Periods

\* A calm pod has no failed probe, and a probe that is out is being answered in time.
LEMMA CalmPod ==
  IInv /\ Calm => failures = 0 /\ (asking => SinceProbe <= PingTime)
<1> SUFFICES ASSUME IInv, Calm
             PROVE  failures = 0 /\ (asking => SinceProbe <= PingTime)
  OBVIOUS
<1> USE Settings
<1>1. healthyFor \in Nat /\ healthyFor > RecoveryBound /\ failures \in Nat
  BY DEF IInv, TypeOK, Calm
<1>2. failures = 0
  BY <1>1, TroubleIsRecent, PingsInTime
<1>3. ASSUME asking PROVE SinceProbe <= PingTime
  <2>1. SinceProbe <= ProbeTimeout /\ SinceProbe \in Nat
    BY <1>3 DEF IInv, ProbeInv, TypeOK, SinceProbe
  <2>2. healthyFor > SinceProbe
    BY <1>1, <2>1, PingsInTime DEF RecoveryBound
  <2> QED
    BY <1>3, <2>1, <2>2, ProbeMakesGoodTime DEF PingTime
<1> QED
  BY <1>2, <1>3

LEMMA CalmPodNext ==
  (IInv /\ Calm => failures = 0 /\ (asking => SinceProbe <= PingTime))'
  BY CalmPod, PTL

\* A failure that leaves the pod in is one more.
LEMMA FailureIsOneMore ==
  ASSUME failures \in Nat, NEW success \in BOOLEAN, Record(success), failures' > 0, podReady'
  PROVE  podReady /\ failures' = failures + 1
<1>1. ~success
  BY DEF Record
<1>2. podReady /\ failures' < FailureThreshold
  BY <1>1 DEF Record
<1>3. failures' = IF failures < FailureThreshold THEN failures + 1 ELSE failures
  BY <1>1 DEF Record
<1> QED
  BY <1>2, <1>3, Settings

-----------------------------------------------------------------------------
LEMMA AdvanceKeepsFlapInv ==
  ASSUME IInv, IInv', FlapTypeOK, FlapInv, Advance, Remember
  PROVE  FlapTypeOK' /\ FlapInv'
<1> USE Settings, Durations
<1>1. /\ SinceProbe \in Nat /\ SinceProbe' = SinceProbe + 1
      /\ troubleFor \in 0 .. Patience /\ failures \in Nat
      /\ UNCHANGED <<asking, failures, podReady>>
  BY DEF IInv, TypeOK, Advance, SinceProbe, FlapTypeOK
<1>2. CASE Calm'
  <2>1. troubleFor' = 0 /\ failures' = 0 /\ (asking' => SinceProbe' <= PingTime)
    BY <1>2, CalmPodNext DEF Remember
  <2> QED
    BY <1>1, <2>1 DEF FlapTypeOK, FlapInv
<1>3. CASE ~Calm'
  <2>1. /\ troubleFor' \in 0 .. Patience
        /\ troubleFor' < Patience => troubleFor < Patience /\ troubleFor' = troubleFor + 1
    BY <1>1, <1>3 DEF Remember, Upto
  <2>2. ASSUME failures > 0, podReady, troubleFor' < Patience
        PROVE  SinceProbe' + Periods(IF asking THEN failures ELSE failures - 1)
                 <= troubleFor' + PingTime
    <3> DEFINE sent == IF asking THEN failures ELSE failures - 1
    <3>1. sent \in Nat
      BY <1>1, <2>2
    <3>2. Periods(sent) \in Nat
      BY <3>1, PeriodsAddUp
    <3>3. SinceProbe + Periods(sent) <= troubleFor + PingTime
      BY <2>1, <2>2 DEF FlapInv
    <3> HIDE DEF sent
    <3>4. SinceProbe' + Periods(sent) <= troubleFor' + PingTime
      BY <1>1, <2>1, <2>2, <3>2, <3>3
    <3> QED
      BY <3>4 DEF sent
  <2>3. asking /\ troubleFor' < Patience => SinceProbe' <= troubleFor' + PingTime
    BY <1>1, <2>1 DEF FlapInv
  <2> QED
    BY <1>1, <2>1, <2>2, <2>3 DEF FlapTypeOK, FlapInv
<1> QED
  BY <1>2, <1>3

\* A probe is sent, and answered from an entry or not yet: a period has passed since
\* the last.
LEMMA NewProbeKeepsFlapInv ==
  ASSUME IInv, FlapTypeOK, FlapInv, ProbeHits \/ ProbeMisses, UNCHANGED troubleFor
  PROVE  FlapInv'
<1> USE Settings, Durations
<1>1. /\ SinceProbe = Period /\ SinceProbe' = 0 /\ ~asking
      /\ troubleFor \in 0 .. Patience /\ failures \in Nat
  BY DEF IInv, TypeOK, ProbeHits, ProbeMisses, SinceProbe, FlapTypeOK
<1>2. failures > 0 /\ podReady /\ troubleFor < Patience =>
        Periods(failures) <= troubleFor + PingTime
  BY <1>1, PeriodsAddUp DEF FlapInv
<1>3. Periods(failures) \in Nat /\ Periods(0) = 0
  BY <1>1, PeriodsAddUp
<1>4. CASE ProbeMisses
  <2>1. asking' /\ UNCHANGED <<failures, podReady>>
    BY <1>4 DEF ProbeMisses
  <2>2. failures > 0 /\ podReady /\ troubleFor < Patience =>
          SinceProbe' + Periods(failures) <= troubleFor + PingTime
    BY <1>1, <1>2, <1>3
  <2> QED
    BY <1>1, <2>1, <2>2 DEF FlapInv
<1>5. CASE ProbeHits
  <2>1. ~asking'
    BY <1>1, <1>5 DEF ProbeHits
  <2>2. failures' > 0 /\ podReady' => podReady /\ failures' = failures + 1
    BY <1>1, <1>5, FailureIsOneMore DEF ProbeHits, IInv, TypeOK
  <2>3. failures' > 0 /\ podReady' /\ troubleFor < Patience =>
          SinceProbe' + Periods(failures) <= troubleFor + PingTime
    BY <1>1, <1>2, <1>3, <2>2
  <2>4. failures' > 0 /\ podReady' =>
          (IF asking' THEN failures' ELSE failures' - 1) = failures
    BY <1>1, <2>1, <2>2
  <2> QED
    BY <2>1, <2>3, <2>4 DEF FlapInv
<1> QED
  BY <1>4, <1>5

\* A probe that is out is answered or given up.
LEMMA EndOfProbeKeepsFlapInv ==
  ASSUME IInv, FlapTypeOK, FlapInv, asking, ~asking', UNCHANGED <<troubleFor, untilProbe>>,
         NEW success \in BOOLEAN, Record(success)
  PROVE  FlapInv'
<1> USE Settings, Durations
<1>1. /\ SinceProbe \in Nat /\ SinceProbe' = SinceProbe
      /\ troubleFor \in 0 .. Patience /\ failures \in Nat
  BY DEF IInv, TypeOK, SinceProbe, FlapTypeOK
<1>2. failures' > 0 /\ podReady' => podReady /\ failures' = failures + 1
  BY <1>1, FailureIsOneMore
<1>3. podReady /\ troubleFor < Patience =>
        SinceProbe + Periods(failures) <= troubleFor + PingTime
  <2>1. Periods(0) = 0
    BY PeriodsAddUp
  <2> QED
    BY <1>1, <2>1 DEF FlapInv
<1>4. failures' > 0 /\ podReady' =>
        (IF asking' THEN failures' ELSE failures' - 1) = failures
  BY <1>1, <1>2
<1> QED
  BY <1>1, <1>2, <1>3, <1>4 DEF FlapInv

LEMMA EventKeepsFlapInv ==
  ASSUME IInv, FlapTypeOK, FlapInv, Event, UNCHANGED troubleFor
  PROVE  FlapTypeOK' /\ FlapInv'
<1>1. FlapTypeOK'
  BY DEF FlapTypeOK
<1>2. ASSUME UNCHANGED kubelet PROVE FlapInv'
  BY <1>2 DEF FlapInv, kubelet, SinceProbe
<1>3. CASE ProbeTimesOut
  <2>1. asking /\ ~asking' /\ Record(FALSE) /\ UNCHANGED untilProbe
    BY <1>3 DEF ProbeTimesOut
  <2> QED
    BY <1>1, <2>1, EndOfProbeKeepsFlapInv
<1>4. ASSUME NEW h \in Handlers, NEW up \in BOOLEAN, LastPing(h, up)
      PROVE  FlapInv'
  <2>1. CASE h = probe /\ asking
    <3>1. Record(ready[h] /\ up) /\ ~asking' /\ UNCHANGED untilProbe
      BY <1>4, <2>1 DEF LastPing, Answered
    <3>2. (ready[h] /\ up) \in BOOLEAN
      OBVIOUS
    <3> QED
      BY <2>1, <3>1, <3>2, EndOfProbeKeepsFlapInv
  <2>2. CASE ~(h = probe /\ asking)
    BY <1>2, <1>4, <2>2 DEF LastPing, Answered
  <2> QED
    BY <2>1, <2>2
<1>5. ASSUME NEW h \in Handlers, NEW up \in BOOLEAN, NextPing(h, up)
      PROVE  FlapInv'
  BY <1>2, <1>5 DEF NextPing
<1>6. CASE \/ \E h \in Clients : ClientAsks(h)
           \/ \E d \in Deps : Fail(d) \/ Recover(d)
  BY <1>1, <1>2, <1>6 DEF ClientAsks, Fail, Recover
<1> QED
  BY <1>1, <1>3, <1>4, <1>5, <1>6, NewProbeKeepsFlapInv DEF Event

-----------------------------------------------------------------------------
THEOREM FlapIInvAlways == FlapSpec => []FlapIInv
<1>1. FlapInit => FlapTypeOK /\ FlapInv
  <2> SUFFICES ASSUME FlapInit PROVE FlapTypeOK /\ FlapInv
    OBVIOUS
  <2>1. ~asking /\ failures = 0 /\ troubleFor = 0
    BY DEF FlapInit, Init
  <2> QED
    BY <2>1, Durations DEF FlapTypeOK, FlapInv
<1>2. ASSUME IInv, IInv', FlapTypeOK, FlapInv, [FlapNext]_flapVars
      PROVE  FlapTypeOK' /\ FlapInv'
  <2>1. CASE UNCHANGED flapVars
    BY <1>2, <2>1 DEF flapVars, vars, kubelet, FlapTypeOK, FlapInv, SinceProbe
  <2> QED
    BY <1>2, <2>1, AdvanceKeepsFlapInv, EventKeepsFlapInv DEF FlapNext
<1> QED
  BY <1>1, <1>2, FlapsAreProbes, IInvAlways, PTL DEF FlapSpec, FlapIInv

-----------------------------------------------------------------------------
\* From the first failed probe to the one that takes the pod out there has been trouble.
LEMMA TroubleHasLasted ==
  ASSUME FlapIInv, [Next]_vars, podReady, ~podReady'
  PROVE  HasLasted
<1> USE Settings, Durations
<1>1. /\ failures' = failures + 1 /\ failures + 1 = FailureThreshold
      /\ failures \in Nat /\ troubleFor \in Nat /\ SinceProbe \in Nat
      /\ untilProbe = 0 => SinceProbe = Period
  BY PodGoesOutWithAFailure DEF FlapIInv, FlapTypeOK, IInv, TypeOK, SinceProbe
<1>2. Patience = Periods(failures)
  <2>1. FailureThreshold - 1 = failures
    BY <1>1
  <2> QED
    BY <2>1 DEF Patience
<1>3. asking \/ untilProbe = 0
  BY <1>1, FailedProbeMetTrouble DEF FlapIInv
<1> SUFFICES troubleFor + PingTime >= Patience
  BY DEF HasLasted
<1>4. CASE failures = 0
  <2>1. Periods(0) = 0
    BY PeriodsAddUp
  <2> QED
    BY <1>1, <1>2, <1>4, <2>1
<1>5. CASE failures > 0 /\ asking
  BY <1>1, <1>2, <1>5 DEF FlapIInv, FlapInv
<1>6. CASE failures > 0 /\ ~asking
  <2>1. troubleFor < Patience =>
          SinceProbe + Periods(failures - 1) <= troubleFor + PingTime
    BY <1>6 DEF FlapIInv, FlapInv
  <2>2. SinceProbe = Period /\ Periods(failures) = Periods(failures - 1) + Period
    BY <1>1, <1>3, <1>6, PeriodsAddUp
  <2>3. failures - 1 \in Nat /\ Periods(failures - 1) \in Nat
    BY <1>1, <1>6, PeriodsAddUp
  <2> QED
    BY <1>1, <1>2, <2>1, <2>2, <2>3
<1> QED
  BY <1>1, <1>4, <1>5, <1>6

\* The last failed probe has met trouble, itself or through an entry.
LEMMA TroubleIsNotLongOver ==
  ASSUME FlapIInv, [Next]_vars, podReady, ~podReady'
  PROVE  IsRecent
<1> USE Settings
<1>1. failures' # failures /\ failures' # 0
  <2>1. failures' = failures + 1 /\ failures \in Nat
    BY PodGoesOutWithAFailure DEF FlapIInv, IInv, TypeOK
  <2> QED
    BY <2>1
<1>2. \/ ~asking /\ untilProbe = 0 /\ healthyFor < CacheTTL
      \/ asking /\ healthyFor <= SinceProbe
  <2>1. IInv
    BY DEF FlapIInv
  <2> QED
    BY <1>1, <2>1, FailedProbeMetTrouble
<1>3. asking => SinceProbe <= ProbeTimeout
  BY DEF FlapIInv, IInv, ProbeInv
<1>4. healthyFor \in Nat /\ SinceProbe \in Nat
  BY DEF FlapIInv, IInv, TypeOK, SinceProbe
<1> QED
  BY <1>2, <1>3, <1>4 DEF IsRecent

\* No trouble shorter than the periods between the first failed probe and the last, less
\* what the pings of the first may take, costs the pod its traffic, and none that has been
\* over for longer than an entry or a probe lives, whatever entries clients and given-up
\* probes leave behind (system.go:126, 142; deployment.yaml:43-48).
THEOREM OnlyLastingTroubleTakesPodOutAlways == FlapSpec => OnlyLastingTroubleTakesPodOut
<1>1. ASSUME FlapIInv, [FlapNext]_flapVars
      PROVE  [podReady /\ ~podReady' => HasLasted /\ IsRecent]_flapVars
  <2>1. [Next]_vars
    BY <1>1 DEF FlapNext, flapVars, Next
  <2> QED
    BY <1>1, <2>1, TroubleHasLasted, TroubleIsNotLongOver
<1> QED
  BY <1>1, FlapIInvAlways, PTL DEF FlapSpec, OnlyLastingTroubleTakesPodOut

=============================================================================
