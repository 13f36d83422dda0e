-------------------------- MODULE GreeterFlowProofs --------------------------
(***************************************************************************)
(* The greeter's safety promises hold for any number of calls and a chain  *)
(* of any length, with and without remote faults.                          *)
(***************************************************************************)
EXTENDS GreeterFlow, TLAPS

USE FlowAssumption DEF Instances, Steps, Answers, Remote

LEMMA InitEstablishesIInv == Init => IInv
  BY DEF Init, IInv, TypeOK, ChainInv, EventInv, BlankInv

-----------------------------------------------------------------------------
\* What the invariant says of a call concerns that call only.
LEMMA OtherCallsKeepIInv ==
  ASSUME IInv, NEW d \in Calls, UNCHANGED blank,
         \A i \in Instances : /\ pc'[d][i] = pc[d][i] /\ answer'[d][i] = answer[d][i]
                              /\ events'[d][i] = events[d][i],
         NEW m \in Instances
  PROVE  ChainInv(d, m)' /\ EventInv(d, m)' /\ BlankInv(d, m)'
<1>1. ChainInv(d, m) /\ EventInv(d, m) /\ BlankInv(d, m)
  BY DEF IInv
<1> QED
  BY <1>1 DEF ChainInv, EventInv, BlankInv

LEMMA ArriveKeepsIInv ==
  ASSUME IInv, NEW c \in Calls, Arrive(c)
  PROVE  IInv'
<1> USE DEF IInv, Arrive, Goto
<1>1. TypeOK'
  BY DEF TypeOK
<1>2. ASSUME NEW d \in Calls, NEW m \in Instances
      PROVE  ChainInv(d, m)' /\ EventInv(d, m)' /\ BlankInv(d, m)'
  <2>1. \A i \in Instances : i > 1 => pc[c][i] = "absent"
    BY DEF ChainInv
  <2>2. answer[c][1] = "none" /\ events[c][1] = 0
    BY DEF TypeOK, ChainInv
  <2> QED
    BY <2>1, <2>2 DEF TypeOK, ChainInv, EventInv, BlankInv
<1> QED
  BY <1>1, <1>2

\* The steps of one instance that involve no other.
LEMMA LocalStepKeepsIInv ==
  ASSUME IInv, NEW c \in Calls, NEW n \in Instances,
         \/ Accept(c, n) \/ RejectBlank(c, n) \/ SaveLocal(c, n)
         \/ RemoteRefused(c, n) \/ GiveUp(c, n)
  PROVE  IInv'
<1> USE DEF IInv, Accept, RejectBlank, SaveLocal, RemoteRefused, GiveUp, Goto, Return
<1>1. TypeOK'
  <2>1. \E step \in Steps : pc' = [pc EXCEPT ![c][n] = step]
    OBVIOUS
  <2>2. \/ answer' = answer
        \/ \E a \in Answers : answer' = [answer EXCEPT ![c][n] = a]
    OBVIOUS
  <2>3. pc' \in [Calls -> [Instances -> Steps]]
    BY <2>1 DEF TypeOK
  <2>4. answer' \in [Calls -> [Instances -> Answers]]
    <3>1. CASE answer' = answer
      BY <3>1 DEF TypeOK
    <3>2. ASSUME NEW a \in Answers, answer' = [answer EXCEPT ![c][n] = a]
          PROVE  answer' \in [Calls -> [Instances -> Answers]]
      BY <3>2 DEF TypeOK
    <3> QED
      BY <2>2, <3>1, <3>2
  <2> QED
    BY <2>3, <2>4 DEF TypeOK
<1>2. events[c][n] = 0 /\ answer[c][n] = "none" /\ UNCHANGED <<blank, events>>
  BY DEF TypeOK, ChainInv, EventInv
<1>3. \A d \in Calls, m \in Instances :
        d # c \/ m # n => pc'[d][m] = pc[d][m] /\ answer'[d][m] = answer[d][m]
  BY DEF TypeOK
<1>4. \/ pc[c][n] = "normalize" /\ ~blank[c] /\ pc'[c][n] = "save" /\ answer'[c][n] = "none"
      \/ pc[c][n] = "save" /\ n = Hops /\ pc'[c][n] = "publish" /\ answer'[c][n] = "none"
      \/ pc'[c][n] = "answered" /\ answer'[c][n] = "error" /\ (blank[c] \/ Remote(n))
  BY <1>2 DEF TypeOK, ChainInv
<1>5. ASSUME NEW d \in Calls, NEW m \in Instances
      PROVE  ChainInv(d, m)' /\ EventInv(d, m)' /\ BlankInv(d, m)'
  <2>1. CASE d # c
    BY <1>2, <1>3, <2>1 DEF ChainInv, EventInv, BlankInv
  <2>2. CASE d = c
    <3>1. ChainInv(c, m)'
      BY <1>2, <1>3, <1>4 DEF ChainInv
    <3>2. EventInv(c, m)' /\ BlankInv(c, m)'
      BY <1>2, <1>3, <1>4 DEF EventInv, BlankInv
    <3> QED
      BY <2>2, <3>1, <3>2
  <2> QED
    BY <2>1, <2>2
<1> QED
  BY <1>1, <1>5

LEMMA CallRemoteKeepsIInv ==
  ASSUME IInv, NEW c \in Calls, NEW n \in Instances, CallRemote(c, n)
  PROVE  IInv'
<1>0. n + 1 \in Instances /\ n + 1 # n /\ n + 1 > 1 /\ n < Hops
  BY DEF CallRemote
<1>1. TypeOK'
  BY <1>0 DEF IInv, TypeOK, CallRemote
<1>2. /\ ~blank[c]
      /\ \A m \in Instances : m > n => pc[c][m] = "absent"
  BY DEF IInv, ChainInv, BlankInv, CallRemote
<1>3. /\ UNCHANGED <<blank, answer, events>>
      /\ \A d \in Calls, m \in Instances : d # c => pc'[d][m] = pc[d][m]
      /\ \A m \in Instances : m # n /\ m # n + 1 => pc'[c][m] = pc[c][m]
      /\ pc'[c][n] = "remote" /\ pc'[c][n + 1] = "normalize"
  BY <1>0 DEF IInv, TypeOK, CallRemote
<1>4. \A m \in Instances : m >= n => answer[c][m] = "none" /\ events[c][m] = 0
  <2>1. pc[c][n] = "save"
    BY DEF CallRemote
  <2> QED
    BY <1>2, <2>1 DEF IInv, TypeOK, ChainInv, EventInv
<1>5. \A m \in Instances : m > n => pc'[c][m] \in {"absent", "normalize"}
  BY <1>2, <1>3
<1>6. ASSUME NEW m \in Instances
      PROVE  ChainInv(c, m)' /\ EventInv(c, m)' /\ BlankInv(c, m)'
  <2>0. ~blank'[c] /\ (m >= n => answer'[c][m] = "none" /\ events'[c][m] = 0)
    BY <1>2, <1>3, <1>4
  <2>1. CASE m = n
    BY <1>0, <1>3, <2>0, <2>1 DEF ChainInv, EventInv, BlankInv
  <2>2. CASE m > n
    <3>1. \A i \in Instances : i > m => pc'[c][i] = "absent"
      BY <1>2, <1>3, <2>2
    <3> QED
      BY <1>5, <2>0, <2>2, <3>1 DEF ChainInv, EventInv, BlankInv
  <2>3. CASE m < n
    <3>1. pc'[c][m] = pc[c][m] /\ answer'[c][m] = answer[c][m]
          /\ events'[c][m] = events[c][m]
      BY <1>3, <2>3
    <3>2. ChainInv(c, m) /\ EventInv(c, m)
      BY DEF IInv
    <3>3. pc[c][m] \notin {"absent", "normalize", "save", "publish"} /\ answer[c][m] # "ok"
      BY <1>3, <2>3, <3>2 DEF ChainInv, CallRemote
    <3> QED
      BY <2>0, <3>1, <3>2, <3>3 DEF ChainInv, EventInv, BlankInv
  <2> QED
    BY <2>1, <2>2, <2>3
<1>7. ASSUME NEW d \in Calls, d # c, NEW m \in Instances
      PROVE  ChainInv(d, m)' /\ EventInv(d, m)' /\ BlankInv(d, m)'
  BY <1>3, <1>7, OtherCallsKeepIInv
<1> QED
  BY <1>1, <1>6, <1>7 DEF IInv

LEMMA RemoteRepliesKeepsIInv ==
  ASSUME IInv, NEW c \in Calls, NEW n \in Instances, RemoteReplies(c, n)
  PROVE  IInv'
<1> USE DEF IInv, RemoteReplies, Goto, Return
<1>0. n + 1 \in Instances
  <2>1. n < Hops
    BY DEF ChainInv
  <2> QED
    BY <2>1
<1>1. TypeOK'
  <2>1. \E step \in Steps : pc' = [pc EXCEPT ![c][n] = step]
    OBVIOUS
  <2>2. \/ answer' = answer
        \/ \E a \in Answers : answer' = [answer EXCEPT ![c][n] = a]
    OBVIOUS
  <2>3. pc' \in [Calls -> [Instances -> Steps]]
    BY <2>1 DEF TypeOK
  <2>4. answer' \in [Calls -> [Instances -> Answers]]
    <3>1. CASE answer' = answer
      BY <3>1 DEF TypeOK
    <3>2. ASSUME NEW a \in Answers, answer' = [answer EXCEPT ![c][n] = a]
          PROVE  answer' \in [Calls -> [Instances -> Answers]]
      BY <3>2 DEF TypeOK
    <3> QED
      BY <2>2, <3>1, <3>2
  <2> QED
    BY <2>3, <2>4 DEF TypeOK
<1>2. events[c][n] = 0 /\ answer[c][n] = "none" /\ UNCHANGED <<blank, events>>
  BY DEF TypeOK, ChainInv, EventInv
<1>3. \A d \in Calls, m \in Instances :
        d # c \/ m # n => pc'[d][m] = pc[d][m] /\ answer'[d][m] = answer[d][m]
  BY DEF TypeOK
<1>4. \/ /\ pc'[c][n] = "publish" /\ answer'[c][n] = "none" /\ ~blank[c]
         /\ \A m \in Instances : m > n => pc[c][m] = "answered" /\ answer[c][m] = "ok"
      \/ pc'[c][n] = "answered" /\ answer'[c][n] = "error" /\ Remote(n)
  BY <1>0, <1>2 DEF TypeOK, ChainInv, BlankInv
<1>5. ASSUME NEW d \in Calls, NEW m \in Instances
      PROVE  ChainInv(d, m)' /\ EventInv(d, m)' /\ BlankInv(d, m)'
  BY <1>2, <1>3, <1>4 DEF ChainInv, EventInv, BlankInv
<1> QED
  BY <1>1, <1>5

LEMMA PublishKeepsIInv ==
  ASSUME IInv, NEW c \in Calls, NEW n \in Instances, NEW sent \in BOOLEAN,
         Publish(c, n, sent)
  PROVE  IInv'
<1> USE DEF IInv, Publish, Return
<1>1. events[c][n] = 0 /\ ~blank[c] /\ answer[c][n] = "none"
  BY DEF TypeOK, ChainInv, EventInv, BlankInv
<1>2. TypeOK'
  BY DEF TypeOK
<1>3. \A d \in Calls, m \in Instances :
        /\ pc'[d][m] = IF d = c /\ m = n THEN "answered" ELSE pc[d][m]
        /\ answer'[d][m] = IF d = c /\ m = n THEN "ok" ELSE answer[d][m]
        /\ d # c \/ m # n => events'[d][m] = events[d][m]
  BY DEF TypeOK
<1>4. events'[c][n] \in {0, 1}
  BY <1>1 DEF TypeOK
<1>5. ASSUME NEW d \in Calls, NEW m \in Instances
      PROVE  ChainInv(d, m)' /\ EventInv(d, m)' /\ BlankInv(d, m)'
  BY <1>1, <1>3, <1>4 DEF ChainInv, EventInv, BlankInv
<1> QED
  BY <1>2, <1>5

THEOREM IInvAlways == Spec => []IInv
<1>1. ASSUME IInv, [Next]_vars
      PROVE  IInv'
  <2>1. CASE UNCHANGED vars
    BY <1>1, <2>1 DEF vars, IInv, TypeOK, ChainInv, EventInv, BlankInv
  <2>2. ASSUME NEW c \in Calls, NEW n \in Instances, Step(c, n) \/ RemoteRefused(c, n)
        PROVE  IInv'
    BY <1>1, <2>2, LocalStepKeepsIInv, CallRemoteKeepsIInv, RemoteRepliesKeepsIInv,
       PublishKeepsIInv DEF Step
  <2> QED
    BY <1>1, <2>1, <2>2, ArriveKeepsIInv DEF Next, Done
<1> QED
  BY <1>1, InitEstablishesIInv, PTL DEF Spec

-----------------------------------------------------------------------------
\* Every variable keeps its type.
THEOREM TypesAreRight == Spec => []TypeOK
<1>1. IInv => TypeOK
  BY DEF IInv
<1> QED
  BY <1>1, IInvAlways, PTL

\* No instance announces a greeting whose save failed or is in doubt
\* (greeter.go:70-78), however long the chain.
THEOREM EventsFollowTheSaveAlways == Spec => []EventsFollowTheSave
<1>1. IInv => EventsFollowTheSave
  BY DEF IInv, TypeOK, ChainInv, EventInv, EventsFollowTheSave
<1> QED
  BY <1>1, IInvAlways, PTL

\* An instance announces a greeting once at most (greeter.go:74-78).
THEOREM OneEventPerInstanceAlways == Spec => []OneEventPerInstance
<1>1. IInv => OneEventPerInstance
  BY DEF IInv, EventInv, OneEventPerInstance
<1> QED
  BY <1>1, IInvAlways, PTL

\* A blank name stops at the first instance (greeter.go:60-63).
THEOREM BlankNameHasNoEffectAlways == Spec => []BlankNameHasNoEffect
<1>1. IInv => BlankNameHasNoEffect
  BY DEF IInv, TypeOK, EventInv, BlankInv, BlankNameHasNoEffect
<1> QED
  BY <1>1, IInvAlways, PTL

\* An instance confirms only what the end of the chain has saved, and without a remote
\* save fails nothing but blank names (greeter.go:57-80), however long the chain.
THEOREM AnswersTellOfTheSaveAlways == Spec => []AnswersTellOfTheSave
<1>1. IInv => AnswersTellOfTheSave
  BY DEF IInv, ChainInv, AnswersTellOfTheSave
<1> QED
  BY <1>1, IInvAlways, PTL

=============================================================================
