------------------------- MODULE GreeterProcessProofs -------------------------
(***************************************************************************)
(* The promises of the greeter and of its publisher, proved of each alone, *)
(* hold of the process made of both, and its cleanup leaves no call        *)
(* behind: for a chain of any length, any instance of it, any number of    *)
(* calls and a stop at any moment.                                         *)
(***************************************************************************)
EXTENDS GreeterProcess, TLAPS

\* The components again, with what is proved of them.
FlowProved == INSTANCE GreeterFlowProofs WITH pc <- at, RemoteFaults <- TRUE

PublisherProved == INSTANCE ExchangePublisherProofs WITH
  Callers <- Calls, NoCaller <- NoCall, Exchanges <- {greeterCreatedExchange}

\* Every step of the process is one of the greeter's, or none.
LEMMA StepIsOfTheFlow ==
  ASSUME [Next]_vars
  PROVE  [Flow!Next]_greeter
<1> USE ProcessAssumption DEF greeter
<1>1. CASE UNCHANGED vars
  BY <1>1 DEF vars
<1>2. ASSUME NEW c \in Calls, Deliver(c)
      PROVE  Flow!Next
  BY <1>2 DEF Deliver, Sent, Flow!Next, Flow!Step
<1>3. ASSUME NEW c \in Calls, Work(c)
      PROVE  Flow!Next \/ UNCHANGED greeter
  <2>1. Here \in Flow!Instances
    BY DEF Flow!Instances
  <2>2. CASE Handle(c)
    BY <1>3, <2>1, <2>2 DEF Handle, Flow!Next
  <2>3. CASE BeginPublish(c) \/ Connect(c) \/ Finish(c)
    BY <2>3 DEF BeginPublish, Connect, Finish
  <2>4. CASE DialFails(c) \/ Send(c)
    <3>1. \E sent \in BOOLEAN : Flow!Publish(c, Here, sent)
      BY <2>4 DEF DialFails, Send
    <3> QED
      BY <2>1, <3>1 DEF Flow!Next, Flow!Step
  <2> QED
    BY <1>3, <2>2, <2>3, <2>4 DEF Work
<1>4. ASSUME NEW c \in Calls, RLock(c) \/ Lock(c)
      PROVE  UNCHANGED greeter
  BY <1>4 DEF RLock, Lock
<1>5. ASSUME NEW c \in Calls, Elsewhere(c)
      PROVE  Flow!Next
  BY <1>5 DEF Elsewhere, At, Flow!Next
<1>6. CASE Stop \/ Cleanup \/ Over
  BY <1>6 DEF Stop, Cleanup, Over, vars
<1> QED
  BY <1>1, <1>2, <1>3, <1>4, <1>5, <1>6 DEF Next

\* Every step of the process is one of the publisher's, or none.
LEMMA StepIsOfThePublisher ==
  ASSUME [Next]_vars
  PROVE  [Publisher!Next]_publisher
<1> USE DEF publisher
<1>1. CASE UNCHANGED vars
  BY <1>1 DEF vars
<1>2. ASSUME NEW c \in Calls, Deliver(c)
      PROVE  Publisher!Next
  BY <1>2 DEF Deliver, Publisher!Next
<1>3. ASSUME NEW c \in Calls, Work(c)
      PROVE  Publisher!Next \/ UNCHANGED publisher
  <2>1. CASE Handle(c)
    BY <2>1 DEF Handle
  <2>2. CASE BeginPublish(c) \/ Finish(c)
    <3>1. Publisher!Handle(c)
      BY <2>2 DEF BeginPublish, Finish, Publisher!Handle
    <3> QED
      BY <3>1 DEF Publisher!Next
  <2>3. CASE Connect(c) \/ DialFails(c) \/ Send(c)
    <3>1. Publisher!Proceed(c)
      BY <2>3 DEF Connect, DialFails, Send, Publisher!Proceed
    <3> QED
      BY <3>1 DEF Publisher!Next
  <2> QED
    BY <1>3, <2>1, <2>2, <2>3 DEF Work
<1>4. ASSUME NEW c \in Calls, RLock(c) \/ Lock(c)
      PROVE  Publisher!Next
  BY <1>4 DEF RLock, Lock, Publisher!Next
<1>5. ASSUME NEW c \in Calls, Elsewhere(c)
      PROVE  UNCHANGED publisher
  BY <1>5 DEF Elsewhere, At
<1>6. CASE Stop \/ Cleanup \/ Over
  BY <1>6 DEF Stop, Cleanup, Over, vars, Publisher!Next
<1> QED
  BY <1>1, <1>2, <1>3, <1>4, <1>5, <1>6 DEF Next

-----------------------------------------------------------------------------
\* The process is a greeter of GreeterFlow, so that what is proved of that one holds of
\* its greeter.
LEMMA ProcessIsFlow == Spec => Flow!Spec
<1>1. Init => Flow!Init
  BY DEF Init
<1>2. [Next]_vars => [Flow!Next]_Flow!vars
  BY StepIsOfTheFlow DEF greeter, Flow!vars
<1> QED
  BY <1>1, <1>2, PTL DEF Spec, Flow!Spec

\* And a publisher of ExchangePublisher.
LEMMA ProcessIsPublisher == Spec => Publisher!Spec
<1>1. Init => Publisher!Init
  BY DEF Init
<1>2. [Next]_vars => [Publisher!Next]_Publisher!vars
  BY StepIsOfThePublisher
  DEF publisher, Publisher!vars, Publisher!mutex, Publisher!request, Publisher!process
<1> QED
  BY <1>1, <1>2, PTL DEF Spec, Publisher!Spec

-----------------------------------------------------------------------------
(* The cleanup leaves no call behind.                                       *)

\* How a step of the greeter moves one call at one instance.
Enter(c) ==
  at[c][1] = "absent" /\ at' = [at EXCEPT ![c][1] = "normalize"]

Forward(c, n) ==
  /\ at[c][n] = "save" /\ n + 1 \in Flow!Instances
  /\ at' = [at EXCEPT ![c][n] = "remote", ![c][n + 1] = "normalize"]

Move(c, n) ==
  \/ at[c][n] = "normalize" /\ at' = [at EXCEPT ![c][n] = "save"]
  \/ /\ at[c][n] \notin {"absent", "answered"}
     /\ \E s \in {"publish", "answered"} : at' = [at EXCEPT ![c][n] = s]

\* A step of CreateGreeter goes on by one, at its instance or to the next.
LEMMA StepMoves ==
  ASSUME NEW c \in Calls, NEW n \in Flow!Instances,
         Flow!Step(c, n) \/ Flow!RemoteRefused(c, n)
  PROVE  Forward(c, n) \/ Move(c, n)
<1>1. CASE Flow!CallRemote(c, n)
  BY <1>1, ProcessAssumption DEF Flow!CallRemote, Flow!Remote, Flow!Instances, Forward
<1>2. CASE ~Flow!CallRemote(c, n)
  BY <1>2 DEF Flow!Step, Flow!Accept, Flow!RejectBlank, Flow!SaveLocal,
       Flow!RemoteReplies, Flow!GiveUp, Flow!Publish, Flow!RemoteRefused,
       Flow!Goto, Flow!Return, Move
<1> QED
  BY <1>1, <1>2

\* Any step of the greeter is such a move, or none.
LEMMA FlowMoves ==
  ASSUME Flow!Next
  PROVE  \/ UNCHANGED at
         \/ \E c \in Calls : Enter(c)
         \/ \E c \in Calls, n \in Flow!Instances : Forward(c, n) \/ Move(c, n)
<1>1. ASSUME NEW c \in Calls, Flow!Arrive(c)
      PROVE  Enter(c)
  BY <1>1 DEF Flow!Arrive, Flow!Goto, Enter
<1>2. CASE Flow!Done
  BY <1>2 DEF Flow!Done, Flow!vars
<1> QED
  BY <1>1, <1>2, StepMoves DEF Flow!Next

\* Calls go down the chain one instance at a time, and no instance sees one again.
LEMMA FlowKeepsTheChain ==
  ASSUME StepsOK, DownTheChain, [Flow!Next]_greeter
  PROVE  /\ at' \in [Calls -> [Flow!Instances -> Flow!Steps]]
         /\ DownTheChain'
         /\ \A c \in Calls, n \in Flow!Instances :
              at[c][n] = "answered" => at'[c][n] = "answered"
<1> USE ProcessAssumption DEF StepsOK, Flow!Instances, Flow!Steps
<1>1. CASE UNCHANGED at
  BY <1>1 DEF DownTheChain
<1>2. ASSUME NEW d \in Calls, Enter(d)
      PROVE  /\ at' \in [Calls -> [Flow!Instances -> Flow!Steps]]
             /\ DownTheChain'
             /\ \A c \in Calls, n \in Flow!Instances :
                  at[c][n] = "answered" => at'[c][n] = "answered"
  BY <1>2 DEF Enter, DownTheChain
<1>3. ASSUME NEW d \in Calls, NEW k \in Flow!Instances, Forward(d, k)
      PROVE  /\ at' \in [Calls -> [Flow!Instances -> Flow!Steps]]
             /\ DownTheChain'
             /\ \A c \in Calls, n \in Flow!Instances :
                  at[c][n] = "answered" => at'[c][n] = "answered"
  <2>1. at[d][k] = "save" /\ at[d][k + 1] = "absent" /\ k + 1 \in Flow!Instances
    BY <1>3 DEF Forward, DownTheChain
  <2>2. at' \in [Calls -> [Flow!Instances -> Flow!Steps]]
    BY <1>3 DEF Forward
  <2>3. \A c \in Calls, n \in Flow!Instances :
          at'[c][n] = IF c = d /\ n = k THEN "remote"
                      ELSE IF c = d /\ n = k + 1 THEN "normalize" ELSE at[c][n]
    BY <1>3, <2>1 DEF Forward
  <2>4. DownTheChain'
    <3> SUFFICES ASSUME NEW c \in Calls, NEW m \in Flow!Instances, NEW n \in Flow!Instances,
                        at'[c][n] \in {"absent", "normalize", "save"}, m > n
                 PROVE  at'[c][m] = "absent"
      BY DEF DownTheChain
    <3>1. CASE c # d
      BY <2>3, <3>1 DEF DownTheChain
    <3>2. CASE c = d /\ n = k + 1
      BY <2>1, <2>3, <3>2 DEF DownTheChain
    <3>3. CASE c = d /\ n # k + 1
      BY <2>1, <2>3, <3>3 DEF DownTheChain
    <3> QED
      BY <3>1, <3>2, <3>3
  <2> QED
    BY <2>1, <2>2, <2>3, <2>4
<1>4. ASSUME NEW d \in Calls, NEW k \in Flow!Instances, Move(d, k)
      PROVE  /\ at' \in [Calls -> [Flow!Instances -> Flow!Steps]]
             /\ DownTheChain'
             /\ \A c \in Calls, n \in Flow!Instances :
                  at[c][n] = "answered" => at'[c][n] = "answered"
  <2>1. PICK s \in {"save", "publish", "answered"} :
          /\ at' = [at EXCEPT ![d][k] = s]
          /\ at[d][k] \notin {"absent", "answered"}
          /\ s = "save" => at[d][k] = "normalize"
    BY <1>4 DEF Move
  <2>2. at' \in [Calls -> [Flow!Instances -> Flow!Steps]]
    BY <2>1
  <2>3. \A c \in Calls, n \in Flow!Instances :
          at'[c][n] = IF c = d /\ n = k THEN s ELSE at[c][n]
    BY <2>1
  <2> QED
    BY <2>1, <2>2, <2>3 DEF DownTheChain
<1> QED
  BY <1>1, <1>2, <1>3, <1>4, FlowMoves DEF greeter

\* What a step of the publisher does to the handlers.
LEMMA PublisherKeepsHandlers ==
  ASSUME StepsOK, DrainedFirst, [Publisher!Next]_publisher
  PROVE  pc' \in [Calls -> Publisher!Steps] /\ DrainedFirst'
<1> USE DEF StepsOK, Publisher!Steps, DrainedFirst, Publisher!Goto
<1>1. CASE UNCHANGED publisher
  BY <1>1 DEF publisher
<1>2. ASSUME NEW c \in Calls, Publisher!Arrive(c)
      PROVE  pc' \in [Calls -> Publisher!Steps] /\ DrainedFirst'
  BY <1>2 DEF Publisher!Arrive, Publisher!process
<1>3. ASSUME NEW c \in Calls,
             Publisher!Handle(c) \/ Publisher!RLock(c) \/ Publisher!Lock(c)
               \/ Publisher!Proceed(c)
      PROVE  pc' \in [Calls -> Publisher!Steps] /\ DrainedFirst'
  <2>1. pc[c] # "idle" /\ UNCHANGED phase
        /\ \E s \in Publisher!Steps : pc' = [pc EXCEPT ![c] = s]
    BY <1>3 DEF Publisher!Handle, Publisher!Answer, Publisher!Call, Publisher!RLock,
         Publisher!Lock, Publisher!Proceed, Publisher!Lookup, Publisher!Recheck,
         Publisher!DialSucceeds, Publisher!DialFails, Publisher!Insert,
         Publisher!Unlock, Publisher!Send, Publisher!process
  <2> QED
    BY <2>1
<1>4. CASE Publisher!Stop \/ Publisher!Cleanup \/ Publisher!Exited
  BY <1>4 DEF Publisher!Stop, Publisher!Cleanup, Publisher!BeginCleanup,
       Publisher!EndCleanup, Publisher!Disconnect, Publisher!Exited, Publisher!InFlight,
       Publisher!request, Publisher!vars
<1> QED
  BY <1>1, <1>2, <1>3, <1>4 DEF Publisher!Next

\* A handler is there from the arrival of its call to its answer.
LEMMA StepKeepsHandlers ==
  ASSUME IInv, [Next]_vars
  PROVE  HandlerPerCall'
<1> USE ProcessAssumption DEF IInv
<1>0. Here \in Flow!Instances
  BY DEF Flow!Instances
<1>1. /\ at' \in [Calls -> [Flow!Instances -> Flow!Steps]]
      /\ pc' \in [Calls -> Publisher!Steps]
      /\ \A c \in Calls : at[c][Here] = "answered" => at'[c][Here] = "answered"
  BY <1>0, StepIsOfTheFlow, FlowKeepsTheChain, StepIsOfThePublisher, PublisherKeepsHandlers
<1>2. ASSUME UNCHANGED pc, \A c \in Calls : ~Enters(c)
      PROVE  HandlerPerCall'
  BY <1>1, <1>2 DEF HandlerPerCall, Enters
<1>3. ASSUME NEW c \in Calls, NEW s \in Publisher!Steps,
             pc' = [pc EXCEPT ![c] = s],
             s = "idle" => at'[c][Here] \in {"absent", "answered"},
             \A d \in Calls \ {c} : ~Enters(d)
      PROVE  HandlerPerCall'
  BY <1>1, <1>3 DEF HandlerPerCall, Enters, StepsOK
<1>4. ASSUME NEW c \in Calls, Deliver(c)
      PROVE  HandlerPerCall'
  <2>1. pc' = [pc EXCEPT ![c] = "handling"] /\ "handling" \in Publisher!Steps
    BY <1>4 DEF Deliver, Publisher!Arrive, Publisher!Goto, Publisher!Steps
  <2>2. \A d \in Calls \ {c} : ~Enters(d)
    BY <1>4 DEF Deliver, Sent, Flow!Arrive, Flow!CallRemote, Flow!Goto, Enters, StepsOK
  <2> QED
    BY <1>3, <2>1, <2>2
<1>5. ASSUME NEW c \in Calls, Handle(c)
      PROVE  HandlerPerCall'
  <2>1. Forward(c, Here) \/ Move(c, Here)
    BY <1>0, <1>5, StepMoves DEF Handle
  <2>2. \A d \in Calls : ~Enters(d)
    BY <1>0, <2>1 DEF Forward, Move, Enters, StepsOK, Flow!Instances
  <2> QED
    BY <1>2, <1>5, <2>2 DEF Handle, publisher
<1>6. ASSUME NEW c \in Calls, DialFails(c) \/ Send(c)
      PROVE  HandlerPerCall'
  <2>1. pc' = [pc EXCEPT ![c] = "returned"] /\ "returned" \in Publisher!Steps
    BY <1>6 DEF DialFails, Send, Publisher!DialFails, Publisher!Send, Publisher!Goto,
         Publisher!Steps
  <2>2. \A d \in Calls \ {c} : ~Enters(d)
    BY <1>6 DEF DialFails, Send, Flow!Publish, Flow!Return, Enters, StepsOK
  <2> QED
    BY <1>3, <2>1, <2>2
<1>7. ASSUME NEW c \in Calls,
             BeginPublish(c) \/ Connect(c) \/ RLock(c) \/ Lock(c) \/ Finish(c)
      PROVE  HandlerPerCall'
  <2>1. UNCHANGED at
    BY <1>7 DEF BeginPublish, Connect, RLock, Lock, Finish, greeter
  <2>2. \E s \in Publisher!Steps :
          /\ pc' = [pc EXCEPT ![c] = s]
          /\ s = "idle" => at[c][Here] = "answered"
    BY <1>7 DEF BeginPublish, Connect, RLock, Lock, Finish, Publisher!Call,
         Publisher!Lookup, Publisher!Recheck, Publisher!DialSucceeds, Publisher!Insert,
         Publisher!Unlock, Publisher!RLock, Publisher!Lock, Publisher!Answer,
         Publisher!Goto, Publisher!Steps
  <2>3. \A d \in Calls : ~Enters(d)
    BY <2>1 DEF Enters
  <2> QED
    BY <1>3, <2>1, <2>2, <2>3
<1>8. ASSUME NEW c \in Calls, Elsewhere(c)
      PROVE  HandlerPerCall'
  <2>1. ~Enters(c) /\ UNCHANGED pc
    BY <1>8 DEF Elsewhere, At, publisher
  <2>2. Enter(c) \/ \E n \in Flow!Instances : Forward(c, n) \/ Move(c, n)
    BY <1>8, StepMoves DEF Elsewhere, At, Enter, Flow!Arrive, Flow!Goto
  <2>3. \A d \in Calls \ {c} : at'[d] = at[d]
    BY <2>2 DEF Enter, Forward, Move, StepsOK
  <2> QED
    BY <1>2, <2>1, <2>3 DEF Enters
<1>9. CASE Stop \/ Cleanup \/ Over \/ UNCHANGED vars
  <2>1. UNCHANGED <<at, pc>>
    BY <1>9 DEF Stop, Cleanup, Over, vars, greeter, publisher, Publisher!Stop,
         Publisher!Cleanup, Publisher!BeginCleanup, Publisher!EndCleanup,
         Publisher!Disconnect, Publisher!request
  <2> QED
    BY <1>2, <2>1 DEF Enters
<1> QED
  BY <1>4, <1>5, <1>6, <1>7, <1>8, <1>9 DEF Next, Work

\* When the cleanup begins every accepted call has its answer, for any chain, any
\* number of calls and a stop at any moment.
THEOREM CleanupLeavesNoCallBehindAlways == Spec => []CleanupLeavesNoCallBehind
<1>1. Init => IInv
  <2> SUFFICES ASSUME Init PROVE IInv
    OBVIOUS
  <2>1. StepsOK
    BY DEF Init, Flow!Init, Publisher!Init, StepsOK, Flow!Steps, Publisher!Steps
  <2>2. DownTheChain /\ HandlerPerCall /\ DrainedFirst
    BY ProcessAssumption
    DEF Init, Flow!Init, Publisher!Init, DownTheChain, HandlerPerCall, DrainedFirst,
        Flow!Instances
  <2> QED
    BY <2>1, <2>2 DEF IInv
<1>2. IInv /\ [Next]_vars => IInv'
  BY StepIsOfTheFlow, FlowKeepsTheChain, StepIsOfThePublisher, PublisherKeepsHandlers,
     StepKeepsHandlers
  DEF IInv, StepsOK
<1>3. IInv => CleanupLeavesNoCallBehind
  BY DEF IInv, HandlerPerCall, DrainedFirst, CleanupLeavesNoCallBehind
<1> QED
  BY <1>1, <1>2, <1>3, PTL DEF Spec

-----------------------------------------------------------------------------
(* What is proved of the components holds of the process.                   *)

\* The two instances of the greeter are one specification.
LEMMA SameFlow == Flow!Spec => FlowProved!Spec
<1>1. Flow!Init => FlowProved!Init
  BY DEF Flow!Init, FlowProved!Init, Flow!Instances, FlowProved!Instances
<1>2. [Flow!Next]_Flow!vars => [FlowProved!Next]_FlowProved!vars
  BY DEF Flow!Next, FlowProved!Next, Flow!vars, FlowProved!vars, Flow!Step, FlowProved!Step,
      Flow!Done, FlowProved!Done, Flow!Arrive, FlowProved!Arrive, Flow!Accept,
      FlowProved!Accept, Flow!RejectBlank, FlowProved!RejectBlank, Flow!SaveLocal,
      FlowProved!SaveLocal, Flow!CallRemote, FlowProved!CallRemote, Flow!RemoteRefused,
      FlowProved!RemoteRefused, Flow!RemoteReplies, FlowProved!RemoteReplies, Flow!GiveUp,
      FlowProved!GiveUp, Flow!Publish, FlowProved!Publish, Flow!Goto, FlowProved!Goto,
      Flow!Return, FlowProved!Return, Flow!Remote, FlowProved!Remote, Flow!Instances,
      FlowProved!Instances
<1> QED
  BY <1>1, <1>2, PTL DEF Flow!Spec, FlowProved!Spec

\* And so are those of the publisher.
LEMMA SamePublisher == Publisher!Spec => PublisherProved!Spec
<1>1. Publisher!Init => PublisherProved!Init
  BY DEF Publisher!Init, PublisherProved!Init, Publisher!mu!LockInit,
      PublisherProved!mu!LockInit
<1>2. [Publisher!Next]_Publisher!vars => [PublisherProved!Next]_PublisherProved!vars
  BY DEF Publisher!Next, PublisherProved!Next, Publisher!vars, PublisherProved!vars,
      Publisher!Arrive, PublisherProved!Arrive, Publisher!Handle, PublisherProved!Handle,
      Publisher!Answer, PublisherProved!Answer, Publisher!Call, PublisherProved!Call,
      Publisher!RLock, PublisherProved!RLock, Publisher!Lock, PublisherProved!Lock,
      Publisher!Proceed, PublisherProved!Proceed, Publisher!Lookup, PublisherProved!Lookup,
      Publisher!Recheck, PublisherProved!Recheck, Publisher!DialSucceeds,
      PublisherProved!DialSucceeds, Publisher!DialFails, PublisherProved!DialFails,
      Publisher!Insert, PublisherProved!Insert, Publisher!Unlock, PublisherProved!Unlock,
      Publisher!Send, PublisherProved!Send, Publisher!Stop, PublisherProved!Stop,
      Publisher!Cleanup, PublisherProved!Cleanup, Publisher!BeginCleanup,
      PublisherProved!BeginCleanup, Publisher!EndCleanup, PublisherProved!EndCleanup,
      Publisher!Disconnect, PublisherProved!Disconnect, Publisher!Exited,
      PublisherProved!Exited, Publisher!InFlight, PublisherProved!InFlight, Publisher!Goto,
      PublisherProved!Goto, Publisher!mutex, PublisherProved!mutex, Publisher!request,
      PublisherProved!request, Publisher!process, PublisherProved!process,
      Publisher!mu!RLock, PublisherProved!mu!RLock, Publisher!mu!RUnlock,
      PublisherProved!mu!RUnlock, Publisher!mu!Announce, PublisherProved!mu!Announce,
      Publisher!mu!Drained, PublisherProved!mu!Drained, Publisher!mu!Unlock,
      PublisherProved!mu!Unlock
<1> QED
  BY <1>1, <1>2, PTL DEF Publisher!Spec, PublisherProved!Spec

\* Every variable of the process keeps its type, the counts of events and connections
\* included.
THEOREM TypesAreRight == Spec => []TypeOK
<1>1. FlowProved!TypeOK => Flow!TypeOK
  BY DEF Flow!TypeOK, FlowProved!TypeOK, Flow!Instances, FlowProved!Instances, Flow!Steps,
      FlowProved!Steps, Flow!Answers, FlowProved!Answers
<1>2. PublisherProved!TypeOK => Publisher!TypeOK
  BY DEF Publisher!TypeOK, PublisherProved!TypeOK, Publisher!Steps, PublisherProved!Steps,
      Publisher!Phases, PublisherProved!Phases, Publisher!mu!LockTypeOK,
      PublisherProved!mu!LockTypeOK
<1>3. FlowProved!Spec => []FlowProved!TypeOK
  BY FlowProved!TypesAreRight, ProcessAssumption
<1>4. PublisherProved!Spec => []PublisherProved!TypeOK
  BY PublisherProved!TypesAreRight, ProcessAssumption
<1> QED
  BY <1>1, <1>2, <1>3, <1>4, SameFlow, SamePublisher, ProcessIsFlow,
     ProcessIsPublisher, PTL DEF TypeOK

\* With its real publisher, and a stop at any moment, the greeter still announces and
\* confirms only what was saved, announces once at most per instance, and nothing of a
\* blank name.
THEOREM ProcessKeepsGreeterPromises ==
  Spec => [](/\ Flow!EventsFollowTheSave /\ Flow!OneEventPerInstance
             /\ Flow!BlankNameHasNoEffect /\ Flow!AnswersTellOfTheSave)
<1>1. FlowProved!EventsFollowTheSave => Flow!EventsFollowTheSave
  BY DEF Flow!EventsFollowTheSave, FlowProved!EventsFollowTheSave, Flow!Instances,
      FlowProved!Instances
<1>2. FlowProved!OneEventPerInstance => Flow!OneEventPerInstance
  BY DEF Flow!OneEventPerInstance, FlowProved!OneEventPerInstance, Flow!Instances,
      FlowProved!Instances
<1>3. FlowProved!BlankNameHasNoEffect => Flow!BlankNameHasNoEffect
  BY DEF Flow!BlankNameHasNoEffect, FlowProved!BlankNameHasNoEffect, Flow!Instances,
      FlowProved!Instances
<1>4. FlowProved!Spec => []FlowProved!EventsFollowTheSave
  BY FlowProved!EventsFollowTheSaveAlways, ProcessAssumption
<1>5. FlowProved!Spec => []FlowProved!OneEventPerInstance
  BY FlowProved!OneEventPerInstanceAlways, ProcessAssumption
<1>6. FlowProved!Spec => []FlowProved!BlankNameHasNoEffect
  BY FlowProved!BlankNameHasNoEffectAlways, ProcessAssumption
<1>7. FlowProved!AnswersTellOfTheSave => Flow!AnswersTellOfTheSave
  BY DEF Flow!AnswersTellOfTheSave, FlowProved!AnswersTellOfTheSave, Flow!Instances,
      FlowProved!Instances, Flow!Remote, FlowProved!Remote
<1>8. FlowProved!Spec => []FlowProved!AnswersTellOfTheSave
  BY FlowProved!AnswersTellOfTheSaveAlways, ProcessAssumption
<1> QED
  BY <1>1, <1>2, <1>3, <1>4, <1>5, <1>6, <1>7, <1>8,
     SameFlow, ProcessIsFlow, PTL

\* Under the requests of the greeter the publisher still opens one connection, sends on
\* open connections only, closes what it opened and does not race on its map.
THEOREM ProcessKeepsPublisherPromises ==
  Spec => [](/\ Publisher!OneConnectionPerExchange /\ Publisher!NothingLeftOpen
             /\ Publisher!SendsOnOpenConnection /\ Publisher!ClientsMapNotRaced)
<1>1. PublisherProved!OneConnectionPerExchange => Publisher!OneConnectionPerExchange
  BY DEF Publisher!OneConnectionPerExchange, PublisherProved!OneConnectionPerExchange
<1>2. PublisherProved!NothingLeftOpen => Publisher!NothingLeftOpen
  BY DEF Publisher!NothingLeftOpen, PublisherProved!NothingLeftOpen
<1>3. PublisherProved!SendsOnOpenConnection => Publisher!SendsOnOpenConnection
  BY DEF Publisher!SendsOnOpenConnection, PublisherProved!SendsOnOpenConnection
<1>4. PublisherProved!ClientsMapNotRaced => Publisher!ClientsMapNotRaced
  BY DEF Publisher!ClientsMapNotRaced, PublisherProved!ClientsMapNotRaced
<1>5. PublisherProved!Spec => []PublisherProved!OneConnectionPerExchange
  BY PublisherProved!OneConnectionPerExchangeAlways, ProcessAssumption
<1>6. PublisherProved!Spec => []PublisherProved!NothingLeftOpen
  BY PublisherProved!NothingLeftOpenAlways, ProcessAssumption
<1>7. PublisherProved!Spec => []PublisherProved!SendsOnOpenConnection
  BY PublisherProved!SendsOnOpenConnectionAlways, ProcessAssumption
<1>8. PublisherProved!Spec => []PublisherProved!ClientsMapNotRaced
  BY PublisherProved!ClientsMapNotRacedAlways, ProcessAssumption
<1> QED
  BY <1>1, <1>2, <1>3, <1>4, <1>5, <1>6, <1>7, <1>8,
     SamePublisher, ProcessIsPublisher, PTL

\* The greeter of a process finds one connection open for as long as one of its calls
\* uses it, and the cleanup closes it after the last of them: what SharedConnections
\* says of a publisher holds of this one as the process uses it.
THEOREM ProcessSharesConnections == Spec => Publisher!ImplementsSharedConnections
<1>1. PublisherProved!Connections!Init => Publisher!Connections!Init
  BY DEF PublisherProved!Connections!Init, Publisher!Connections!Init,
      PublisherProved!InFlight, Publisher!InFlight
<1>2. [PublisherProved!Connections!Next]_(PublisherProved!Connections!vars)
        => [Publisher!Connections!Next]_(Publisher!Connections!vars)
  BY DEF PublisherProved!Connections!Next, Publisher!Connections!Next,
      PublisherProved!Connections!vars, Publisher!Connections!vars,
      PublisherProved!Connections!Enter, Publisher!Connections!Enter,
      PublisherProved!Connections!Leave, Publisher!Connections!Leave,
      PublisherProved!Connections!Connect, Publisher!Connections!Connect,
      PublisherProved!Connections!Take, Publisher!Connections!Take,
      PublisherProved!Connections!Drop, Publisher!Connections!Drop,
      PublisherProved!Connections!Enough, Publisher!Connections!Enough,
      PublisherProved!Connections!Empty, Publisher!Connections!Empty,
      PublisherProved!Connections!Done, Publisher!Connections!Done,
      PublisherProved!Connections!Close, Publisher!Connections!Close,
      PublisherProved!InFlight, Publisher!InFlight
<1>3. PublisherProved!Spec => PublisherProved!ImplementsSharedConnections
  BY PublisherProved!PublisherImplementsSharedConnections, ProcessAssumption
<1> QED
  BY <1>1, <1>2, <1>3, SamePublisher, ProcessIsPublisher, PTL
  DEF Publisher!ImplementsSharedConnections, PublisherProved!ImplementsSharedConnections,
      Publisher!Connections!Spec, PublisherProved!Connections!Spec

=============================================================================
