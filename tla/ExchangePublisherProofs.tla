----------------------- MODULE ExchangePublisherProofs -----------------------
(***************************************************************************)
(* The publisher's safety promises hold for any number of callers and any  *)
(* set of exchanges, through shutdown.                                     *)
(***************************************************************************)
EXTENDS ExchangePublisher, TLAPS

USE PublisherAssumption DEF Steps, Phases, mu!LockTypeOK, Goto, mutex, request, process

LEMMA InitEstablishesIInv == Init => IInv
  BY DEF Init, mu!LockInit, IInv, TypeOK, LockInv, ServingInv, CleanupInv, Inserting

-----------------------------------------------------------------------------
(* While requests run.                                                      *)

\* Steps that neither open a connection nor insert an entry.
LEMMA LookingKeepsIInv ==
  ASSUME IInv, NEW c \in Callers,
         \/ Arrive(c) \/ Handle(c)
         \/ RLock(c) \/ Lookup(c) \/ Lock(c) \/ Recheck(c)
  PROVE  IInv'
<1> USE DEF IInv, Arrive, Handle, Call, Answer, RLock, Lookup, Lock, Recheck, mu!RLock, mu!RUnlock,
            mu!Announce, mu!Drained
<1>1. TypeOK'
  BY DEF TypeOK
<1>2. LockInv'
  BY DEF TypeOK, LockInv
<1>3. phase \in {"serving", "stopping"} /\ UNCHANGED <<clients, live, phase, toClose>>
  BY DEF TypeOK, CleanupInv
<1>4. \A e \in Exchanges : Inserting(e)' <=> Inserting(e)
  BY DEF TypeOK, Inserting
<1>5. ServingInv'
  BY <1>3, <1>4 DEF TypeOK, ServingInv
<1>6. CleanupInv'
  BY <1>3 DEF CleanupInv
<1> QED
  BY <1>1, <1>2, <1>5, <1>6

\* A dial adds the one connection of an exchange that has none, because only the
\* lock's holder can be between dialling and inserting.
LEMMA DialKeepsIInv ==
  ASSUME IInv, NEW c \in Callers, DialSucceeds(c) \/ DialFails(c)
  PROVE  IInv'
<1> USE DEF IInv, DialSucceeds, DialFails, mu!Unlock
<1>1. TypeOK'
  BY DEF TypeOK
<1>2. LockInv'
  BY DEF TypeOK, LockInv
<1>3. phase \in {"serving", "stopping"} /\ UNCHANGED <<clients, phase, toClose>>
  BY DEF TypeOK, CleanupInv
<1>4. \A b \in Callers : pc[b] # "insert"
  BY DEF LockInv
<1>5. ServingInv'
  <2>1. /\ \A b \in Callers : pc'[b] \in {"dial", "insert"} => exchange[b] \notin clients
        /\ \A b \in Callers : pc'[b] \in {"unlock", "send"} => exchange[b] \in clients
    BY <1>3 DEF TypeOK, ServingInv
  <2>2. CASE DialSucceeds(c)
    <3>1. \A e \in Exchanges : Inserting(e)' <=> e = exchange[c]
      BY <1>4, <2>2 DEF TypeOK, Inserting
    <3>2. \A e \in Exchanges : live[e] = IF e \in clients THEN 1 ELSE 0
      BY <1>3, <1>4 DEF ServingInv, Inserting
    <3>3. exchange[c] \notin clients
      BY <1>3, <2>2 DEF ServingInv
    <3>4. \A e \in Exchanges : live'[e] = IF e \in clients \/ e = exchange[c] THEN 1 ELSE 0
      BY <2>2, <3>2, <3>3 DEF TypeOK
    <3> QED
      BY <1>3, <2>1, <2>2, <3>1, <3>4 DEF ServingInv
  <2>3. CASE DialFails(c)
    <3>1. \A e \in Exchanges : ~Inserting(e) /\ ~Inserting(e)'
      BY <1>4, <2>3 DEF TypeOK, Inserting
    <3> QED
      BY <1>3, <2>1, <2>3, <3>1 DEF ServingInv
  <2> QED
    BY <2>2, <2>3
<1>6. CleanupInv'
  BY <1>3 DEF CleanupInv
<1> QED
  BY <1>1, <1>2, <1>5, <1>6

LEMMA InsertKeepsIInv ==
  ASSUME IInv, NEW c \in Callers, Insert(c)
  PROVE  IInv'
<1> USE DEF IInv, Insert
<1>1. TypeOK'
  BY DEF TypeOK
<1>2. LockInv'
  BY DEF TypeOK, LockInv
<1>3. phase \in {"serving", "stopping"} /\ UNCHANGED <<live, phase, toClose>>
  BY DEF TypeOK, CleanupInv
<1>4. \A b \in Callers : b # c => pc[b] \notin {"dial", "insert"}
  BY DEF LockInv
<1>5. ServingInv'
  <2>1. \A e \in Exchanges : Inserting(e) <=> e = exchange[c]
    BY <1>4 DEF Inserting
  <2>2. \A e \in Exchanges : ~Inserting(e)'
    BY <1>4 DEF TypeOK, Inserting
  <2>3. \A e \in Exchanges : live'[e] = IF e \in clients' \/ Inserting(e)' THEN 1 ELSE 0
    BY <1>3, <2>1, <2>2 DEF ServingInv
  <2>4. \A b \in Callers : pc'[b] \notin {"dial", "insert"}
    BY <1>4 DEF TypeOK
  <2>5. \A b \in Callers : pc'[b] \in {"unlock", "send"} => exchange'[b] \in clients'
    BY <1>3 DEF TypeOK, ServingInv
  <2> QED
    BY <2>3, <2>4, <2>5 DEF ServingInv
<1>6. CleanupInv'
  BY <1>3 DEF CleanupInv
<1> QED
  BY <1>1, <1>2, <1>5, <1>6

LEMMA SendingKeepsIInv ==
  ASSUME IInv, NEW c \in Callers, Unlock(c) \/ Send(c)
  PROVE  IInv'
<1> USE DEF IInv, Unlock, Send, mu!Unlock
<1>1. TypeOK'
  BY DEF TypeOK
<1>2. LockInv'
  BY DEF TypeOK, LockInv
<1>3. phase \in {"serving", "stopping"} /\ UNCHANGED <<clients, live, phase, toClose>>
  BY DEF TypeOK, CleanupInv
<1>4. \A e \in Exchanges : Inserting(e)' <=> Inserting(e)
  BY DEF TypeOK, Inserting
<1>5. ServingInv'
  BY <1>3, <1>4 DEF TypeOK, ServingInv
<1>6. CleanupInv'
  BY <1>3 DEF CleanupInv
<1> QED
  BY <1>1, <1>2, <1>5, <1>6

-----------------------------------------------------------------------------
(* Shutdown.                                                                *)

LEMMA ShutdownKeepsIInv ==
  ASSUME IInv, Stop \/ Cleanup
  PROVE  IInv'
<1> USE DEF IInv
<1>1. CASE Stop
  BY <1>1 DEF Stop, TypeOK, LockInv, ServingInv, CleanupInv, Inserting
<1>2. CASE BeginCleanup
  <2> USE <1>2 DEF BeginCleanup
  <2>1. \A c \in Callers : pc[c] = "idle"
    BY DEF InFlight
  <2>2. \A e \in Exchanges : live[e] = IF e \in clients THEN 1 ELSE 0
    BY <2>1 DEF ServingInv, Inserting
  <2>3. TypeOK' /\ LockInv'
    BY DEF TypeOK, LockInv
  <2> QED
    BY <2>1, <2>2, <2>3 DEF ServingInv, CleanupInv
<1>3. ASSUME NEW e \in Exchanges, Disconnect(e) PROVE IInv'
  <2> USE <1>3 DEF Disconnect
  <2>1. live[e] = 1
    BY DEF CleanupInv
  <2>2. TypeOK' /\ LockInv'
    BY <2>1 DEF TypeOK, LockInv
  <2>3. CleanupInv'
    BY <2>1 DEF TypeOK, CleanupInv
  <2> QED
    BY <2>2, <2>3 DEF ServingInv
<1>4. CASE EndCleanup
  BY <1>4 DEF EndCleanup, TypeOK, LockInv, ServingInv, CleanupInv
<1> QED
  BY <1>1, <1>2, <1>3, <1>4 DEF Cleanup

-----------------------------------------------------------------------------
THEOREM IInvAlways == Spec => []IInv
<1>1. ASSUME IInv, [Next]_vars
      PROVE  IInv'
  <2>1. ASSUME NEW c \in Callers,
               Arrive(c) \/ Handle(c) \/ RLock(c) \/ Lock(c) \/ Proceed(c)
        PROVE  IInv'
    BY <1>1, <2>1, LookingKeepsIInv, DialKeepsIInv, InsertKeepsIInv, SendingKeepsIInv
       DEF Proceed
  <2>2. CASE Stop \/ Cleanup
    BY <1>1, <2>2, ShutdownKeepsIInv
  <2>3. CASE UNCHANGED vars
    BY <1>1, <2>3 DEF vars, IInv, TypeOK, LockInv, ServingInv, CleanupInv, Inserting
  <2> QED
    BY <1>1, <2>1, <2>2, <2>3 DEF Next, Exited
<1> QED
  BY <1>1, InitEstablishesIInv, PTL DEF Spec

\* Every variable keeps its type; in particular no connection is closed twice.
THEOREM TypesAreRight == Spec => []TypeOK
<1>1. IInv => TypeOK
  BY DEF IInv
<1> QED
  BY <1>1, IInvAlways, PTL

\* The double-checked creation of rabbitmq.go:70-90 opens one connection at most.
THEOREM OneConnectionPerExchangeAlways == Spec => []OneConnectionPerExchange
<1>1. IInv => OneConnectionPerExchange
  BY DEF IInv, TypeOK, ServingInv, CleanupInv, OneConnectionPerExchange
<1> QED
  BY <1>1, IInvAlways, PTL

\* The cleanup of rabbitmq.go:34-40 leaves no connection open.
THEOREM NothingLeftOpenAlways == Spec => []NothingLeftOpen
<1>1. IInv => NothingLeftOpen
  BY DEF IInv, CleanupInv, NothingLeftOpen
<1> QED
  BY <1>1, IInvAlways, PTL

\* What getOrCreateClient returned is still open when Publish uses it (60-64).
THEOREM SendsOnOpenConnectionAlways == Spec => []SendsOnOpenConnection
<1>1. IInv => SendsOnOpenConnection
  BY DEF IInv, TypeOK, ServingInv, CleanupInv, SendsOnOpenConnection
<1> QED
  BY <1>1, IInvAlways, PTL

\* The map is written with no concurrent access, cleanup's lock-free loop included.
THEOREM ClientsMapNotRacedAlways == Spec => []ClientsMapNotRaced
<1>1. IInv => ClientsMapNotRaced
  BY DEF IInv, LockInv, CleanupInv, ClientsMapNotRaced
<1> QED
  BY <1>1, IInvAlways, PTL

-----------------------------------------------------------------------------
(* The refinement of SharedConnections.                                     *)

\* What a step of one caller does to who is inside and to what they hold.
LEMMA CallerMoves ==
  ASSUME TypeOK, NEW c \in Callers, NEW step \in Steps, Goto(c, step)
  PROVE  /\ step # "idle" => InFlight' = InFlight \cup {c}
         /\ step = "idle" => InFlight' = InFlight \ {c}
         /\ pc'[c] = step
         /\ \A b \in Callers \ {c} : pc'[b] = pc[b]
  BY DEF TypeOK, InFlight

Holds == [c \in Callers |-> IF pc[c] = "send" THEN {exchange[c]} ELSE {}]

LEMMA RequestMapsToUser ==
  ASSUME IInv, NEW c \in Callers, Arrive(c) \/ Answer(c) \/ \E e \in Exchanges : Call(c, e)
  PROVE  [Connections!Next]_(Connections!vars)
<1> USE DEF IInv, Connections!vars
<1>1. CASE Arrive(c)
  <2>1. c \notin InFlight /\ InFlight' = InFlight \cup {c} /\ Holds' = Holds
    BY <1>1, CallerMoves DEF Arrive, InFlight, TypeOK, Holds
  <2>2. Connections!Enter(c)
    BY <1>1, <2>1 DEF Arrive, Connections!Enter, Holds
  <2> QED
    BY <2>2 DEF Connections!Next
<1>2. CASE Answer(c)
  <2>1. c \in InFlight /\ InFlight' = InFlight \ {c} /\ Holds' = Holds /\ Holds[c] = {}
    BY <1>2, CallerMoves DEF Answer, InFlight, TypeOK, Holds
  <2>2. Connections!Leave(c)
    BY <1>2, <2>1 DEF Answer, Connections!Leave, Holds
  <2> QED
    BY <2>2 DEF Connections!Next
<1>3. ASSUME NEW e \in Exchanges, Call(c, e) PROVE UNCHANGED Connections!vars
  <2>1. c \in InFlight /\ pc'[c] = "rlock"
    BY <1>3 DEF Call, InFlight, TypeOK
  <2>2. InFlight' = InFlight
    <3>1. InFlight' = InFlight \cup {c}
      BY <1>3, CallerMoves DEF Call
    <3> QED
      BY <2>1, <3>1
  <2>3. Holds' = Holds
    BY <1>3, <2>1 DEF Call, Holds, TypeOK
  <2> QED
    BY <1>3, <2>2, <2>3 DEF Call, Holds
<1> QED
  BY <1>1, <1>2, <1>3

LEMMA PublishMapsToUse ==
  ASSUME IInv, IInv', NEW c \in Callers, RLock(c) \/ Lock(c) \/ Proceed(c)
  PROVE  [Connections!Next]_(Connections!vars)
<1> USE DEF IInv, Connections!vars
<1>1. /\ InFlight' = InFlight /\ c \in InFlight
      /\ pc[c] \notin {"idle", "handling", "returned"}
      /\ UNCHANGED <<exchange, phase>>
      /\ \A b \in Callers \ {c} : pc'[b] = pc[b]
  BY DEF Proceed, RLock, Lock, Lookup, Recheck, DialSucceeds, DialFails, Insert, Unlock, Send,
         InFlight, TypeOK
<1>2. phase \in {"serving", "stopping"}
  BY <1>1 DEF TypeOK, CleanupInv
<1>3. CASE UNCHANGED live /\ pc[c] # "send" /\ pc'[c] # "send"
  <2>1. Holds' = Holds
    BY <1>1, <1>3 DEF Holds
  <2> QED
    BY <1>1, <1>3, <2>1 DEF Holds
<1>4. CASE UNCHANGED live /\ pc'[c] = "send"
  <2>1. PICK e \in Exchanges : e = exchange[c]
    BY DEF TypeOK
  <2>2. Holds' = [Holds EXCEPT ![c] = {e}]
    BY <1>1, <1>4, <2>1 DEF Holds
  <2>3. live[e] = 1
    BY <1>1, <1>2, <1>4, <2>1 DEF TypeOK, ServingInv
  <2>4. Connections!Take(c, e)
    BY <1>1, <1>4, <2>2, <2>3 DEF Connections!Take, Holds
  <2> QED
    BY <2>4 DEF Connections!Next
<1>5. CASE Send(c)
  <2>1. Holds' = [Holds EXCEPT ![c] = {}]
    BY <1>1, <1>5 DEF Send, Holds, TypeOK
  <2>2. Connections!Drop(c)
    BY <1>1, <1>5, <2>1 DEF Send, Connections!Drop, Holds
  <2> QED
    BY <2>2 DEF Connections!Next
<1>6. CASE DialSucceeds(c)
  <2>1. PICK e \in Exchanges : e = exchange[c]
    BY DEF TypeOK
  <2>2. e \notin clients /\ ~Inserting(e)
    <3>1. e \notin clients
      BY <1>2, <1>6, <2>1 DEF DialSucceeds, ServingInv
    <3>2. \A b \in Callers : pc[b] # "insert"
      BY <1>6 DEF DialSucceeds, LockInv
    <3> QED
      BY <3>1, <3>2 DEF Inserting
  <2>3. live[e] = 0
    BY <1>2, <2>2 DEF ServingInv
  <2>4. live' = [live EXCEPT ![e] = 1]
    BY <1>6, <2>1, <2>3 DEF DialSucceeds
  <2>5. Holds' = Holds
    BY <1>1, <1>6 DEF DialSucceeds, Holds, TypeOK
  <2>6. Connections!Connect(e)
    BY <1>1, <2>3, <2>4, <2>5 DEF Connections!Connect, Holds
  <2> QED
    BY <2>6 DEF Connections!Next
<1>7. \/ Send(c) \/ DialSucceeds(c)
      \/ UNCHANGED live /\ pc[c] # "send"
  BY DEF Proceed, RLock, Lock, Lookup, Recheck, DialFails, Insert, Unlock
<1> QED
  BY <1>3, <1>4, <1>5, <1>6, <1>7

LEMMA ShutdownMapsToShutdown ==
  ASSUME IInv, Stop \/ Cleanup
  PROVE  [Connections!Next]_(Connections!vars)
<1> USE DEF IInv, Connections!vars
<1>1. InFlight' = InFlight /\ Holds' = Holds
  BY DEF Stop, Cleanup, BeginCleanup, EndCleanup, Disconnect, InFlight, Holds
<1>2. CASE Stop
  BY <1>1, <1>2 DEF Stop, Connections!Next, Connections!Enough, Holds
<1>3. CASE BeginCleanup
  BY <1>1, <1>3 DEF BeginCleanup, Connections!Next, Connections!Empty, Holds
<1>4. CASE EndCleanup
  <2>1. \A e \in Exchanges : live[e] = 0
    BY <1>4 DEF EndCleanup, CleanupInv
  <2>2. Connections!Done
    BY <1>4, <2>1 DEF EndCleanup, Connections!Done
  <2>3. UNCHANGED live
    BY <1>4 DEF EndCleanup
  <2> QED
    BY <1>1, <2>2, <2>3 DEF Connections!Next, Holds
<1>5. ASSUME NEW e \in Exchanges, Disconnect(e) PROVE Connections!Next
  <2>1. live[e] = 1
    BY <1>5 DEF Disconnect, CleanupInv
  <2>2. live' = [live EXCEPT ![e] = 0]
    BY <1>5, <2>1 DEF Disconnect
  <2>3. Connections!Close(e)
    BY <1>1, <1>5, <2>1, <2>2 DEF Disconnect, Connections!Close, Holds
  <2> QED
    BY <2>3 DEF Connections!Next
<1> QED
  BY <1>2, <1>3, <1>4, <1>5 DEF Cleanup

\* The publisher implements shared connections: one per exchange, open to everyone who
\* is given it, closed once after the last (rabbitmq.go:34-40, 60-90).
THEOREM PublisherImplementsSharedConnections == Spec => ImplementsSharedConnections
<1>1. Init => Connections!Init
  BY DEF Init, Connections!Init, InFlight
<1>2. ASSUME IInv, IInv', [Next]_vars
      PROVE  [Connections!Next]_(Connections!vars)
  <2>1. ASSUME NEW c \in Callers,
               Arrive(c) \/ Handle(c) \/ RLock(c) \/ Lock(c) \/ Proceed(c)
        PROVE  [Connections!Next]_(Connections!vars)
    BY <1>2, <2>1, RequestMapsToUser, PublishMapsToUse DEF Handle
  <2>2. CASE Stop \/ Cleanup
    BY <1>2, <2>2, ShutdownMapsToShutdown
  <2>3. CASE UNCHANGED vars
    BY <2>3 DEF vars, Connections!vars, InFlight
  <2> QED
    BY <1>2, <2>1, <2>2, <2>3 DEF Next, Exited
<1> QED
  BY <1>1, <1>2, IInvAlways, PTL
     DEF Spec, ImplementsSharedConnections, Connections!Spec

=============================================================================
