-------------------------- MODULE ExchangePublisher --------------------------
(***************************************************************************)
(* RabbitMQPublisher (src/internal/pkg/messagingx/rabbitmq.go): one broker *)
(* connection per exchange, opened on first use by whichever request gets  *)
(* there first, shared by all, closed by the cleanup function when the     *)
(* process ends.                                                           *)
(*                                                                         *)
(* getOrCreateClient looks the exchange up under the read lock, and if it  *)
(* is missing looks again under the write lock, which it keeps while it    *)
(* dials.  A request accepted before the stop signal may publish for the   *)
(* first time after it.  The cleanup function ranges over the same map     *)
(* WITHOUT the lock: it relies on kratos.App.Run returning only after the  *)
(* servers have waited for the requests in flight (newApp sets no          *)
(* kratos.StopTimeout).                                                    *)
(*                                                                         *)
(* A connection has no identity here: `live[e]' counts the open ones of    *)
(* exchange e.  Reconnecting is inside the broker library and not modelled.*)
(***************************************************************************)
EXTENDS Naturals

CONSTANTS
  Callers,    \* requests the servers may be handling at the same time
  NoCaller,   \* not a caller: nobody holds the write lock
  Exchanges   \* the exchange names passed to Publish

ASSUME PublisherAssumption == NoCaller \notin Callers

VARIABLES
  clients,    \* RabbitMQPublisher.clients: the exchanges that have an entry
  live,       \* per exchange: broker connections open to it
  readers,    \* RabbitMQPublisher.mu
  writer,
  pc,         \* per caller: not there, in its handler, or where it is in Publish
  exchange,   \* per caller: Publish's argument
  phase,      \* of the process: its requests, then wireApp's cleanup
  toClose     \* the entries the cleanup loop has still to visit

mutex == <<readers, writer>>
request == <<pc, exchange>>
process == <<phase, toClose>>
vars == <<clients, live, mutex, request, process>>

mu == INSTANCE RWMutex WITH Threads <- Callers, NoThread <- NoCaller

-----------------------------------------------------------------------------
Steps ==
  {"idle", "handling", "rlock", "lookup", "lock", "recheck", "dial", "insert", "unlock",
   "send", "returned"}

Phases == {"serving", "stopping", "cleanup", "closed"}

TypeOK ==
  /\ clients \subseteq Exchanges
  /\ live \in [Exchanges -> Nat]
  /\ mu!LockTypeOK
  /\ pc \in [Callers -> Steps]
  /\ exchange \in [Callers -> Exchanges]
  /\ phase \in Phases
  /\ toClose \subseteq Exchanges

\* NewRabbitMQPublisher: an empty map, and no connection until the first use.
Init ==
  /\ clients = {}
  /\ live = [e \in Exchanges |-> 0]
  /\ mu!LockInit
  /\ pc = [c \in Callers |-> "idle"]
  /\ exchange \in [Callers -> Exchanges]
  /\ phase = "serving"
  /\ toClose = {}

Goto(c, step) == pc' = [pc EXCEPT ![c] = step]

-----------------------------------------------------------------------------
(* A request, Publish and getOrCreateClient.                                *)

\* A server accepts a request.
Arrive(c) ==
  /\ phase = "serving"
  /\ pc[c] = "idle"
  /\ Goto(c, "handling")
  /\ UNCHANGED <<clients, live, mutex, exchange, process>>

\* Its handler publishes, once at most.  An empty exchange or routing key is refused
\* before any shared state is used: such a call is a stuttering step.
Call(c, e) ==
  /\ pc[c] = "handling"
  /\ exchange' = [exchange EXCEPT ![c] = e]
  /\ Goto(c, "rlock")
  /\ UNCHANGED <<clients, live, mutex, process>>

\* Fault: the first lookup takes no lock.
LookupUnlocked(c) ==
  /\ pc[c] = "rlock"
  /\ Goto(c, "lookup")
  /\ UNCHANGED <<clients, live, mutex, exchange, process>>

RLock(c) ==
  /\ pc[c] = "rlock"
  /\ mu!RLock(c)
  /\ Goto(c, "lookup")
  /\ UNCHANGED <<clients, live, exchange, process>>

Lookup(c) ==
  /\ pc[c] = "lookup"
  /\ mu!RUnlock(c)
  /\ Goto(c, IF exchange[c] \in clients THEN "send" ELSE "lock")
  /\ UNCHANGED <<clients, live, exchange, process>>

Lock(c) ==
  /\ pc[c] = "lock"
  /\ mu!Announce(c)
  /\ Goto(c, "recheck")
  /\ UNCHANGED <<clients, live, exchange, process>>

\* Fault: what the first lookup saw is trusted.
RecheckTrusts(c) ==
  /\ pc[c] = "recheck"
  /\ mu!Drained(c)
  /\ Goto(c, "dial")
  /\ UNCHANGED <<clients, live, exchange, process>>

\* Another caller may have connected while this one waited for the lock.
Recheck(c) ==
  /\ pc[c] = "recheck"
  /\ mu!Drained(c)
  /\ Goto(c, IF exchange[c] \in clients THEN "unlock" ELSE "dial")
  /\ UNCHANGED <<clients, live, exchange, process>>

\* buildRabbitMQBroker, under the write lock.
DialSucceeds(c) ==
  /\ pc[c] = "dial"
  /\ live' = [live EXCEPT ![exchange[c]] = @ + 1]
  /\ Goto(c, "insert")
  /\ UNCHANGED <<clients, mutex, exchange, process>>

\* Fault: the error path returns with the lock held.
DialFailsLocked(c) ==
  /\ pc[c] = "dial"
  /\ Goto(c, "returned")
  /\ UNCHANGED <<clients, live, mutex, exchange, process>>

\* The deferred Unlock runs on the error path too; the call returns the error.
DialFails(c) ==
  /\ pc[c] = "dial"
  /\ mu!Unlock(c)
  /\ Goto(c, "returned")
  /\ UNCHANGED <<clients, live, exchange, process>>

Insert(c) ==
  /\ pc[c] = "insert"
  /\ clients' = clients \cup {exchange[c]}
  /\ Goto(c, "unlock")
  /\ UNCHANGED <<live, mutex, exchange, process>>

Unlock(c) ==
  /\ pc[c] = "unlock"
  /\ mu!Unlock(c)
  /\ Goto(c, "send")
  /\ UNCHANGED <<clients, live, exchange, process>>

\* c.Publish of the broker: the message is sent or the call fails; no state of
\* the publisher changes either way.
Send(c) ==
  /\ pc[c] = "send"
  /\ Goto(c, "returned")
  /\ UNCHANGED <<clients, live, mutex, exchange, process>>

\* The handler is done; it may have failed before it came to publishing.
Answer(c) ==
  /\ pc[c] \in {"handling", "returned"}
  /\ Goto(c, "idle")
  /\ UNCHANGED <<clients, live, mutex, exchange, process>>

-----------------------------------------------------------------------------
(* Shutdown: app.Run returns, then main runs wireApp's cleanup.             *)

\* The stop signal: the servers accept no new request.
Stop ==
  /\ phase = "serving"
  /\ phase' = "stopping"
  /\ UNCHANGED <<clients, live, mutex, request, toClose>>

InFlight == {c \in Callers : pc[c] # "idle"}

\* Fault: App.Run gives up on requests that take too long (a stop timeout).
StopTimesOut ==
  /\ phase = "stopping"
  /\ phase' = "cleanup"
  /\ toClose' = clients
  /\ UNCHANGED <<clients, live, mutex, request>>

\* The servers' Stop waits for the requests in flight.
BeginCleanup ==
  /\ phase = "stopping"
  /\ InFlight = {}
  /\ phase' = "cleanup"
  /\ toClose' = clients
  /\ UNCHANGED <<clients, live, mutex, request>>

\* Fault: an entry the loop has visited is visited again.
DisconnectAgain(e) ==
  /\ phase = "cleanup"
  /\ e \in toClose
  /\ live' = [live EXCEPT ![e] = @ - 1]
  /\ UNCHANGED <<clients, toClose, mutex, request, phase>>

\* for exchange, c := range clients { c.Disconnect() }: the entry stays.
Disconnect(e) ==
  /\ phase = "cleanup"
  /\ e \in toClose
  /\ live' = [live EXCEPT ![e] = @ - 1]
  /\ toClose' = toClose \ {e}
  /\ UNCHANGED <<clients, mutex, request, phase>>

EndCleanup ==
  /\ phase = "cleanup"
  /\ toClose = {}
  /\ phase' = "closed"
  /\ UNCHANGED <<clients, live, mutex, request, toClose>>

\* The process is gone; nothing happens any more.
Exited == phase = "closed" /\ UNCHANGED vars

-----------------------------------------------------------------------------
Handle(c) == Answer(c) \/ \E e \in Exchanges : Call(c, e)

Proceed(c) ==
  \/ Lookup(c) \/ Recheck(c) \/ DialSucceeds(c) \/ DialFails(c)
  \/ Insert(c) \/ Unlock(c) \/ Send(c)

Cleanup == BeginCleanup \/ EndCleanup \/ \E e \in Exchanges : Disconnect(e)

Next ==
  \/ \E c \in Callers :
       Arrive(c) \/ Handle(c) \/ RLock(c) \/ Lock(c) \/ Proceed(c)
  \/ Stop \/ Cleanup \/ Exited

\* Callers run, dials and sends return (the AMQP client bounds both), waiting
\* callers get the lock in the end, and a handler does not run for ever.  Nobody has
\* to make a request or to stop the process.
Fairness ==
  /\ \A c \in Callers :
       /\ WF_vars(Handle(c) \/ Proceed(c))
       /\ SF_vars(RLock(c)) /\ SF_vars(Lock(c))
  /\ WF_vars(Cleanup)

Spec == Init /\ [][Next]_vars
FairSpec == Spec /\ Fairness

-----------------------------------------------------------------------------
(* What the publisher promises.                                             *)

\* Callers that miss the exchange at the same time do not each open a connection:
\* the loser of the race would overwrite the winner's entry and leak it.
OneConnectionPerExchange == \A e \in Exchanges : live[e] <= 1

\* When the process is done with the publisher every connection it opened, at
\* whatever moment, is closed: none was opened after the loop passed its exchange
\* or left out of the map.
NothingLeftOpen == phase = "closed" => \A e \in Exchanges : live[e] = 0

\* A message goes out on an open connection, never on one cleanup has closed.
SendsOnOpenConnection ==
  \A c \in Callers : pc[c] = "send" => live[exchange[c]] > 0

\* No caller writes the map while another caller or the cleanup loop, which takes
\* no lock, accesses it: the runtime aborts the process on such a race.
ClientsMapNotRaced ==
  \A c \in Callers : pc[c] = "insert" =>
    /\ phase # "cleanup"
    /\ \A b \in Callers \ {c} : pc[b] \notin {"lookup", "recheck", "insert"}

\* Every call returns, also when dials fail: no path keeps the lock.
EveryPublishReturns == \A c \in Callers : pc[c] = "rlock" ~> pc[c] = "returned"

\* A process told to stop gets through its requests and its cleanup.
ShutdownCompletes == phase = "stopping" ~> phase = "closed"

Connections == INSTANCE SharedConnections WITH
  Users <- Callers,
  inside <- InFlight,
  holds <- [c \in Callers |-> IF pc[c] = "send" THEN {exchange[c]} ELSE {}]

\* To its callers and to the process the publisher is one connection per exchange:
\* whoever is given it finds it open, and it closes after the last of them, once,
\* however they race for the map and whenever the stop signal comes.
ImplementsSharedConnections == Connections!Spec

-----------------------------------------------------------------------------
(* The inductive invariant behind the safety promises.                      *)

LockInv ==
  /\ \A c \in Callers : c \in readers <=> pc[c] = "lookup"
  /\ \A c \in Callers : writer = c <=> pc[c] \in {"recheck", "dial", "insert", "unlock"}
  /\ \A c \in Callers : pc[c] \in {"dial", "insert", "unlock"} => readers = {}

\* A connection is open for every entry, and for one the lock's holder has
\* dialled and not inserted yet.
Inserting(e) == \E c \in Callers : pc[c] = "insert" /\ exchange[c] = e

ServingInv ==
  phase \in {"serving", "stopping"} =>
    /\ \A e \in Exchanges : live[e] = IF e \in clients \/ Inserting(e) THEN 1 ELSE 0
    /\ \A c \in Callers : pc[c] \in {"dial", "insert"} => exchange[c] \notin clients
    /\ \A c \in Callers : pc[c] \in {"unlock", "send"} => exchange[c] \in clients

\* Once the cleanup loop runs, what is open is what it has still to visit.
CleanupInv ==
  phase \in {"cleanup", "closed"} =>
    /\ \A c \in Callers : pc[c] = "idle"
    /\ \A e \in Exchanges : live[e] = IF e \in toClose THEN 1 ELSE 0
    /\ phase = "closed" => toClose = {}

IInv == TypeOK /\ LockInv /\ ServingInv /\ CleanupInv

=============================================================================
