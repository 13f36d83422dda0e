---------------------------- MODULE GreeterProcess ----------------------------
(***************************************************************************)
(* One server process of the chain: the greeter of GreeterFlow on top of   *)
(* the publisher of ExchangePublisher.  GreeterFlow takes publishing for   *)
(* one step; here it is getOrCreateClient with its lock and its dial, and  *)
(* every request of the process needs the same connection.  The process    *)
(* may be told to stop at any moment.                                      *)
(*                                                                         *)
(* A step of a request that is both the greeter's and the publisher's is   *)
(* the conjunction of their actions; every other step is one component's   *)
(* and leaves the other's variables alone.  The other instances of the     *)
(* chain are as GreeterFlow has them.  RabbitMQ is enabled here (with the  *)
(* no-op publisher the process is GreeterFlow alone).                      *)
(***************************************************************************)
EXTENDS Naturals

CONSTANTS
  Calls,          \* calls a client makes to the first instance
  NoCall,         \* not a call: nobody holds the publisher's lock
  Hops,           \* length of the chain
  Here            \* the instance this process is

ASSUME ProcessAssumption ==
  /\ NoCall \notin Calls
  /\ Hops \in Nat \ {0}
  /\ Here \in 1 .. Hops

VARIABLES
  blank, at, answer, events,                                   \* the greeter
  clients, live, readers, writer, pc, exchange, phase, toClose \* the publisher

greeter == <<blank, at, answer, events>>
publisher == <<clients, live, readers, writer, pc, exchange, phase, toClose>>
vars == <<greeter, publisher>>

greeterCreatedExchange == "server.greeter.exchange"

Flow == INSTANCE GreeterFlow WITH pc <- at, RemoteFaults <- TRUE

Publisher == INSTANCE ExchangePublisher WITH
  Callers <- Calls, NoCaller <- NoCall, Exchanges <- {greeterCreatedExchange}

TypeOK == Flow!TypeOK /\ Publisher!TypeOK

\* NewGreeterEventPublisher, over a publisher that has no connection yet.
Init == Flow!Init /\ Publisher!Init

-----------------------------------------------------------------------------
(* A request of this process.                                               *)

Enters(c) == at[c][Here] = "absent" /\ at'[c][Here] # "absent"

\* Whoever calls this instance: a client, or the instance before it.
Sent(c) == Flow!Arrive(c) \/ \E n \in Flow!Instances : Flow!CallRemote(c, n)

\* Fault: a server that was told to stop goes on accepting.
DeliverAnyway(c) ==
  /\ Sent(c) /\ Enters(c)
  /\ pc[c] = "idle" /\ pc' = [pc EXCEPT ![c] = "handling"]
  /\ UNCHANGED <<clients, live, readers, writer, exchange, phase, toClose>>

\* The transport hands the request to SayHello.
Deliver(c) == Sent(c) /\ Enters(c) /\ Publisher!Arrive(c)

\* CreateGreeter up to the publish.
Handle(c) ==
  /\ at[c][Here] # "publish"
  /\ Flow!Step(c, Here) \/ Flow!RemoteRefused(c, Here)
  /\ UNCHANGED publisher

\* PublishGreeterCreated.
BeginPublish(c) ==
  /\ at[c][Here] = "publish"
  /\ Publisher!Call(c, greeterCreatedExchange)
  /\ UNCHANGED greeter

Connect(c) ==
  /\ \/ Publisher!Lookup(c) \/ Publisher!Recheck(c) \/ Publisher!DialSucceeds(c)
     \/ Publisher!Insert(c) \/ Publisher!Unlock(c)
  /\ UNCHANGED greeter

RLock(c) == Publisher!RLock(c) /\ UNCHANGED greeter
Lock(c) == Publisher!Lock(c) /\ UNCHANGED greeter

\* Fault: a handler that cannot publish ends without an answer.
DialFailsUnanswered(c) == Publisher!DialFails(c) /\ UNCHANGED greeter

\* The publisher's error, which CreateGreeter only logs.
DialFails(c) == Publisher!DialFails(c) /\ Flow!Publish(c, Here, FALSE)

\* The broker takes the event, or the call fails.
Send(c) == Publisher!Send(c) /\ \E sent \in BOOLEAN : Flow!Publish(c, Here, sent)

\* Fault: the event is left to a goroutine of its own.
FinishEarly(c) ==
  /\ at[c][Here] \in {"publish", "answered"}
  /\ Publisher!Answer(c)
  /\ UNCHANGED greeter

\* SayHello has returned: the transport writes the reply.
Finish(c) ==
  /\ at[c][Here] = "answered"
  /\ Publisher!Answer(c)
  /\ UNCHANGED greeter

-----------------------------------------------------------------------------
(* The rest of the chain, and the end of the process.                       *)

\* The client and the other instances, short of a call to this one.
At(c, n) ==
  /\ Flow!Step(c, n) \/ Flow!RemoteRefused(c, n)
  /\ ~Enters(c)
  /\ UNCHANGED publisher

Elsewhere(c) ==
  \/ Flow!Arrive(c) /\ ~Enters(c) /\ UNCHANGED publisher
  \/ \E n \in Flow!Instances \ {Here} : At(c, n)

Stop == Publisher!Stop /\ UNCHANGED greeter

Cleanup == Publisher!Cleanup /\ UNCHANGED greeter

\* The process is gone and the clients have their answers.
Over == phase = "closed" /\ UNCHANGED vars

Work(c) ==
  Handle(c) \/ BeginPublish(c) \/ Connect(c) \/ DialFails(c) \/ Send(c) \/ Finish(c)

Next ==
  \/ \E c \in Calls : Deliver(c) \/ Work(c) \/ RLock(c) \/ Lock(c) \/ Elsewhere(c)
  \/ Stop \/ Cleanup \/ Over

\* As in the components: this process runs, its dials, sends and remote calls return,
\* and so do those of the first instance, which finds this one closed if it is.
Fairness ==
  /\ \A c \in Calls : WF_vars(Work(c)) /\ SF_vars(RLock(c)) /\ SF_vars(Lock(c))
  /\ \A c \in Calls : Here # 1 => WF_vars(At(c, 1))
  /\ WF_vars(Cleanup)

Spec == Init /\ [][Next]_vars
FairSpec == Spec /\ Fairness

-----------------------------------------------------------------------------
(* What the process promises.                                               *)

\* The publisher keeps its promises under this greeter, which waits for other
\* instances before it publishes: shutdown still completes.
ImplementsPublisher == Publisher!FairSpec

\* The cleanup begins when every call this process has accepted is answered, also
\* those that first published after the stop signal.
CleanupLeavesNoCallBehind ==
  phase \in {"cleanup", "closed"} =>
    \A c \in Calls : at[c][Here] \in {"absent", "answered"}

\* Every call this process has accepted is answered, whatever the broker, the other
\* callers of the publisher and the rest of the chain do.
AcceptedCallsAreAnswered ==
  \A c \in Calls : at[c][Here] = "normalize" ~> at[c][Here] = "answered"

-----------------------------------------------------------------------------
(* The inductive invariant behind CleanupLeavesNoCallBehind.                *)

StepsOK ==
  /\ at \in [Calls -> [Flow!Instances -> Flow!Steps]]
  /\ pc \in [Calls -> Publisher!Steps]

\* A call is nowhere further down the chain than its saves have taken it.
DownTheChain ==
  \A c \in Calls, m, n \in Flow!Instances :
    at[c][n] \in {"absent", "normalize", "save"} /\ m > n => at[c][m] = "absent"

\* The transport has a handler for every call the greeter is busy with.
HandlerPerCall ==
  \A c \in Calls : pc[c] = "idle" => at[c][Here] \in {"absent", "answered"}

DrainedFirst == phase \in {"cleanup", "closed"} => \A c \in Calls : pc[c] = "idle"

IInv == StepsOK /\ DownTheChain /\ HandlerPerCall /\ DrainedFirst

=============================================================================
