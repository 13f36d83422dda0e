----------------------------- MODULE Bootstrap -----------------------------
(***************************************************************************)
(* The life of the server process: main (src/cmd/server/main.go), wireApp  *)
(* (src/cmd/server/wire_gen.go) and the providers it calls.                *)
(*                                                                         *)
(* The providers run in a fixed order.  Each one is disabled (it returns   *)
(* nil and a cleanup that does nothing), refuses its configuration, fails  *)
(* to open its resource, or opens it; the databases are pinged before the  *)
(* provider returns and closed by it when the ping fails.  An error runs   *)
(* the cleanups of the providers before it, last first, and main panics;   *)
(* otherwise the application serves until a signal or a server's failure,  *)
(* the servers wait for their requests, and all cleanups run, last first.  *)
(* The transport servers are built on the providers, with nil for one that *)
(* its settings leave out, and hold nothing before Run starts them.        *)
(* The calls are unrolled in wireApp and deferred in main; `toClean' is    *)
(* the provider whose cleanup is the next to run.                          *)
(*                                                                         *)
(* NewGreeterEventPublisher, which holds nothing, cannot fail and has an   *)
(* empty cleanup, is left out.  A killed process is left out too: the      *)
(* operating system closes what it held and nothing is persisted.          *)
(***************************************************************************)
EXTENDS Integers

CONSTANT Requests    \* requests the servers may be handling at the same time

\* The providers in the order they are called, and back.
Order ==
  [tracing |-> 1, metrics |-> 2, registrar |-> 3, greeterClient |-> 4,
   publisher |-> 5, postgres |-> 6, redis |-> 7, mongodb |-> 8]

Providers ==
  {"tracing", "metrics", "registrar", "greeterClient", "publisher",
   "postgres", "redis", "mongodb"}

LastProvider == 8

\* The providers that ping what they opened before they return it.
Pinging == {"postgres", "redis", "mongodb"}

\* metricsx.Init has no switch; the others have `enabled'.
Modes(p) == IF p = "metrics" THEN {"enabled"} ELSE {"disabled", "invalid", "enabled"}

VARIABLES
  config,     \* conf.Bootstrap: each provider's mode
  phase,      \* where main is
  current,    \* position of the provider being called
  toClean,    \* position of the provider whose cleanup runs next
  open,       \* the providers whose resource is open
  servers,    \* the transport servers kratos.App runs
  inFlight,   \* requests, or messages, being handled
  failed      \* main leaves by a panic

vars == <<config, phase, current, toClean, open, servers, inFlight, failed>>

Servers == {"grpc", "http", "websocket", "mqtt", "rabbitmq"}

Phases ==
  {"loading", "calling", "pinging", "running", "stopping", "cleaning", "exited"}

TypeOK ==
  /\ config \in [Providers -> {"disabled", "invalid", "enabled"}]
  /\ phase \in Phases
  /\ current \in 1 .. LastProvider + 1
  /\ toClean \in 0 .. LastProvider
  /\ open \subseteq Providers
  /\ servers \subseteq Servers
  /\ inFlight \subseteq Requests
  /\ failed \in BOOLEAN

Init ==
  /\ config \in [Providers -> {"disabled", "invalid", "enabled"}]
  /\ \A p \in Providers : config[p] \in Modes(p)
  /\ phase = "loading"
  /\ current = 1
  /\ toClean = 0
  /\ open = {}
  /\ servers = {}
  /\ inFlight = {}
  /\ failed = FALSE

-----------------------------------------------------------------------------
(* Startup.                                                                 *)

\* loadBootstrap: an unreadable or malformed file is fatal before anything opens.
LoadFails ==
  /\ phase = "loading"
  /\ phase' = "exited"
  /\ failed' = TRUE
  /\ UNCHANGED <<config, current, toClean, open, servers, inFlight>>

LoadBootstrap ==
  /\ phase = "loading"
  /\ phase' = "calling"
  /\ UNCHANGED <<config, current, toClean, open, servers, inFlight, failed>>

Calls(p) == phase = "calling" /\ Order[p] = current

\* The provider returned without error: the next one is called.
Provided ==
  /\ phase' = "calling"
  /\ current' = current + 1
  /\ UNCHANGED <<toClean, failed>>

\* Fault: wireApp's error path forgets the provider just before.
RefusedForgetsOne ==
  /\ phase' = "cleaning"
  /\ toClean' = current - 2
  /\ failed' = TRUE
  /\ UNCHANGED current

\* The provider returned an error: the cleanups of those before it run.
Refused ==
  /\ phase' = "cleaning"
  /\ toClean' = current - 1
  /\ failed' = TRUE
  /\ UNCHANGED current

SkipDisabled(p) ==
  /\ Calls(p)
  /\ config[p] = "disabled"
  /\ Provided
  /\ UNCHANGED <<config, open, servers, inFlight>>

\* A missing address, target, source, timeout, mode or exporter.
RefuseConfig(p) ==
  /\ Calls(p)
  /\ config[p] = "invalid"
  /\ Refused
  /\ UNCHANGED <<config, open, servers, inFlight>>

\* The publisher dials on first use: opening it cannot fail.  A failure of the ping that
\* gorm.Open makes by itself is among these: no pool has been returned yet.
OpenFails(p) ==
  /\ Calls(p)
  /\ config[p] = "enabled"
  /\ p # "publisher"
  /\ Refused
  /\ UNCHANGED <<config, open, servers, inFlight>>

Open(p) ==
  /\ Calls(p)
  /\ config[p] = "enabled"
  /\ open' = open \cup {p}
  /\ IF p \in Pinging
       THEN phase' = "pinging" /\ UNCHANGED <<current, toClean, failed>>
       ELSE Provided
  /\ UNCHANGED <<config, servers, inFlight>>

PingSucceeds ==
  /\ phase = "pinging"
  /\ Provided
  /\ UNCHANGED <<config, open, servers, inFlight>>

\* Fault: the provider returns the error without closing what it opened.
PingFailsOpen(p) ==
  /\ phase = "pinging"
  /\ Order[p] = current
  /\ Refused
  /\ UNCHANGED <<config, open, servers, inFlight>>

\* The provider closes its own resource: its cleanup was never returned.
PingFails(p) ==
  /\ phase = "pinging"
  /\ Order[p] = current
  /\ open' = open \ {p}
  /\ Refused
  /\ UNCHANGED <<config, servers, inFlight>>

-----------------------------------------------------------------------------
(* Running: kratos.App.Run, outside the repository, is taken to return only *)
(* after every server has stopped, and a server to stop only after its      *)
(* requests (newApp sets no StopTimeout).                                   *)

\* What a constructor may return, as a set of at most one server: nil when its server
\* is disabled and, for the optional ones, silently when its settings are incomplete.
NewGRPCServer == SUBSET {"grpc"}
NewHTTPServer == SUBSET {"http"}
NewWebsocketServer == SUBSET {"websocket"}
NewMQTTServer == SUBSET {"mqtt"}

\* Fault: the consumer has RabbitMQ settings of its own.
NewRabbitMQServerAlone == SUBSET {"rabbitmq"}

\* The consumer has the publisher's settings: disabled ones leave out both, and ones
\* without an address have ended the process before.  It also asks for a queue, and
\* takes a failed subscription for nil.
NewRabbitMQServer == IF config["publisher"] = "enabled" THEN SUBSET {"rabbitmq"} ELSE {{}}

\* newApp passes on the servers that are not nil, if any.
Buildable ==
  {g \cup h \cup w \cup m \cup r :
     g \in NewGRPCServer, h \in NewHTTPServer, w \in NewWebsocketServer,
     m \in NewMQTTServer, r \in NewRabbitMQServer}

Run ==
  /\ phase = "calling"
  /\ current = LastProvider + 1
  /\ phase' = "running"
  /\ servers' \in Buildable
  /\ UNCHANGED <<config, current, toClean, open, inFlight, failed>>

Arrive(r) ==
  /\ phase = "running"
  /\ servers # {}
  /\ inFlight' = inFlight \cup {r}
  /\ UNCHANGED <<config, phase, current, toClean, open, servers, failed>>

\* Fault: a remote call with no timeout, which grpcx.NewGreeterClient refuses.
FinishUnbounded(r) ==
  /\ r \in inFlight
  /\ config["greeterClient"] # "enabled"
  /\ inFlight' = inFlight \ {r}
  /\ UNCHANGED <<config, phase, current, toClean, open, servers, failed>>

Finish(r) ==
  /\ r \in inFlight
  /\ inFlight' = inFlight \ {r}
  /\ UNCHANGED <<config, phase, current, toClean, open, servers, failed>>

\* SIGTERM, SIGINT or SIGQUIT.
Signal ==
  /\ phase = "running"
  /\ phase' = "stopping"
  /\ UNCHANGED <<config, current, toClean, open, servers, inFlight, failed>>

\* One server's Start or serve loop fails, for instance on a port that is taken:
\* the others are stopped, and Run returns the error.
ServerFails ==
  /\ phase = "running"
  /\ servers # {}
  /\ phase' = "stopping"
  /\ failed' = TRUE
  /\ UNCHANGED <<config, current, toClean, open, servers, inFlight>>

\* Fault: Run returns while servers run and requests are in flight.
StoppedEarly ==
  /\ phase = "stopping"
  /\ phase' = "cleaning"
  /\ toClean' = LastProvider
  /\ UNCHANGED <<config, current, open, servers, inFlight, failed>>

Stopped ==
  /\ phase = "stopping"
  /\ inFlight = {}
  /\ phase' = "cleaning"
  /\ toClean' = LastProvider
  /\ servers' = {}
  /\ UNCHANGED <<config, current, open, inFlight, failed>>

-----------------------------------------------------------------------------
(* Cleanup: wireApp's, then main's deferred ones, also while panicking.     *)

\* Fault: the cleanups are called in the order the providers were.
CloseInOrder(p) ==
  /\ phase = "cleaning"
  /\ toClean > 0
  /\ Order[p] = current - toClean
  /\ open' = open \ {p}
  /\ toClean' = toClean - 1
  /\ UNCHANGED <<config, phase, current, servers, inFlight, failed>>

\* The cleanup of a disabled provider does nothing.
Close(p) ==
  /\ phase = "cleaning"
  /\ Order[p] = toClean
  /\ open' = open \ {p}
  /\ toClean' = toClean - 1
  /\ UNCHANGED <<config, phase, current, servers, inFlight, failed>>

Exit ==
  /\ phase = "cleaning"
  /\ toClean = 0
  /\ phase' = "exited"
  /\ UNCHANGED <<config, current, toClean, open, servers, inFlight, failed>>

Exited == phase = "exited" /\ UNCHANGED vars

-----------------------------------------------------------------------------
Construct ==
  \/ LoadBootstrap \/ LoadFails \/ PingSucceeds \/ Run
  \/ \E p \in Providers :
       SkipDisabled(p) \/ RefuseConfig(p) \/ OpenFails(p) \/ Open(p) \/ PingFails(p)

Serve == Signal \/ ServerFails \/ \E r \in Requests : Arrive(r)

Teardown == Stopped \/ Exit \/ \E p \in Providers : Close(p)

Next == Construct \/ Serve \/ Teardown \/ (\E r \in Requests : Finish(r)) \/ Exited

\* Constructors and cleanups return (their pings and shutdowns have timeouts),
\* and so do requests.  No request, signal or failure has to come.
Fairness ==
  /\ WF_vars(Construct)
  /\ WF_vars(Teardown)
  /\ \A r \in Requests : WF_vars(Finish(r))

Spec == Init /\ [][Next]_vars
FairSpec == Spec /\ Fairness

-----------------------------------------------------------------------------
(* What the process promises.                                               *)

Enabled == {p \in Providers : config[p] = "enabled"}

\* However the process ends after loading its configuration (a refused setting, a
\* dependency that does not answer, a server failure, a signal), it has closed all
\* it opened, with disabled providers anywhere in the order.
NothingLeaks == phase = "exited" => open = {}

\* No request runs on a partly built or a partly closed process: all that is
\* configured is open while a request is in flight.
RequestsSeeAllResources == inFlight # {} => open = Enabled

\* No server takes requests or messages before all that is configured is open, or
\* after some of it is closed; a process that consumes events can publish them.
ServersHaveResources ==
  servers # {} => open = Enabled /\ ("rabbitmq" \in servers => "publisher" \in open)

\* A signal, or a failing server, ends in the exit of the process.
StopExits == phase = "stopping" ~> phase = "exited"

Scoped == INSTANCE ScopedResources WITH
  Resources <- Providers,
  Rank <- Order,
  wanted <- Enabled,
  closing <- phase \in {"cleaning", "exited"},
  inUse <- inFlight # {}

\* The process is a correct owner of its resources: opened in dependency order,
\* closed in exactly the opposite one on every path, never used in between.
ImplementsScopedResources == Scoped!Spec

-----------------------------------------------------------------------------
(* The inductive invariant: in every phase, which prefix of the enabled     *)
(* providers is open.                                                       *)

EnabledUpTo(n) == {p \in Enabled : Order[p] <= n}

OpenInv ==
  /\ phase = "loading" => current = 1 /\ open = {}
  /\ phase = "calling" => open = EnabledUpTo(current - 1)
  /\ phase = "pinging" => current <= LastProvider /\ open = EnabledUpTo(current)
  /\ phase \in {"running", "stopping"} => open = Enabled
  /\ phase = "cleaning" => open = EnabledUpTo(toClean)
  /\ phase = "exited" => open = {}

ServerInv ==
  /\ servers # {} => phase \in {"running", "stopping"}
  /\ "rabbitmq" \in servers => "publisher" \in Enabled

FlightInv == inFlight # {} => phase \in {"running", "stopping"}

IInv == TypeOK /\ OpenInv /\ ServerInv /\ FlightInv

=============================================================================
