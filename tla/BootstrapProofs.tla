--------------------------- MODULE BootstrapProofs ---------------------------
(***************************************************************************)
(* The server process owns its resources correctly, for every              *)
(* configuration and any number of requests in flight: it implements       *)
(* ScopedResources, leaks nothing and serves requests only when complete.  *)
(***************************************************************************)
EXTENDS Bootstrap, TLAPS

USE DEF Phases, LastProvider

\* The providers have distinct positions from 1 to LastProvider.
LEMMA OrderIsInjective ==
  /\ Order \in [Providers -> 1 .. LastProvider]
  /\ \A p, q \in Providers : Order[p] = Order[q] => p = q
  BY DEF Order, Providers

LEMMA EnabledUpToAll == EnabledUpTo(LastProvider) = Enabled
  BY OrderIsInjective DEF EnabledUpTo, Enabled

LEMMA EnabledUpToNone == EnabledUpTo(0) = {}
  BY OrderIsInjective DEF EnabledUpTo, Enabled

\* Taking the provider at position n, enabled or not, from the first n.
LEMMA EnabledUpToPred ==
  ASSUME NEW p \in Providers
  PROVE  EnabledUpTo(Order[p]) \ {p} = EnabledUpTo(Order[p] - 1)
  BY OrderIsInjective DEF EnabledUpTo, Enabled

LEMMA EnabledUpToAdd ==
  ASSUME NEW p \in Providers
  PROVE  EnabledUpTo(Order[p]) =
           IF config[p] = "enabled" THEN EnabledUpTo(Order[p] - 1) \cup {p}
                                    ELSE EnabledUpTo(Order[p] - 1)
  BY OrderIsInjective DEF EnabledUpTo, Enabled

-----------------------------------------------------------------------------
LEMMA InitEstablishesIInv == Init => IInv
<1> SUFFICES ASSUME Init PROVE IInv
  OBVIOUS
<1>1. TypeOK
  <2>1. config \in [Providers -> {"disabled", "invalid", "enabled"}]
    BY DEF Init
  <2>2. /\ phase = "loading" /\ current = 1 /\ toClean = 0
        /\ open = {} /\ servers = {} /\ inFlight = {} /\ failed = FALSE
    BY DEF Init
  <2>3. /\ failed \in BOOLEAN /\ open \subseteq Providers
        /\ servers \subseteq Servers /\ inFlight \subseteq Requests
    BY <2>2
  <2>4. current \in 1 .. LastProvider + 1 /\ toClean \in 0 .. LastProvider
    BY <2>2
  <2>5. phase \in Phases
    BY <2>2
  <2> QED
    BY <2>1, <2>3, <2>4, <2>5 DEF TypeOK
<1>2. OpenInv /\ ServerInv /\ FlightInv
  BY DEF Init, OpenInv, ServerInv, FlightInv
<1> QED
  BY <1>1, <1>2 DEF IInv

\* What is enabled does not change: a frame for the invariant's sets.
LEMMA EnabledFrame ==
  ASSUME UNCHANGED config
  PROVE  Enabled' = Enabled /\ \A n \in Nat : EnabledUpTo(n)' = EnabledUpTo(n)
  BY DEF Enabled, EnabledUpTo

\* What newApp is given: servers, and a consumer only beside a publisher.
LEMMA BuildableServers ==
  ASSUME NEW s \in Buildable
  PROVE  s \subseteq Servers /\ ("rabbitmq" \in s => config["publisher"] = "enabled")
<1>1. PICK g \in NewGRPCServer, h \in NewHTTPServer, w \in NewWebsocketServer,
           m \in NewMQTTServer, r \in NewRabbitMQServer :
        s = g \cup h \cup w \cup m \cup r
  BY DEF Buildable
<1>2. g \cup h \cup w \cup m \subseteq {"grpc", "http", "websocket", "mqtt"}
  BY <1>1 DEF NewGRPCServer, NewHTTPServer, NewWebsocketServer, NewMQTTServer
<1>3. r \subseteq {"rabbitmq"} /\ ("rabbitmq" \in r => config["publisher"] = "enabled")
  BY <1>1 DEF NewRabbitMQServer
<1> QED
  BY <1>1, <1>2, <1>3 DEF Servers

LEMMA ConstructKeepsIInv ==
  ASSUME IInv, Construct
  PROVE  IInv'
<1> USE DEF IInv
<1>1. UNCHANGED config /\ UNCHANGED inFlight /\ inFlight = {}
  BY DEF Construct, LoadBootstrap, LoadFails, PingSucceeds, Run, SkipDisabled,
         RefuseConfig, OpenFails, Open, PingFails, Calls, FlightInv
<1>2. Enabled' = Enabled /\ \A n \in Nat : EnabledUpTo(n)' = EnabledUpTo(n)
  BY <1>1, EnabledFrame
<1>3. ServerInv' /\ FlightInv'
  <2>1. CASE Run
    BY <1>1, <1>2, <2>1, BuildableServers DEF Run, ServerInv, FlightInv, Enabled, Providers
  <2>2. CASE ~Run
    <3>1. servers = {}
      BY <2>2 DEF Construct, LoadBootstrap, LoadFails, PingSucceeds, SkipDisabled,
             RefuseConfig, OpenFails, Open, PingFails, Calls, ServerInv
    <3>2. UNCHANGED servers
      BY <2>2 DEF Construct, LoadBootstrap, LoadFails, PingSucceeds, SkipDisabled,
             RefuseConfig, OpenFails, Open, PingFails
    <3> QED
      BY <1>1, <3>1, <3>2 DEF ServerInv, FlightInv
  <2> QED
    BY <2>1, <2>2
<1>4. TypeOK' /\ OpenInv'
  <2>1. CASE LoadFails
    BY <2>1 DEF LoadFails, TypeOK, OpenInv
  <2>2. CASE LoadBootstrap
    BY <1>2, <2>2, EnabledUpToNone DEF LoadBootstrap, TypeOK, OpenInv
  <2>3. ASSUME NEW p \in Providers, SkipDisabled(p)
        PROVE  TypeOK' /\ OpenInv'
    <3> USE <2>3 DEF SkipDisabled, Calls, Provided
    <3>1. TypeOK'
      BY OrderIsInjective DEF TypeOK
    <3>2. EnabledUpTo(current) = EnabledUpTo(current - 1)
      BY EnabledUpToAdd
    <3>3. open' = EnabledUpTo(current)
      BY <3>2 DEF OpenInv
    <3>4. current \in Nat /\ current' - 1 = current
      BY DEF TypeOK
    <3> QED
      BY <1>2, <3>1, <3>3, <3>4 DEF OpenInv
  <2>4. ASSUME NEW p \in Providers, RefuseConfig(p) \/ OpenFails(p)
        PROVE  TypeOK' /\ OpenInv'
    <3> USE <2>4 DEF RefuseConfig, OpenFails, Calls, Refused
    <3>1. /\ current \in 1 .. LastProvider /\ current - 1 \in 0 .. LastProvider
          /\ phase' = "cleaning" /\ toClean' = current - 1
          /\ open' = open /\ open = EnabledUpTo(current - 1)
      BY OrderIsInjective DEF OpenInv
    <3>2. TypeOK'
      BY <1>1, <3>1 DEF TypeOK
    <3> QED
      BY <1>2, <3>1, <3>2 DEF OpenInv
  <2>5. ASSUME NEW p \in Providers, Open(p)
        PROVE  TypeOK' /\ OpenInv'
    <3> USE <2>5 DEF Open, Calls, Provided
    <3>1. TypeOK'
      BY OrderIsInjective DEF TypeOK
    <3>2. open' = EnabledUpTo(current) /\ current \in Nat /\ current <= LastProvider
      BY EnabledUpToAdd, OrderIsInjective DEF OpenInv
    <3>3. CASE p \in Pinging
      BY <1>2, <3>1, <3>2, <3>3 DEF OpenInv
    <3>4. CASE p \notin Pinging
      <4>1. current' - 1 = current /\ phase' = "calling"
        BY <3>2, <3>4
      <4> QED
        BY <1>2, <3>1, <3>2, <4>1 DEF OpenInv
    <3> QED
      BY <3>3, <3>4
  <2>6. CASE PingSucceeds
    <3> USE <2>6 DEF PingSucceeds, Provided
    <3>1. TypeOK' /\ current \in Nat /\ current' - 1 = current
      BY DEF TypeOK, OpenInv
    <3> QED
      BY <1>2, <3>1 DEF OpenInv
  <2>7. ASSUME NEW p \in Providers, PingFails(p)
        PROVE  TypeOK' /\ OpenInv'
    <3> USE <2>7 DEF PingFails, Refused
    <3>1. TypeOK' /\ toClean' = current - 1 /\ current - 1 \in Nat
      BY OrderIsInjective DEF TypeOK
    <3>2. open' = EnabledUpTo(current - 1)
      BY EnabledUpToPred DEF OpenInv
    <3> QED
      BY <1>2, <3>1, <3>2 DEF OpenInv
  <2>8. CASE Run
    <3>1. TypeOK' /\ current - 1 = LastProvider
      BY <2>8, BuildableServers DEF Run, TypeOK
    <3> QED
      BY <1>2, <2>8, <3>1, EnabledUpToAll DEF Run, OpenInv
  <2> QED
    BY <2>1, <2>2, <2>3, <2>4, <2>5, <2>6, <2>7, <2>8 DEF Construct
<1> QED
  BY <1>3, <1>4

LEMMA ServingKeepsIInv ==
  ASSUME IInv, Serve \/ \E r \in Requests : Finish(r)
  PROVE  IInv'
<1> USE DEF IInv, Serve, Signal, ServerFails, Arrive, Finish
<1>1. Enabled' = Enabled /\ \A n \in Nat : EnabledUpTo(n)' = EnabledUpTo(n)
  BY EnabledFrame
<1>2. TypeOK'
  BY DEF TypeOK
<1>3. ServerInv' /\ FlightInv'
  BY <1>1 DEF ServerInv, FlightInv
<1>4. current - 1 \in Int /\ phase \in {"running", "stopping"}
  BY DEF TypeOK, FlightInv
<1>5. OpenInv'
  BY <1>1, <1>4 DEF OpenInv
<1> QED
  BY <1>2, <1>3, <1>5

LEMMA TeardownKeepsIInv ==
  ASSUME IInv, Teardown
  PROVE  IInv'
<1> USE DEF IInv
<1>0. UNCHANGED config
  BY DEF Teardown, Stopped, Exit, Close
<1>1. Enabled' = Enabled /\ \A n \in Nat : EnabledUpTo(n)' = EnabledUpTo(n)
  BY <1>0, EnabledFrame
<1>2. CASE Stopped
  BY <1>1, <1>2, EnabledUpToAll DEF Stopped, TypeOK, OpenInv, ServerInv, FlightInv
<1>3. ASSUME NEW p \in Providers, Close(p) PROVE IInv'
  <2> USE <1>3 DEF Close
  <2>1. TypeOK' /\ ServerInv' /\ FlightInv' /\ toClean - 1 \in Nat
    BY OrderIsInjective DEF TypeOK, ServerInv, FlightInv
  <2>2. open' = EnabledUpTo(toClean - 1)
    BY EnabledUpToPred DEF OpenInv
  <2> QED
    BY <1>1, <2>1, <2>2 DEF OpenInv
<1>4. CASE Exit
  BY <1>4, EnabledUpToNone DEF Exit, TypeOK, OpenInv, ServerInv, FlightInv
<1> QED
  BY <1>2, <1>3, <1>4 DEF Teardown

THEOREM IInvAlways == Spec => []IInv
<1>1. ASSUME IInv, [Next]_vars
      PROVE  IInv'
  <2>1. CASE UNCHANGED vars
    BY <1>1, <2>1 DEF vars, IInv, TypeOK, OpenInv, ServerInv, FlightInv,
                          EnabledUpTo, Enabled
  <2> QED
    BY <1>1, <2>1, ConstructKeepsIInv, ServingKeepsIInv, TeardownKeepsIInv
       DEF Next, Exited
<1> QED
  BY <1>1, InitEstablishesIInv, PTL DEF Spec

-----------------------------------------------------------------------------
\* Every variable keeps its type.
THEOREM TypesAreRight == Spec => []TypeOK
<1>1. IInv => TypeOK
  BY DEF IInv
<1> QED
  BY <1>1, IInvAlways, PTL

\* Every way out of main has closed all that was opened (wire_gen.go:30-111).
THEOREM NothingLeaksAlways == Spec => []NothingLeaks
<1>1. IInv => NothingLeaks
  BY DEF IInv, OpenInv, NothingLeaks
<1> QED
  BY <1>1, IInvAlways, PTL

\* Requests run on the complete process only (main.go:112-121).
THEOREM RequestsSeeAllResourcesAlways == Spec => []RequestsSeeAllResources
<1>1. IInv => RequestsSeeAllResources
  BY DEF IInv, OpenInv, FlightInv, RequestsSeeAllResources
<1> QED
  BY <1>1, IInvAlways, PTL

\* Servers run on the complete process only, and the consumer beside a publisher
\* (main.go:42-80, server/rabbitmq.go:24-67).
THEOREM ServersHaveResourcesAlways == Spec => []ServersHaveResources
<1>1. IInv => ServersHaveResources
  BY DEF IInv, OpenInv, ServerInv, ServersHaveResources
<1> QED
  BY <1>1, IInvAlways, PTL

-----------------------------------------------------------------------------
(* Refinement.  Each lemma maps the steps of one part of the process to      *)
(* steps of ScopedResources, or to stuttering.                               *)

LEMMA ConstructRefines ==
  ASSUME IInv, Construct
  PROVE  [Scoped!Next]_(Scoped!vars)
<1> USE DEF IInv, Scoped!vars
<1>0. UNCHANGED <<Enabled, inFlight # {}>> /\ inFlight = {}
  BY DEF Construct, LoadBootstrap, LoadFails, PingSucceeds, Run, SkipDisabled,
         RefuseConfig, OpenFails, Open, PingFails, Calls, FlightInv, Enabled
<1>1. CASE LoadFails \/ \E p \in Providers : RefuseConfig(p) \/ OpenFails(p)
  BY <1>0, <1>1 DEF LoadFails, RefuseConfig, OpenFails, Refused,
                    Scoped!Next, Scoped!BeginClosing
<1>2. CASE LoadBootstrap \/ PingSucceeds \/ Run \/ \E p \in Providers : SkipDisabled(p)
  BY <1>0, <1>2 DEF LoadBootstrap, PingSucceeds, Run, SkipDisabled, Calls, Provided
<1>3. ASSUME NEW p \in Providers, Open(p)
      PROVE  Scoped!Acquire(p)
  <2> USE <1>3 DEF Open, Calls
  <2>1. p \in Enabled \ open /\ \A q \in open : Order[q] < Order[p]
    BY OrderIsInjective DEF OpenInv, EnabledUpTo, Enabled
  <2>2. phase' \in {"calling", "pinging"}
    BY DEF Provided
  <2> QED
    BY <1>0, <2>1, <2>2 DEF Scoped!Acquire
<1>4. ASSUME NEW p \in Providers, PingFails(p)
      PROVE  Scoped!Release(p) \/ Scoped!BeginClosing
  <2> USE <1>4 DEF PingFails, Refused
  <2>1. \A q \in open \ {p} : Order[q] < Order[p]
    BY OrderIsInjective DEF OpenInv, EnabledUpTo, Enabled
  <2>2. CASE p \in open
    BY <1>0, <2>1, <2>2 DEF Scoped!Release
  <2>3. CASE p \notin open
    BY <1>0, <2>3 DEF Scoped!BeginClosing
  <2> QED
    BY <2>2, <2>3
<1> QED
  BY <1>1, <1>2, <1>3, <1>4 DEF Construct, Scoped!Next

LEMMA ServingRefines ==
  ASSUME IInv, Serve \/ \E r \in Requests : Finish(r)
  PROVE  [Scoped!Next]_(Scoped!vars)
<1> USE DEF IInv, Scoped!vars
<1>1. CASE Signal \/ ServerFails
  BY <1>1 DEF Signal, ServerFails, Enabled
<1>2. ASSUME NEW r \in Requests, Arrive(r)
      PROVE  Scoped!BeginUse
  <2>1. open = Enabled /\ phase = "running" /\ phase' = "running"
    BY <1>2 DEF Arrive, OpenInv
  <2> QED
    BY <1>2, <2>1 DEF Arrive, Enabled, Scoped!BeginUse
<1>3. ASSUME NEW r \in Requests, Finish(r)
      PROVE  Scoped!EndUse \/ UNCHANGED Scoped!vars
  <2>1. inFlight # {} /\ UNCHANGED <<config, open, phase>>
    BY <1>3 DEF Finish
  <2> QED
    BY <2>1 DEF Enabled, Scoped!EndUse
<1> QED
  BY <1>1, <1>2, <1>3 DEF Serve, Scoped!Next

LEMMA TeardownRefines ==
  ASSUME IInv, Teardown
  PROVE  [Scoped!Next]_(Scoped!vars)
<1> USE DEF IInv, Scoped!vars
<1>1. CASE Stopped
  BY <1>1 DEF Stopped, Enabled, Scoped!Next, Scoped!BeginClosing
<1>2. CASE Exit
  BY <1>2 DEF Exit, Enabled
<1>3. ASSUME NEW p \in Providers, Close(p)
      PROVE  Scoped!Release(p) \/ UNCHANGED Scoped!vars
  <2> USE <1>3 DEF Close
  <2>1. inFlight = {} /\ UNCHANGED <<config, inFlight, phase>>
    BY DEF FlightInv
  <2>2. \A q \in open \ {p} : Order[q] < Order[p]
    BY OrderIsInjective DEF OpenInv, EnabledUpTo, Enabled
  <2>3. CASE p \in open
    BY <2>1, <2>2, <2>3 DEF Enabled, Scoped!Release
  <2>4. CASE p \notin open
    BY <2>1, <2>4 DEF Enabled
  <2> QED
    BY <2>3, <2>4
<1> QED
  BY <1>1, <1>2, <1>3 DEF Teardown, Scoped!Next

\* Every behaviour of the process is one of ScopedResources: on every path, error
\* paths included, resources are closed in exactly the reverse of the order they
\* were opened in (wire_gen.go's unrolled cleanups, main's deferred ones).
THEOREM ProcessImplementsScopedResources == Spec => ImplementsScopedResources
<1>1. Init => Scoped!Init
  BY DEF Init, Enabled, Scoped!Init
<1>2. ASSUME IInv, [Next]_vars
      PROVE  [Scoped!Next]_(Scoped!vars)
  <2>1. CASE UNCHANGED vars
    BY <2>1 DEF vars, Enabled, Scoped!vars
  <2> QED
    BY <1>2, <2>1, ConstructRefines, ServingRefines, TeardownRefines DEF Next, Exited
<1> QED
  BY <1>1, <1>2, IInvAlways, PTL DEF Spec, ImplementsScopedResources, Scoped!Spec

=============================================================================
