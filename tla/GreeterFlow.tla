----------------------------- MODULE GreeterFlow -----------------------------
(***************************************************************************)
(* GreeterUsecase.CreateGreeter (src/internal/biz/greeter.go) over its two *)
(* outgoing adapters, in a chain of instances of the server: an instance   *)
(* whose remote gRPC client is enabled saves by calling SayHello on the    *)
(* next one, the last saves locally.  Every instance then publishes an     *)
(* event of its own, best effort, before it answers.                       *)
(*                                                                         *)
(* A remote call has a timeout (grpcx.NewGreeterClient refuses none).  The *)
(* caller gives up when it expires; the callee goes on, because neither    *)
(* the local save nor the wait for a broker connection looks at the        *)
(* context.  Replies may be lost, and the circuit breaker or a dead        *)
(* connection may refuse the call.                                         *)
(***************************************************************************)
EXTENDS Naturals

CONSTANTS
  Calls,         \* calls a client makes to the first instance
  Hops,          \* length of the chain of instances
  RemoteFaults   \* remote calls may fail while the callee is not publishing

ASSUME FlowAssumption ==
  /\ Hops \in Nat \ {0}
  /\ RemoteFaults \in BOOLEAN

Instances == 1 .. Hops
Remote(n) == n < Hops     \* greeterRepo.grpcClient != nil

VARIABLES
  blank,    \* per call: its name is empty once trimmed
  pc,       \* per call and instance: where CreateGreeter is
  answer,   \* per call and instance: what SayHello returned
  events    \* per call and instance: events the broker accepted

vars == <<blank, pc, answer, events>>

Steps == {"absent", "normalize", "save", "remote", "publish", "answered"}
Answers == {"none", "ok", "error"}

TypeOK ==
  /\ blank \in [Calls -> BOOLEAN]
  /\ pc \in [Calls -> [Instances -> Steps]]
  /\ answer \in [Calls -> [Instances -> Answers]]
  /\ events \in [Calls -> [Instances -> Nat]]

Init ==
  /\ blank \in [Calls -> BOOLEAN]
  /\ pc = [c \in Calls |-> [n \in Instances |-> "absent"]]
  /\ answer = [c \in Calls |-> [n \in Instances |-> "none"]]
  /\ events = [c \in Calls |-> [n \in Instances |-> 0]]

-----------------------------------------------------------------------------
Goto(c, n, step) == pc' = [pc EXCEPT ![c][n] = step]

Return(c, n, result) ==
  /\ pc' = [pc EXCEPT ![c][n] = "answered"]
  /\ answer' = [answer EXCEPT ![c][n] = result]

\* A client calls the first instance.
Arrive(c) ==
  /\ pc[c][1] = "absent"
  /\ Goto(c, 1, "normalize")
  /\ UNCHANGED <<blank, answer, events>>

\* Fault: the trimmed name is not tested.
AcceptAny(c, n) ==
  /\ pc[c][n] = "normalize"
  /\ Goto(c, n, "save")
  /\ UNCHANGED <<blank, answer, events>>

Accept(c, n) ==
  /\ pc[c][n] = "normalize"
  /\ ~blank[c]
  /\ Goto(c, n, "save")
  /\ UNCHANGED <<blank, answer, events>>

\* ErrInvalidName.
RejectBlank(c, n) ==
  /\ pc[c][n] = "normalize"
  /\ blank[c]
  /\ Return(c, n, "error")
  /\ UNCHANGED <<blank, events>>

SaveLocal(c, n) ==
  /\ pc[c][n] = "save"
  /\ ~Remote(n)
  /\ Goto(c, n, "publish")
  /\ UNCHANGED <<blank, answer, events>>

\* The normalized name is sent: the callee finds it as its caller did.
CallRemote(c, n) ==
  /\ pc[c][n] = "save"
  /\ Remote(n)
  /\ pc' = [pc EXCEPT ![c][n] = "remote", ![c][n + 1] = "normalize"]
  /\ UNCHANGED <<blank, answer, events>>

\* The circuit breaker is open, or nothing listens at the target.
RemoteRefused(c, n) ==
  /\ pc[c][n] = "save"
  /\ Remote(n)
  /\ RemoteFaults
  /\ Return(c, n, "error")
  /\ UNCHANGED <<blank, events>>

RemoteReplies(c, n) ==
  /\ pc[c][n] = "remote"
  /\ pc[c][n + 1] = "answered"
  /\ IF answer[c][n + 1] = "ok"
       THEN Goto(c, n, "publish") /\ UNCHANGED answer
       ELSE Return(c, n, "error")
  /\ UNCHANGED <<blank, events>>

\* Fault: a call whose outcome is unknown counts as saved.
GiveUpAsSaved(c, n) ==
  /\ pc[c][n] = "remote"
  /\ Goto(c, n, "publish")
  /\ UNCHANGED <<blank, answer, events>>

\* Fault: a call that has failed is answered with neither a reply nor an error.
GiveUpSilently(c, n) ==
  /\ pc[c][n] = "remote"
  /\ Return(c, n, "nil")
  /\ UNCHANGED <<blank, events>>

\* Fault: a remote call has no deadline, only a lost connection ends it.
GiveUpOnlyWhenAnswered(c, n) ==
  /\ pc[c][n] = "remote"
  /\ pc[c][n + 1] = "answered"
  /\ Return(c, n, "error")
  /\ UNCHANGED <<blank, events>>

\* The deadline passes, or the reply is lost.  Without RemoteFaults the callee
\* is slow only where it waits for its broker.
GiveUp(c, n) ==
  /\ pc[c][n] = "remote"
  /\ RemoteFaults \/ pc[c][n + 1] = "publish"
  /\ Return(c, n, "error")
  /\ UNCHANGED <<blank, events>>

\* Fault: a publish whose outcome is unknown is tried again.
PublishRetried(c, n, sent) ==
  /\ pc[c][n] = "publish"
  /\ events[c][n] < 2
  /\ events' = [events EXCEPT ![c][n] = @ + 1]
  /\ IF sent THEN Return(c, n, "ok") ELSE UNCHANGED <<pc, answer>>
  /\ UNCHANGED blank

\* Fault: the error of the publisher is returned.
PublishOrFail(c, n, sent) ==
  /\ pc[c][n] = "publish"
  /\ events' = IF sent THEN [events EXCEPT ![c][n] = @ + 1] ELSE events
  /\ Return(c, n, IF sent THEN "ok" ELSE "error")
  /\ UNCHANGED blank

\* PublishGreeterCreated, its error only logged.  The no-op publisher of an
\* instance with RabbitMQ disabled never sends.
Publish(c, n, sent) ==
  /\ pc[c][n] = "publish"
  /\ events' = IF sent THEN [events EXCEPT ![c][n] = @ + 1] ELSE events
  /\ Return(c, n, "ok")
  /\ UNCHANGED blank

Step(c, n) ==
  \/ Accept(c, n) \/ RejectBlank(c, n)
  \/ SaveLocal(c, n) \/ CallRemote(c, n)
  \/ RemoteReplies(c, n) \/ GiveUp(c, n)
  \/ \E sent \in BOOLEAN : Publish(c, n, sent)

Done == (\A c \in Calls : pc[c][1] = "answered") /\ UNCHANGED vars

Next ==
  \/ \E c \in Calls : Arrive(c)
  \/ \E c \in Calls, n \in Instances : Step(c, n) \/ RemoteRefused(c, n)
  \/ Done

\* Only the first instance is known to run: the others may hang or die, and its
\* own timer then ends the call.
Fairness == \A c \in Calls : WF_vars(Step(c, 1))

Spec == Init /\ [][Next]_vars
FairSpec == Spec /\ Fairness

-----------------------------------------------------------------------------
(* What the greeter promises.                                               *)

\* An instance announces a greeting only if it was saved at the end of the chain
\* and every instance on the way has already answered for it: an unknown outcome
\* is never announced.
EventsFollowTheSave ==
  \A c \in Calls, n \in Instances : events[c][n] > 0 =>
    \A m \in Instances : m > n => pc[c][m] = "answered" /\ answer[c][m] = "ok"

\* An instance announces a greeting once at most, whatever the broker does.
OneEventPerInstance == \A c \in Calls, n \in Instances : events[c][n] <= 1

\* What an instance answers tells of the save: "ok" only when the end of the chain has
\* saved and every instance up to here has answered for it, "error" only for a blank
\* name or a save that was asked of another instance.  Where the save is local nothing
\* that becomes of the announcement is an error.
AnswersTellOfTheSave ==
  \A c \in Calls, n \in Instances :
    /\ answer[c][n] = "ok" => \A m \in Instances : m > n => answer[c][m] = "ok"
    /\ answer[c][n] = "error" => blank[c] \/ Remote(n)

\* A blank name reaches no other instance, no save and no broker.
BlankNameHasNoEffect ==
  \A c \in Calls : blank[c] =>
    \A n \in Instances :
      events[c][n] = 0 /\ (n > 1 => pc[c][n] = "absent") /\ answer[c][n] # "ok"

\* Every call is answered even if every other instance hangs.
EveryCallAnswered == \A c \in Calls : pc[c][1] = "normalize" ~> pc[c][1] = "answered"

\* README.md:236: a publish failure is only logged and does not break the main
\* flow.  With no fault other than a slow broker, then, an instance whose greeting
\* was saved, and which could not publish it, has not failed its caller.
PublishFailureKeepsTheFlow ==
  \A c \in Calls, n \in Instances :
    Remote(n) /\ answer[c][n + 1] = "ok" /\ events[c][n + 1] = 0
      => answer[c][n] # "error"

-----------------------------------------------------------------------------
(* The inductive invariant behind the safety promises.                      *)

\* Calls travel down the chain and their answers come back up.
ChainInv(c, n) ==
  /\ pc[c][n] \in {"absent", "normalize", "save"} =>
       \A m \in Instances : m > n => pc[c][m] = "absent"
  /\ pc[c][n] = "absent" => events[c][n] = 0
  /\ pc[c][n] = "publish" \/ answer[c][n] = "ok" =>
       \A m \in Instances : m > n => pc[c][m] = "answered" /\ answer[c][m] = "ok"
  /\ answer[c][n] # "none" => pc[c][n] = "answered"
  /\ answer[c][n] = "error" => blank[c] \/ Remote(n)
  /\ pc[c][n] = "remote" => Remote(n)

EventInv(c, n) ==
  /\ events[c][n] > 0 => pc[c][n] = "answered" /\ answer[c][n] = "ok"
  /\ events[c][n] <= 1

BlankInv(c, n) ==
  blank[c] => /\ pc[c][n] \in {"absent", "normalize", "answered"}
              /\ n > 1 => pc[c][n] = "absent"
              /\ answer[c][n] # "ok"

IInv ==
  /\ TypeOK
  /\ \A c \in Calls, n \in Instances : ChainInv(c, n) /\ EventInv(c, n) /\ BlankInv(c, n)

=============================================================================
