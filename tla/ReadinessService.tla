-------------------------- MODULE ReadinessService --------------------------
(***************************************************************************)
(* What GET /readyz promises to those who ask: one answer to each request, *)
(* a whole one, and nothing in it that was last true a Window or more      *)
(* before the request came.  Pings, locks and a cache are not mentioned.   *)
(*                                                                         *)
(* "down" may be said of a dependency that works: a ping can time out.     *)
(***************************************************************************)
EXTENDS Integers

CONSTANTS
  Requests,   \* whoever may ask, each one question at a time
  Deps,       \* the dependencies an answer lists
  Enabled,    \* those that the process has
  Window,     \* the age from which an observation is too old
  Never       \* a time before all others

VARIABLES
  clock,
  downSince,  \* per dependency: when its outage began, Never while it works
  asked,      \* per request: when it came, Never if none is waiting
  status,     \* per request: the answer it was given,
  checks      \* and the list that came with it

world == <<clock, downSince>>
answers == <<asked, status, checks>>
vars == <<world, answers>>

Lists == [Deps -> {"up", "down", "skipped"}]
NothingSaid == [d \in Deps |-> "skipped"]

Init ==
  /\ clock = 0
  /\ downSince = [d \in Deps |-> Never]
  /\ asked = [r \in Requests |-> Never]
  /\ status = [r \in Requests |-> "none"]
  /\ checks = [r \in Requests |-> NothingSaid]

Tick ==
  /\ clock' = clock + 1
  /\ UNCHANGED <<downSince, answers>>

Change(d) ==
  /\ downSince' = [downSince EXCEPT ![d] = IF @ = Never THEN clock ELSE Never]
  /\ UNCHANGED <<clock, answers>>

\* What r was told before is forgotten.
Ask(r) ==
  /\ asked[r] = Never
  /\ asked' = [asked EXCEPT ![r] = clock]
  /\ status' = [status EXCEPT ![r] = "none"]
  /\ checks' = [checks EXCEPT ![r] = NothingSaid]
  /\ UNCHANGED world

\* d has worked at some time after t.
WorkedAfter(d, t) == downSince[d] = Never \/ downSince[d] > t

MaySay(d, s, t) ==
  /\ s = "skipped" <=> d \notin Enabled
  /\ s = "up" => WorkedAfter(d, t)

Answer(r, c) ==
  /\ asked[r] # Never
  /\ \A d \in Deps : MaySay(d, c[d], asked[r] - Window)
  /\ asked' = [asked EXCEPT ![r] = Never]
  /\ status' = [status EXCEPT ![r] =
       IF \A d \in Deps : c[d] # "down" THEN "ready" ELSE "not_ready"]
  /\ checks' = [checks EXCEPT ![r] = c]
  /\ UNCHANGED world

Next ==
  \/ Tick
  \/ \E d \in Enabled : Change(d)
  \/ \E r \in Requests : Ask(r) \/ \E c \in Lists : Answer(r, c)

Spec == Init /\ [][Next]_vars

=============================================================================
