-------------------------- MODULE SharedConnections --------------------------
(***************************************************************************)
(* What a publisher promises to the requests that share it and to the      *)
(* process that owns it: one connection to an exchange, opened when it is  *)
(* first wanted, there for as long as anybody may use it, and closed once, *)
(* when nobody can come any more.  Locks and look-ups are not mentioned.   *)
(***************************************************************************)
EXTENDS Naturals

CONSTANTS
  Users,      \* requests
  Exchanges

VARIABLES
  live,       \* per exchange: connections open to it
  inside,     \* the users that are in the process
  holds,      \* per user: the exchange whose connection it is using, as a set
  phase       \* of the process

vars == <<live, inside, holds, phase>>

Init ==
  /\ live = [e \in Exchanges |-> 0]
  /\ inside = {}
  /\ holds = [u \in Users |-> {}]
  /\ phase = "serving"

Enter(u) ==
  /\ phase = "serving"
  /\ u \notin inside
  /\ inside' = inside \cup {u}
  /\ UNCHANGED <<live, holds, phase>>

Leave(u) ==
  /\ u \in inside
  /\ holds[u] = {}
  /\ inside' = inside \ {u}
  /\ UNCHANGED <<live, holds, phase>>

Connect(e) ==
  /\ inside # {}
  /\ live[e] = 0
  /\ live' = [live EXCEPT ![e] = 1]
  /\ UNCHANGED <<inside, holds, phase>>

Take(u, e) ==
  /\ u \in inside
  /\ live[e] = 1
  /\ holds' = [holds EXCEPT ![u] = {e}]
  /\ UNCHANGED <<live, inside, phase>>

Drop(u) ==
  /\ holds' = [holds EXCEPT ![u] = {}]
  /\ UNCHANGED <<live, inside, phase>>

\* Nobody comes after the first, nobody is there after the second, and nothing is
\* open after the third.
Enough == phase = "serving" /\ phase' = "stopping"
Empty == phase = "stopping" /\ inside = {} /\ phase' = "cleanup"
Done == phase = "cleanup" /\ (\A e \in Exchanges : live[e] = 0) /\ phase' = "closed"

Close(e) ==
  /\ phase = "cleanup"
  /\ live[e] = 1
  /\ live' = [live EXCEPT ![e] = 0]
  /\ UNCHANGED <<inside, holds, phase>>

Next ==
  \/ \E u \in Users : Enter(u) \/ Leave(u) \/ Drop(u)
  \/ \E u \in Users, e \in Exchanges : Take(u, e)
  \/ \E e \in Exchanges : Connect(e) \/ Close(e)
  \/ (Enough \/ Empty \/ Done) /\ UNCHANGED <<live, inside, holds>>

Spec == Init /\ [][Next]_vars

=============================================================================
