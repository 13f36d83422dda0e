-------------------------- MODULE ScopedResources --------------------------
(***************************************************************************)
(* What a process promises about the things it opens: it opens them in     *)
(* dependency order, closes them in the opposite order, never opens one    *)
(* after it has begun to close, and lets nobody use them but while all     *)
(* those it wants are open.  How it keeps track is not said.               *)
(***************************************************************************)
EXTENDS Naturals

CONSTANTS
  Resources,
  Rank        \* dependency order: a resource may use those of lower rank

VARIABLES
  wanted,     \* the resources this process is configured to open
  open,       \* those that are open
  closing,    \* it has begun to close them
  inUse       \* somebody is using them

vars == <<wanted, open, closing, inUse>>

Init ==
  /\ wanted \subseteq Resources
  /\ open = {}
  /\ closing = FALSE
  /\ inUse = FALSE

Acquire(x) ==
  /\ ~closing
  /\ ~inUse
  /\ x \in wanted \ open
  /\ \A y \in open : Rank[y] < Rank[x]
  /\ open' = open \cup {x}
  /\ UNCHANGED <<wanted, closing, inUse>>

BeginUse ==
  /\ ~closing
  /\ open = wanted
  /\ inUse' = TRUE
  /\ UNCHANGED <<wanted, open, closing>>

EndUse ==
  /\ inUse' = FALSE
  /\ UNCHANGED <<wanted, open, closing>>

BeginClosing ==
  /\ ~inUse
  /\ closing' = TRUE
  /\ UNCHANGED <<wanted, open, inUse>>

\* The last one opened is the first to go.
Release(x) ==
  /\ ~inUse
  /\ x \in open
  /\ \A y \in open \ {x} : Rank[y] < Rank[x]
  /\ open' = open \ {x}
  /\ closing' = TRUE
  /\ UNCHANGED <<wanted, inUse>>

Next ==
  \/ \E x \in Resources : Acquire(x) \/ Release(x)
  \/ BeginUse \/ EndUse \/ BeginClosing

Spec == Init /\ [][Next]_vars

=============================================================================
