--------------------------- MODULE MCReadinessFlaps ---------------------------
(* The instance of ReadinessFlaps that TLC checks.                          *)
EXTENDS ReadinessFlaps, TLC

\* Postgres: a second.  Redis: one for the connection and three for the answer.
TwoPings == <<2, 8>>

AnyProber == Permutations(Probers)

\* A view: an age is read only by Store, which caps it, and the handler of a probe that
\* has been answered or given up is not told from others.
CappedAges == [h \in Handlers |-> IF age[h] < CacheTTL THEN age[h] ELSE CacheTTL]
AnsweringProbe == {h \in Probers : asking /\ h = probe}

WhatMatters ==
  <<deps, cache, at, CappedAges, waited, hung, ready,
    asking, AnsweringProbe, untilProbe, failures, podReady, troubleFor>>

=============================================================================
