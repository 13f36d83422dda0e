\* The times of the deployment in half seconds, two dependencies, one client.
CONSTANTS
  Probers = {p1, p2}
  Clients = {client}
  Pings = 2
  Watched = {1}
  CacheTTL = 4
  PingTimeout <- TwoPings
  Latency = 1
  InitialDelay = 10
  Period = 10
  ProbeTimeout = 4
  FailureThreshold = 3

SPECIFICATION FlapSpec

VIEW WhatMatters

SYMMETRY AnyProber

INVARIANTS
  TypeOK
  OutageTakesPodOut
  HealthyPodIsReady

PROPERTIES
  OnlyLastingTroubleTakesPodOut
