----------------------------- MODULE MCBootstrap -----------------------------
(* The instance of Bootstrap that TLC checks: every configuration.          *)
EXTENDS Bootstrap

=============================================================================
