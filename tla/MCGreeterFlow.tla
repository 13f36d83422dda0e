---------------------------- MODULE MCGreeterFlow ----------------------------
(* The instances of GreeterFlow that TLC checks.                            *)
EXTENDS GreeterFlow

=============================================================================
