--------------------------- MODULE MCGreeterProcess ---------------------------
(* The instance of GreeterProcess that TLC checks.                          *)
EXTENDS GreeterProcess

=============================================================================
