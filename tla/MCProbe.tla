------------------------------ MODULE MCProbe ------------------------------
(***************************************************************************)
(* Two calls of a probe on one socket, each of which uses up every         *)
(* message id.                                                             *)
(***************************************************************************)
EXTENDS Probe

TwoCalls == <<"CON", "NON">>

=============================================================================
