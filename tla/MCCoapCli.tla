----------------------------- MODULE MCCoapCli -----------------------------
(***************************************************************************)
(* Three overlapping executions and a pool of as many contexts as one of   *)
(* them has attempts.                                                      *)
(***************************************************************************)
EXTENDS CoapCli

CONSTANTS r1, r2, r3

=============================================================================
