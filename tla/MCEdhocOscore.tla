--------------------------- MODULE MCEdhocOscore ---------------------------
(***************************************************************************)
(* A small device: its environment sends every datagram at every moment.   *)
(***************************************************************************)
EXTENDS EdhocOscore

CONSTANTS x1, x2

MCPayload == {<<"1">>, <<"0">>, <<"x">>}
MCKid     == {42, 43}      \* 0x2a, the provisioned one; 0x2b, another

=============================================================================
