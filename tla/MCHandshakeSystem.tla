------------------------- MODULE MCHandshakeSystem -------------------------
(***************************************************************************)
(* Small instances of the device and the client on one link.               *)
(***************************************************************************)
EXTENDS HandshakeSystem

CONSTANTS x1, x2

MCKid == {42, 43}
MCPayload == {<<>>, <<"1">>}

\* The middle of the client's demo script: PUT /led "1", then GET /led.
MCScript == << [code |-> "PUT", path |-> "led", payload |-> <<"1">>],
               [code |-> "GET", path |-> "led", payload |-> <<>>] >>

=============================================================================
