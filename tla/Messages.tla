------------------------------ MODULE Messages ------------------------------
(***************************************************************************)
(* Sessions and the datagrams that the device and the host client          *)
(* exchange.  Cryptography is symbolic: an EDHOC run is identified by the  *)
(* two ephemeral keys that went into it, and so are the OSCORE keys it     *)
(* yields, a session <<x, y>>.  A message is readable only under the       *)
(* session it was made for.                                                *)
(***************************************************************************)
EXTENDS Encoding

CONSTANTS
    GX,             \* initiators' ephemeral keys: one per run of the client
    MaxDraws,       \* bound: responder ephemeral keys drawn over a behaviour
    ED_KID_I,       \* the provisioned kid of the initiator, the host
    ED_KID_R,       \* the provisioned kid of the responder, the device
    NoSession       \* the keys before any, or after a failed derivation

GY == 1..MaxDraws
Session == GX \X GY

ASSUME DrawsAssumption     == MaxDraws \in Nat
ASSUME KidAssumption       == ED_KID_I \in Byte /\ ED_KID_R \in Byte
ASSUME NoSessionAssumption == NoSession \notin Session

\* EDHOC, in POSTs to /.well-known/edhoc and their 2.04 responses.
Message1(x)         == [type |-> "message_1", x |-> x]
Message2(x, y)      == [type |-> "message_2", x |-> x, y |-> y, id_cred |-> on_wire(ED_KID_R)]
Message3(x, y, kid) == [type |-> "message_3", x |-> x, y |-> y, id_cred |-> on_wire(kid)]
Message4(x, y)      == [type |-> "message_4", x |-> x, y |-> y]
Unframed            == [type |-> "unframed"]      \* unframe() rejects its payload

\* OSCORE, in POSTs to the root.  A response repeats its request's PIV.
Protected(key, piv, req) == [type |-> "protected", key |-> key, piv |-> piv, req |-> req]
Answer(key, piv, rsp)    == [type |-> "answer", key |-> key, piv |-> piv, rsp |-> rsp]
PlainRoot                == [type |-> "plain_root"]   \* no OSCORE option
NotFound                 == [type |-> "not_found"]    \* the stack's 4.04

=============================================================================
