------------------------------ MODULE Encoding ------------------------------
(***************************************************************************)
(* The wire conversions both ends must agree on: the framing of an EDHOC   *)
(* POST (RFC 9668 prefixes), the one-byte CBOR form of connection ids and  *)
(* kids, the credential check by kid, and the on/off payload of the led    *)
(* resource.  Constant-level operators only.                               *)
(***************************************************************************)
EXTENDS Integers, Sequences

Byte == 0..255

CBOR_TRUE == 245        \* 0xf5, the prefix of message_1

(***************************************************************************)
(* The framing the device strips.  p holds the first three bytes of the    *)
(* payload (the only ones ever read) and len is the payload length.        *)
(***************************************************************************)

\* Mutant: the two-byte string length is not added to the header.
cbor_item_len_no_ext(p, len) ==
    LET ai == p[1] % 32
    IN  IF len = 0 THEN 0
        ELSE IF ai = 24 THEN 2
        ELSE IF p[1] \div 32 \in {2, 3} /\ ai < 24 THEN 1 + ai ELSE 1

\* Length of the leading CBOR item, as far as edhoc_oscore.c decodes it.
cbor_item_len(p, len) ==
    LET major   == p[1] \div 32
        ai      == p[1] % 32
        hdr     == CASE ai = 24 -> 2
                     [] ai = 25 -> 3
                     [] ai = 26 -> 5
                     [] ai = 27 -> 9
                     [] OTHER   -> 1
        payload == CASE ai < 24             -> ai
                     [] ai = 24 /\ len >= 2 -> p[2]
                     [] ai = 25 /\ len >= 3 -> 256 * p[2] + p[3]
                     [] OTHER               -> 0
    IN  IF len = 0 THEN 0
        ELSE IF major \in {2, 3} THEN hdr + payload ELSE hdr

\* What edhoc_post() takes a payload to be, and how many bytes it skips.
unframe(p, len) ==
    LET skip == cbor_item_len(p, len)
    IN  IF len = 0
          THEN [kind |-> "rejected", skip |-> 0]
        ELSE IF p[1] = CBOR_TRUE
          THEN [kind |-> "message_1", skip |-> 1]
        ELSE IF skip = 0 \/ skip >= len
          THEN [kind |-> "rejected", skip |-> 0]
          ELSE [kind |-> "message_3", skip |-> skip]

-----------------------------------------------------------------------------
(***************************************************************************)
(* One-byte CBOR integers: the client's prefix byte for C_R, and the       *)
(* integer a one-byte kid is transported as (none, when it is not one).    *)
(***************************************************************************)

\* Mutant: the CBOR negative-integer offset of one is forgotten.
cid_to_cbor_off_by_one(v) == IF v >= 0 THEN v ELSE 32 - v

cid_to_cbor(v) == IF v >= 0 THEN v ELSE (32 + (-v) - 1) % 256

\* Mutant: the negative range is mapped without the offset of one.
kid_wire_int_off_by_one(kid) ==
    IF kid <= 23 THEN {kid} ELSE IF kid \in 32..55 THEN {32 - kid} ELSE {}

\* The integers a kid byte compresses to: a set of at most one.
kid_wire_int(kid) ==
    IF kid <= 23 THEN {kid}
    ELSE IF kid \in 32..55 THEN {-1 - (kid - 32)}
    ELSE {}

\* ID_CRED_x as it reaches the peer's verify callback (RFC 9528 3.3.2).
on_wire(kid) ==
    IF kid_wire_int(kid) = {}
      THEN [label |-> "kid", enc |-> "bstr", id |-> kid]
      ELSE [label |-> "kid", enc |-> "int",
            id |-> CHOOSE i \in kid_wire_int(kid) : TRUE]

\* Accept exactly the peer whose kid is `peer', in either encoding.  A kid has
\* one byte (oscore.conf: CONFIG_LIBEDHOC_MAX_LEN_OF_CRED_KEY_ID=1), the length
\* that the byte-string case also asks for.
cred_verify(creds, peer) ==
    /\ creds.label = "kid"
    /\ IF creds.enc = "int" THEN kid_wire_int(peer) = {creds.id}
                            ELSE creds.id = peer

-----------------------------------------------------------------------------
(***************************************************************************)
(* The payload of PUT /led, as a sequence of characters.                   *)
(***************************************************************************)
StartsWith(payload, word) ==
    /\ Len(payload) >= Len(word)
    /\ SubSeq(payload, 1, Len(word)) = word

parse_onoff(payload) ==
    IF StartsWith(payload, <<"1">>) THEN 1
    ELSE IF StartsWith(payload, <<"0">>) THEN 0
    ELSE IF StartsWith(payload, <<"o", "n">>) THEN 1
    ELSE IF StartsWith(payload, <<"o", "f", "f">>) THEN 0
    ELSE -1

=============================================================================
