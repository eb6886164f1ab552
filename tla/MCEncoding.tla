----------------------------- MODULE MCEncoding -----------------------------
(***************************************************************************)
(* Exercises the pure functions of Encoding, Sha256Hw and Statistics over  *)
(* bounded inputs.  A behaviour draws one input: a framed POST, a pair of  *)
(* kids, a connection identifier, a call of the hash hook or a number of   *)
(* latency samples.                                                        *)
(***************************************************************************)
EXTENDS Encoding, Sha256Hw, Statistics

CONSTANTS
    Filler,         \* the bytes that may follow a prefix
    InputLen,       \* lengths of the hash hook's input
    HashSize,       \* and of its output buffer
    MaxSamples      \* bound: the latency tools' default --count is 1000

ASSUME InputAssumption ==
    /\ MaxSamples \in Nat
    /\ InputLen \subseteq Nat /\ HashSize \subseteq Nat

VARIABLE in

ConnInt == -24..23                  \* one-byte connection identifiers

\* The CBOR items with which a message_3 may begin, and their lengths: an integer
\* of any of the five widths, or a byte string that fits a datagram, its length
\* in the initial byte or in the one or two bytes that follow.
Prefix ==
    {[head |-> <<cid_to_cbor(v)>>, n |-> 1] : v \in ConnInt} \cup
    {[head |-> <<q[1] + major>>, n |-> q[2]] :
        q \in {<<24, 2>>, <<25, 3>>, <<26, 5>>, <<27, 9>>}, major \in {0, 32}} \cup
    {[head |-> <<64 + k>>, n |-> 1 + k] : k \in 0..23} \cup
    {[head |-> <<88, k>>, n |-> 2 + k] : k \in 0..255} \cup
    {[head |-> <<89, h, k>>, n |-> 3 + 256 * h + k] : h \in {0, 1}, k \in 0..255}

\* The first three bytes of a payload that begins with this prefix.
Lead(head, f) == SubSeq(head \o <<f, f, f>>, 1, 3)

\* Payload lengths: around those of the prefixes, and up to the server's limit.
Lens == {1, 2, 3, 5, 9, 10, 37, 254, 255, 256}

Frame == {[kind |-> "frame", bytes |-> Lead(q.head, f), n |-> q.n, len |-> l] :
             q \in Prefix, f \in Filler, l \in Lens}

\* A peer's kid must have a wire integer: the generated header has no other form.
KidPair == {[kind |-> "kids", kid |-> k, peer |-> t] :
               k \in Byte, t \in {b \in Byte : kid_wire_int(b) # {}}}

Cid == {[kind |-> "cid", v |-> v] : v \in ConnInt}

Args == [input : {"NULL", "buf"}, input_len : InputLen, hash : {"NULL", "buf"},
         hash_size : HashSize, hash_len : {"NULL", "ptr"}]

HashCall == {[kind |-> "hash", args |-> a, ready |-> r, fails |-> f] :
                a \in Args, r \in BOOLEAN, f \in SUBSET {"begin", "compute", "free"}}

Samples == {[kind |-> "samples", n |-> n] : n \in 1..MaxSamples}

Init == in = [kind |-> "none"]

Draw == /\ in.kind = "none"
        /\ \/ in' \in Frame
           \/ in' \in KidPair
           \/ in' \in Cid
           \/ in' \in HashCall
           \/ in' \in Samples

Spec == Init /\ [][Draw]_in

-----------------------------------------------------------------------------
\* edhoc_post() strips exactly the C_R prefix an initiator wrote: it never
\* takes message_3 for message_1, never cuts into the message, and refuses
\* the POST only when no message byte is left behind the prefix.
FramingExact ==
    in.kind = "frame" =>
        IF in.len > in.n
          THEN unframe(in.bytes, in.len) = [kind |-> "message_3", skip |-> in.n]
          ELSE unframe(in.bytes, in.len).kind = "rejected"

\* cred_verify() accepts the credential a peer sends under its kid if and only
\* if that kid is the provisioned one, although the kid travels as a byte
\* string or as an integer depending on its value.
KidVerified ==
    in.kind = "kids" => (cred_verify(on_wire(in.kid), in.peer) <=> in.kid = in.peer)

\* The client's one-byte form of a connection identifier (client.cpp) is the
\* byte that the key generator's kid_wire_int() reads back as that integer.
WireIntInverse ==
    in.kind = "cid" => kid_wire_int(cid_to_cbor(in.v)) = {in.v}

\* The drawn call, on a free accelerator.
Hashed == edhoc_hash_hw(in.args, in.ready, FALSE, in.fails)

\* No failure that edhoc_hash_hw() hears of keeps the accelerator's only session:
\* after whatever call, a sound one to a working accelerator is refused only if
\* hash_free_session() failed, whose result the code discards.  One failed
\* handshake does not by itself disable the ones to come.
AcceleratorFree ==
    in.kind = "hash" =>
        \A a \in Args :
            valid(a) /\ edhoc_hash_hw(a, TRUE, Hashed.session, {}).ret # "SUCCESS" =>
                "free" \in in.fails

\* Whatever number of samples the losses leave, both latency tools report the
\* sample nearest to the percentile, and bench_endpoint(), which does not bound
\* the position, reads inside its vector.
PercentilesSound ==
    in.kind = "samples" =>
        \A p \in Percent :
            /\ NearestRank(bench_position(p, in.n), p, in.n)
            /\ NearestRank(report_position(p, in.n), p, in.n)

\* The figures come in the order min, median, p95, p99, max in both tools, and
\* the median of bench_endpoint() has as many samples below it as above.
FiguresOrdered ==
    in.kind = "samples" =>
        /\ bench_position(95, in.n) <= bench_position(99, in.n)
        /\ report_position(95, in.n) <= report_position(99, in.n)
        /\ \A k \in bench_median(in.n) : /\ k <= report_position(95, in.n)
                                         /\ (in.n - 1) - k \in bench_median(in.n)

=============================================================================
