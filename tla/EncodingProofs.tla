-------------------------- MODULE EncodingProofs --------------------------
(***************************************************************************)
(* Proofs about the pure functions: the framing for payloads of every      *)
(* length, the kids for every pair of bytes, the hash hook for every call, *)
(* and the order statistics for every number of samples.                   *)
(***************************************************************************)
EXTENDS MCEncoding, TLAPS

-----------------------------------------------------------------------------
(***************************************************************************)
(* The framing.                                                            *)
(***************************************************************************)

\* The byte of a one-byte prefix comes first.
LEMMA LeadByte ==
  ASSUME NEW a, NEW f
  PROVE  Lead(<<a>>, f)[1] = a
<1> DEFINE S == {a, f}
<1>1. <<a>> \in Seq(S) /\ <<f, f, f>> \in Seq(S) /\ Len(<<a>>) = 1 /\ Len(<<f, f, f>>) = 3
  OBVIOUS
<1>2. PICK s : s = <<a>> \o <<f, f, f>>
  OBVIOUS
<1> HIDE DEF S
<1>3. s \in Seq(S) /\ Len(s) = 4 /\ s[1] = a
  BY <1>1, <1>2
<1>4. SubSeq(s, 1, 3)[1] = a
  BY <1>3
<1> QED
  BY <1>2, <1>4 DEF Lead

\* So do the bytes of a two-byte one.
LEMMA LeadBytes ==
  ASSUME NEW a, NEW b, NEW f
  PROVE  Lead(<<a, b>>, f)[1] = a /\ Lead(<<a, b>>, f)[2] = b
<1> DEFINE S == {a, b, f}
<1>1. <<a, b>> \in Seq(S) /\ <<f, f, f>> \in Seq(S) /\ Len(<<a, b>>) = 2 /\ Len(<<f, f, f>>) = 3
  OBVIOUS
<1>2. PICK t : t = <<a, b>> \o <<f, f, f>>
  OBVIOUS
<1> HIDE DEF S
<1>3. t \in Seq(S) /\ Len(t) = 5 /\ t[1] = a /\ t[2] = b
  BY <1>1, <1>2
<1>4. SubSeq(t, 1, 3)[1] = a /\ SubSeq(t, 1, 3)[2] = b
  BY <1>3
<1> QED
  BY <1>2, <1>4 DEF Lead

\* And those of a three-byte one.
LEMMA LeadThree ==
  ASSUME NEW a, NEW b, NEW c, NEW f
  PROVE  /\ Lead(<<a, b, c>>, f)[1] = a
         /\ Lead(<<a, b, c>>, f)[2] = b
         /\ Lead(<<a, b, c>>, f)[3] = c
<1> DEFINE S == {a, b, c, f}
<1>1. <<a, b, c>> \in Seq(S) /\ <<f, f, f>> \in Seq(S)
  OBVIOUS
<1>2. Len(<<a, b, c>>) = 3 /\ Len(<<f, f, f>>) = 3
  OBVIOUS
<1>3. PICK t : t = <<a, b, c>> \o <<f, f, f>>
  OBVIOUS
<1> HIDE DEF S
<1>4. t \in Seq(S) /\ Len(t) = 6 /\ t[1] = a /\ t[2] = b /\ t[3] = c
  BY <1>1, <1>2, <1>3
<1>5. SubSeq(t, 1, 3)[1] = a /\ SubSeq(t, 1, 3)[2] = b /\ SubSeq(t, 1, 3)[3] = c
  BY <1>4
<1> QED
  BY <1>3, <1>5 DEF Lead

\* The client writes a connection identifier as one byte of major type 0 or 1.
LEMMA CidByte ==
  ASSUME NEW v \in ConnInt
  PROVE  cid_to_cbor(v) \in 0..23 \cup 32..55
  BY DEF cid_to_cbor, ConnInt

\* A leading item whose length cbor_item_len() gets right as far as the payload
\* reaches is stripped, or the POST refused.
LEMMA Stripped ==
  ASSUME NEW p, NEW len \in Nat \ {0}, NEW n \in Nat \ {0},
         p[1] # CBOR_TRUE, cbor_item_len(p, len) \in Nat \ {0},
         len > n => cbor_item_len(p, len) = n,
         len <= n => cbor_item_len(p, len) >= len
  PROVE  IF len > n THEN unframe(p, len) = [kind |-> "message_3", skip |-> n]
                    ELSE unframe(p, len).kind = "rejected"
<1> HIDE DEF cbor_item_len
<1>1. CASE len > n
  BY <1>1 DEF unframe
<1>2. CASE len <= n
  BY <1>2 DEF unframe
<1> QED
  BY <1>1, <1>2

\* An item whose initial byte tells its length.
LEMMA UnframeShort ==
  ASSUME NEW p, NEW len \in Nat \ {0}, NEW n \in Nat \ {0},
         \/ p[1] \in 0..23 \cup 32..55 /\ n = 1
         \/ \E q \in {<<24, 2>>, <<25, 3>>, <<26, 5>>, <<27, 9>>}, major \in {0, 32} :
               p[1] = q[1] + major /\ n = q[2]
         \/ \E k \in 0..23 : p[1] = 64 + k /\ n = 1 + k
  PROVE  IF len > n THEN unframe(p, len) = [kind |-> "message_3", skip |-> n]
                    ELSE unframe(p, len).kind = "rejected"
<1>1. cbor_item_len(p, len) = n /\ p[1] # CBOR_TRUE
  <2>1. CASE p[1] \in 0..23 \cup 32..55 /\ n = 1
    BY <2>1 DEF cbor_item_len, CBOR_TRUE
  <2>2. CASE \E q \in {<<24, 2>>, <<25, 3>>, <<26, 5>>, <<27, 9>>}, major \in {0, 32} :
                p[1] = q[1] + major /\ n = q[2]
    <3>1. \/ p[1] \in {24, 56} /\ n = 2
          \/ p[1] \in {25, 57} /\ n = 3
          \/ p[1] \in {26, 58} /\ n = 5
          \/ p[1] \in {27, 59} /\ n = 9
      BY <2>2
    <3> QED
      BY <3>1 DEF cbor_item_len, CBOR_TRUE
  <2>3. CASE \E k \in 0..23 : p[1] = 64 + k /\ n = 1 + k
    BY <2>3 DEF cbor_item_len, CBOR_TRUE
  <2> QED
    BY <2>1, <2>2, <2>3
<1> QED
  BY <1>1, Stripped

\* A byte string with its length in the second byte.
LEMMA UnframeLong ==
  ASSUME NEW p, NEW len \in Nat \ {0}, NEW k \in Nat, p[1] = 88, p[2] = k,
         NEW n, n = 2 + k
  PROVE  IF len > n THEN unframe(p, len) = [kind |-> "message_3", skip |-> n]
                    ELSE unframe(p, len).kind = "rejected"
<1>1. cbor_item_len(p, len) = IF len >= 2 THEN n ELSE 2
  BY DEF cbor_item_len
<1>2. p[1] # CBOR_TRUE
  BY DEF CBOR_TRUE
<1> QED
  BY <1>1, <1>2, Stripped

\* And with its length in the two bytes that follow.
LEMMA UnframeLonger ==
  ASSUME NEW p, NEW len \in Nat \ {0}, NEW h \in Nat, NEW k \in Nat,
         p[1] = 89, p[2] = h, p[3] = k, NEW n, n = 3 + 256 * h + k
  PROVE  IF len > n THEN unframe(p, len) = [kind |-> "message_3", skip |-> n]
                    ELSE unframe(p, len).kind = "rejected"
<1>1. cbor_item_len(p, len) = IF len >= 3 THEN n ELSE 3
  BY DEF cbor_item_len
<1>2. p[1] # CBOR_TRUE
  BY DEF CBOR_TRUE
<1> QED
  BY <1>1, <1>2, Stripped

\* edhoc_post() strips exactly the C_R prefix of a message_3, for every item it
\* may begin with, whatever follows it and however long the payload.
THEOREM UnframeExact ==
  ASSUME NEW q \in Prefix, NEW f, NEW len \in Nat \ {0}
  PROVE  IF len > q.n
           THEN unframe(Lead(q.head, f), len) = [kind |-> "message_3", skip |-> q.n]
           ELSE unframe(Lead(q.head, f), len).kind = "rejected"
<1>1. CASE \E v \in ConnInt : q = [head |-> <<cid_to_cbor(v)>>, n |-> 1]
  <2> PICK v \in ConnInt : q = [head |-> <<cid_to_cbor(v)>>, n |-> 1]
    BY <1>1
  <2>1. Lead(q.head, f)[1] = cid_to_cbor(v) /\ q.n = 1
    BY LeadByte
  <2> QED
    BY <2>1, CidByte, UnframeShort
<1>2. CASE \E w \in {<<24, 2>>, <<25, 3>>, <<26, 5>>, <<27, 9>>}, major \in {0, 32} :
               q = [head |-> <<w[1] + major>>, n |-> w[2]]
  <2> PICK w \in {<<24, 2>>, <<25, 3>>, <<26, 5>>, <<27, 9>>}, major \in {0, 32} :
               q = [head |-> <<w[1] + major>>, n |-> w[2]]
    BY <1>2
  <2>1. q.head = <<w[1] + major>> /\ q.n = w[2] /\ q.n \in Nat \ {0}
    OBVIOUS
  <2>2. Lead(q.head, f)[1] = w[1] + major
    BY <2>1, LeadByte
  <2> QED
    BY <2>1, <2>2, UnframeShort
<1>3. CASE \E k \in 0..23 : q = [head |-> <<64 + k>>, n |-> 1 + k]
  <2> PICK k \in 0..23 : q = [head |-> <<64 + k>>, n |-> 1 + k]
    BY <1>3
  <2>1. q.head = <<64 + k>> /\ q.n = 1 + k /\ q.n \in Nat \ {0}
    OBVIOUS
  <2>2. Lead(q.head, f)[1] = 64 + k
    BY <2>1, LeadByte
  <2> QED
    BY <2>1, <2>2, UnframeShort
<1>4. CASE \E k \in 0..255 : q = [head |-> <<88, k>>, n |-> 2 + k]
  <2> PICK k \in 0..255 : q = [head |-> <<88, k>>, n |-> 2 + k]
    BY <1>4
  <2>1. q.head = <<88, k>> /\ q.n = 2 + k /\ k \in Nat
    OBVIOUS
  <2>2. Lead(q.head, f)[1] = 88 /\ Lead(q.head, f)[2] = k
    BY <2>1, LeadBytes
  <2> QED
    BY <2>1, <2>2, UnframeLong
<1>5. CASE \E h \in {0, 1}, k \in 0..255 : q = [head |-> <<89, h, k>>, n |-> 3 + 256 * h + k]
  <2> PICK h \in {0, 1}, k \in 0..255 : q = [head |-> <<89, h, k>>, n |-> 3 + 256 * h + k]
    BY <1>5
  <2>1. q.head = <<89, h, k>> /\ q.n = 3 + 256 * h + k /\ h \in Nat /\ k \in Nat
    OBVIOUS
  <2>2. Lead(q.head, f)[1] = 89 /\ Lead(q.head, f)[2] = h /\ Lead(q.head, f)[3] = k
    BY <2>1, LeadThree
  <2> QED
    BY <2>1, <2>2, UnframeLonger
<1> QED
  BY <1>1, <1>2, <1>3, <1>4, <1>5 DEF Prefix

-----------------------------------------------------------------------------
(***************************************************************************)
(* Kids and connection identifiers.                                        *)
(***************************************************************************)

\* Taking the member of a singleton.
LEMMA OnlyMember == \A x : (CHOOSE i \in {x} : TRUE) = x
  OBVIOUS

\* cred_verify() accepts what a peer sends under its kid if and only if that is
\* the provisioned kid, for every pair of bytes.
THEOREM KidExact ==
  ASSUME NEW kid \in Byte, NEW peer \in Byte, kid_wire_int(peer) # {}
  PROVE  cred_verify(on_wire(kid), peer) <=> kid = peer
<1>1. kid \in Int /\ peer \in Int /\ (peer <= 23 \/ peer \in 32..55)
  BY DEF Byte, kid_wire_int
<1>2. CASE kid_wire_int(kid) = {}
  <2>1. on_wire(kid) = [label |-> "kid", enc |-> "bstr", id |-> kid]
    BY <1>2 DEF on_wire
  <2>2. cred_verify(on_wire(kid), peer) <=> kid = peer
    BY <2>1 DEF cred_verify
  <2> QED
    BY <2>2
<1>3. CASE kid_wire_int(kid) # {}
  <2>1. PICK w : kid_wire_int(kid) = {w} /\ w = IF kid <= 23 THEN kid ELSE -1 - (kid - 32)
    BY <1>3 DEF kid_wire_int
  <2>2. on_wire(kid) = [label |-> "kid", enc |-> "int", id |-> w]
    BY <1>3, <2>1, OnlyMember DEF on_wire
  <2>3. cred_verify(on_wire(kid), peer) <=> kid_wire_int(peer) = {w}
    BY <2>2 DEF cred_verify
  <2>4. PICK u : kid_wire_int(peer) = {u} /\ u = IF peer <= 23 THEN peer ELSE -1 - (peer - 32)
    BY <1>1 DEF kid_wire_int
  <2>5. u = w <=> kid = peer
    BY <1>1, <1>3, <2>1, <2>4 DEF Byte, kid_wire_int
  <2> QED
    BY <2>3, <2>4, <2>5
<1> QED
  BY <1>2, <1>3

\* The byte the client writes for a connection identifier is the one that
\* kid_wire_int() of the key generator reads back as that integer.
THEOREM CidRoundTrip ==
  ASSUME NEW v \in ConnInt
  PROVE  kid_wire_int(cid_to_cbor(v)) = {v}
<1>1. CASE v >= 0
  BY <1>1 DEF cid_to_cbor, kid_wire_int, ConnInt
<1>2. CASE v < 0
  <2>1. cid_to_cbor(v) = 31 - v
    BY <1>2 DEF cid_to_cbor, ConnInt
  <2>2. 31 - v \in 32..55 /\ ~ (31 - v <= 23) /\ -1 - ((31 - v) - 32) = v
    BY <1>2 DEF ConnInt
  <2> QED
    BY <2>1, <2>2 DEF kid_wire_int
<1> QED
  BY <1>1, <1>2 DEF ConnInt

-----------------------------------------------------------------------------
(***************************************************************************)
(* The hash hook.                                                          *)
(***************************************************************************)

\* A call on a free accelerator leaves it free, however it returns, unless
\* hash_free_session() itself fails; and a sound call on a free one succeeds.
THEOREM SessionFreed ==
  /\ \A a, ready, fails :
        "free" \notin fails => edhoc_hash_hw(a, ready, FALSE, fails).session = FALSE
  /\ \A a : valid(a) => edhoc_hash_hw(a, TRUE, FALSE, {}).ret = "SUCCESS"
<1>1. ASSUME NEW a, NEW ready, NEW fails, "free" \notin fails
      PROVE  edhoc_hash_hw(a, ready, FALSE, fails).session = FALSE
  <2>1. CASE ~ valid(a)
    BY <2>1 DEF edhoc_hash_hw, Returns
  <2>2. CASE valid(a) /\ (~ ready \/ ~ begin_session_ok(FALSE, fails))
    BY <2>2 DEF edhoc_hash_hw, Returns
  <2>3. CASE valid(a) /\ ~ (~ ready \/ ~ begin_session_ok(FALSE, fails))
    <3>1. edhoc_hash_hw(a, ready, FALSE, fails) = hash_session(fails)
      BY <2>3 DEF edhoc_hash_hw
    <3>2. hash_session(fails).session = ("free" \in fails)
      BY DEF hash_session, Returns
    <3>3. ("free" \in fails) = FALSE
      BY <1>1
    <3> QED
      BY <3>1, <3>2, <3>3
  <2> QED
    BY <2>1, <2>2, <2>3
<1>2. ASSUME NEW a, valid(a)
      PROVE  edhoc_hash_hw(a, TRUE, FALSE, {}).ret = "SUCCESS"
  <2>1. edhoc_hash_hw(a, TRUE, FALSE, {}) = hash_session({})
    BY <1>2 DEF edhoc_hash_hw, begin_session_ok
  <2>2. "compute" \notin {}
    OBVIOUS
  <2>3. hash_session({}).ret = "SUCCESS"
    BY <2>2 DEF hash_session, Returns
  <2> QED
    BY <2>1, <2>3
<1> QED
  BY <1>1, <1>2

-----------------------------------------------------------------------------
(***************************************************************************)
(* The order statistics.                                                   *)
(***************************************************************************)

\* A position within half a step of p percent of the way is the nearest one.
LEMMA WithinHalf ==
  ASSUME NEW p \in Percent, NEW n \in Nat \ {0}, NEW k \in 0..(n - 1),
         100 * k <= p * (n - 1) + 50, p * (n - 1) <= 100 * k + 50
  PROVE  NearestRank(k, p, n)
<1> DEFINE X == p * (n - 1)
<1>1. X \in Int
  BY DEF Percent
<1> SUFFICES ASSUME NEW j \in 0..(n - 1)
             PROVE  Distance(100 * k, X) <= Distance(100 * j, X)
  BY DEF NearestRank
<1>2. k \in Int /\ j \in Int /\ 100 * k <= X + 50 /\ X <= 100 * k + 50
  OBVIOUS
<1> HIDE DEF X
<1>3. CASE j = k
  BY <1>1, <1>2, <1>3 DEF Distance
<1>4. CASE j < k
  BY <1>1, <1>2, <1>4 DEF Distance
<1>5. CASE j > k
  BY <1>1, <1>2, <1>5 DEF Distance
<1> QED
  BY <1>2, <1>3, <1>4, <1>5

\* The two roundings stay within half a step, and inside the samples.
LEMMA RoundingBounds ==
  ASSUME NEW p \in Percent, NEW n \in Nat \ {0}
  PROVE  /\ lround(p, n) \in 0..(n - 1)
         /\ 100 * lround(p, n) <= p * (n - 1) + 50 /\ p * (n - 1) <= 100 * lround(p, n) + 50
         /\ round(p, n) \in 0..(n - 1)
         /\ 100 * round(p, n) <= p * (n - 1) + 50 /\ p * (n - 1) <= 100 * round(p, n) + 50
<1>1. CASE p = 95
  BY <1>1 DEF lround, round, Tie, Below
<1>2. CASE p = 99
  BY <1>2 DEF lround, round, Tie, Below
<1> QED
  BY <1>1, <1>2 DEF Percent

\* bench_endpoint() and report() print the sample nearest to the percentile,
\* for every number of samples, and bench_endpoint() reads inside its vector.
THEOREM NearestSample ==
  ASSUME NEW p \in Percent, NEW n \in Nat \ {0}
  PROVE  NearestRank(bench_position(p, n), p, n) /\ NearestRank(report_position(p, n), p, n)
<1>1. report_position(p, n) = round(p, n)
  BY RoundingBounds DEF report_position
<1> QED
  BY <1>1, RoundingBounds, WithinHalf DEF bench_position

\* The figures of both tools come in order, and the median of bench_endpoint()
\* lies in the middle, for every number of samples.
THEOREM Ordered ==
  ASSUME NEW n \in Nat \ {0}
  PROVE  /\ bench_position(95, n) <= bench_position(99, n)
         /\ report_position(95, n) <= report_position(99, n)
         /\ \A k \in bench_median(n) : /\ k <= report_position(95, n)
                                        /\ (n - 1) - k \in bench_median(n)
<1>1. bench_position(95, n) <= bench_position(99, n)
  BY DEF bench_position, lround
<1>2. report_position(95, n) <= report_position(99, n)
  BY DEF report_position, round, lround, Tie, Below
<1>3. \A k \in bench_median(n) : k <= report_position(95, n)
  BY DEF bench_median, report_position, round, lround, Tie, Below
<1>4. \A k \in bench_median(n) : (n - 1) - k \in bench_median(n)
  BY DEF bench_median
<1> QED
  BY <1>1, <1>2, <1>3, <1>4

-----------------------------------------------------------------------------
(***************************************************************************)
(* The properties of the runs.  A behaviour of Spec draws one input and    *)
(* keeps it.                                                               *)
(***************************************************************************)

Drawn == \/ in = [kind |-> "none"]
         \/ in \in Frame
         \/ in \in KidPair
         \/ in \in Cid
         \/ in \in HashCall
         \/ in \in Samples

\* The drawn input is one of those enumerated.
LEMMA InputDrawn == Spec => []Drawn
<1>1. Init => Drawn
  BY DEF Init, Drawn
<1>2. Drawn /\ [Draw]_in => Drawn'
  BY DEF Draw, Drawn
<1> QED
  BY <1>1, <1>2, PTL DEF Spec

\* An input's kind tells which of the sets it was drawn from.
LEMMA DrawnKinds ==
  ASSUME Drawn
  PROVE  /\ in.kind = "frame" => in \in Frame
         /\ in.kind = "kids" => in \in KidPair
         /\ in.kind = "cid" => in \in Cid
         /\ in.kind = "hash" => in \in HashCall
         /\ in.kind = "samples" => in \in Samples
<1>1. in \in Frame => in.kind = "frame"
  BY DEF Frame
<1>2. in \in KidPair => in.kind = "kids"
  BY DEF KidPair
<1>3. in \in Cid => in.kind = "cid"
  BY DEF Cid
<1>4. in \in HashCall => in.kind = "hash"
  BY DEF HashCall
<1>5. in \in Samples => in.kind = "samples"
  BY DEF Samples
<1> QED
  BY <1>1, <1>2, <1>3, <1>4, <1>5 DEF Drawn

\* edhoc_post() strips exactly the prefix that was written, whatever follows it.
THEOREM FramingIsExact == Spec => []FramingExact
<1>1. Drawn => FramingExact
  <2> SUFFICES ASSUME Drawn, in.kind = "frame"
               PROVE  FramingExact
    BY DEF FramingExact
  <2>1. PICK q \in Prefix, f \in Filler, l \in Lens :
            in = [kind |-> "frame", bytes |-> Lead(q.head, f), n |-> q.n, len |-> l]
    BY DrawnKinds DEF Frame
  <2>2. in.bytes = Lead(q.head, f) /\ in.n = q.n /\ in.len = l /\ l \in Nat \ {0}
    BY <2>1 DEF Lens
  <2> QED
    BY <2>2, UnframeExact DEF FramingExact
<1> QED
  BY <1>1, InputDrawn, PTL

\* cred_verify() accepts the provisioned kid and no other.
THEOREM KidIsVerified == Spec => []KidVerified
<1>1. Drawn => KidVerified
  <2> SUFFICES ASSUME Drawn, in.kind = "kids"
               PROVE  KidVerified
    BY DEF KidVerified
  <2>1. in.kid \in Byte /\ in.peer \in Byte /\ kid_wire_int(in.peer) # {}
    BY DrawnKinds DEF KidPair
  <2> QED
    BY <2>1, KidExact DEF KidVerified
<1> QED
  BY <1>1, InputDrawn, PTL

\* cid_to_cbor() and kid_wire_int() are inverse.
THEOREM WireIntIsInverse == Spec => []WireIntInverse
<1>1. Drawn => WireIntInverse
  <2> SUFFICES ASSUME Drawn, in.kind = "cid"
               PROVE  WireIntInverse
    BY DEF WireIntInverse
  <2>1. in.v \in ConnInt
    BY DrawnKinds DEF Cid
  <2> QED
    BY <2>1, CidRoundTrip DEF WireIntInverse
<1> QED
  BY <1>1, InputDrawn, PTL

\* No call of edhoc_hash_hw() takes the accelerator away from the next one, but
\* for a hash_free_session() that fails.
THEOREM AcceleratorStaysFree == Spec => []AcceleratorFree
<1>1. AcceleratorFree
  BY SessionFreed DEF AcceleratorFree, Hashed
<1> QED
  BY <1>1, PTL

\* Both latency tools report the nearest sample, whatever bounds their number.
THEOREM PercentilesAreSound == Spec => []PercentilesSound
<1>1. Drawn => PercentilesSound
  <2> SUFFICES ASSUME Drawn, in.kind = "samples"
               PROVE  PercentilesSound
    BY DEF PercentilesSound
  <2>1. in.n \in Nat \ {0}
    BY DrawnKinds, InputAssumption DEF Samples
  <2> QED
    BY <2>1, NearestSample DEF PercentilesSound
<1> QED
  BY <1>1, InputDrawn, PTL

\* The figures of both tools come in order.
THEOREM FiguresAreOrdered == Spec => []FiguresOrdered
<1>1. Drawn => FiguresOrdered
  <2> SUFFICES ASSUME Drawn, in.kind = "samples"
               PROVE  FiguresOrdered
    BY DEF FiguresOrdered
  <2>1. in.n \in Nat \ {0}
    BY DrawnKinds, InputAssumption DEF Samples
  <2> QED
    BY <2>1, Ordered DEF FiguresOrdered
<1> QED
  BY <1>1, InputDrawn, PTL

=============================================================================
