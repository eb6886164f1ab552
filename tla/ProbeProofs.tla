----------------------------- MODULE ProbeProofs -----------------------------
(***************************************************************************)
(* Proofs about the latency probes, for any number of calls and requests   *)
(* and any size of the message id.  What keeps measure() from timing a     *)
(* late response of its own call is IdsInStep: the id of a datagram is as  *)
(* far behind the current id, modulo IdSpace, as its request is behind the *)
(* current one, and a call is too short for the ids to come round.         *)
(***************************************************************************)
EXTENDS Probe, TLAPS

\* The size of the loop and of the id space.
LEMMA Sizes == /\ Total \in Nat /\ Warmup \in Nat /\ IdSpace \in Nat \ {0} /\ MaxDups \in Nat
               /\ Len(Cases) \in Nat \ {0}
<1>1. Len(Cases) \in Nat \ {0}
  BY CasesAssumption
<1> QED
  BY <1>1, ProbeAssumption DEF Total

\* (mid + 1) & 0xFFFF: the next id, or the first one again.
LEMMA NextMid ==
  ASSUME mid \in Ids
  PROVE  next_mid = (IF mid + 1 = IdSpace THEN 0 ELSE mid + 1) /\ next_mid \in Ids
<1>1. IdSpace \in Nat \ {0}
  BY Sizes
<1> QED
  BY <1>1 DEF next_mid, Ids

\* What a datagram's fields range over.
LEMMA FlightFields ==
  ASSUME ProbeTypeOK, NEW d \in toDev \cup toHost
  PROVE  /\ d.mid \in Ids /\ d.of \in Exchange
         /\ d.of[1] \in Nat /\ d.of[2] \in Nat /\ d.of = <<d.of[1], d.of[2]>>
         /\ d.mid \in Nat /\ mid \in Nat
<1>1. d.mid \in Ids /\ d.of \in Exchange /\ mid \in Ids
  BY DEF ProbeTypeOK, SamplesAddUp, Datagram
<1>2. d.of[1] \in 1..Len(Cases) /\ d.of[2] \in 0..(Total - 1) /\ d.of = <<d.of[1], d.of[2]>>
  BY <1>1 DEF Exchange
<1> QED
  BY <1>1, <1>2, Sizes DEF Ids

\* The id moves on with the requests: a datagram falls behind by one.
LEMMA BehindNext ==
  ASSUME mid \in Ids, NEW d, d.mid \in Nat, d.of[2] \in Nat, d.mid < IdSpace,
         NEW n \in Int, NEW k \in Int, k = n + 1, k < IdSpace, Behind(d, n), mid' = next_mid
  PROVE  d.of[2] <= k /\ d.mid + (k - d.of[2]) \in {mid', mid' + IdSpace}
<1>1. mid \in Nat /\ mid < IdSpace /\ IdSpace \in Nat
  BY Sizes DEF Ids
<1>2. mid' = IF mid + 1 = IdSpace THEN 0 ELSE mid + 1
  BY NextMid
<1>3. d.of[2] <= n /\ (d.mid + (n - d.of[2]) = mid \/ d.mid + (n - d.of[2]) = mid + IdSpace)
  BY DEF Behind
<1> QED
  BY <1>1, <1>2, <1>3

\* A datagram with the current id is the response to the current request.
LEMMA SameIdSameRequest ==
  ASSUME ProbeTypeOK, IdsInStep, tool = "measure", Total <= IdSpace, pc = "recv",
         NEW d \in toDev \cup toHost, d.of[1] = call, d.mid = mid
  PROVE  d.of = <<call, i>>
<1>1. Behind(d, i) /\ i < Total /\ i \in Nat
  BY Sizes DEF IdsInStep, ProbeTypeOK, SamplesAddUp
<1>2. d.of[2] \in Nat /\ mid \in Nat /\ d.of = <<d.of[1], d.of[2]>>
  BY FlightFields
<1>3. i - d.of[2] = 0
  BY <1>1, <1>2, Sizes DEF Behind
<1> QED
  BY <1>1, <1>2, <1>3

-----------------------------------------------------------------------------
\* The end of the loop body: one more request, a sample or a loss if it counts.
LEMMA ConcludeInv ==
  ASSUME ProbeInv, pc \in {"send", "recv"}, UNCHANGED <<tool, call>>, NEW sample,
         Conclude(sample),
         \/ sample = <<>>
         \/ \E x \in [own : Exchange, of : Exchange] :
               /\ sample = <<x>>
               /\ tool = "measure" /\ Total <= IdSpace => (x.of[1] = x.own[1] => x.of = x.own)
  PROVE  /\ i' = i + 1 /\ i' \in 0..Total
         /\ pc' = (IF i' = Total THEN "report" ELSE "send") /\ (pc' = "send" => i' < Total)
         /\ rtts' \in Seq([own : Exchange, of : Exchange]) /\ losses' \in Nat
         /\ Len(rtts') + losses' = IF i' > Warmup THEN i' - Warmup ELSE 0
         /\ OwnWithinCall'
<1> USE DEF ProbeInv
<1> DEFINE Sample == [own : Exchange, of : Exchange]
<1>1. /\ i \in Nat /\ i < Total /\ rtts \in Seq(Sample) /\ losses \in Nat
      /\ Len(rtts) + losses = IF i > Warmup THEN i - Warmup ELSE 0
  BY Sizes DEF ProbeTypeOK, SamplesAddUp, IdsInStep
<1>2. Len(rtts) \in Nat
  BY <1>1
<1>3. i' = i + 1 /\ pc' = (IF i' = Total THEN "report" ELSE "send")
  BY DEF Conclude
<1>4. i' \in 0..Total /\ (pc' = "send" => i' < Total)
  BY <1>1, <1>3, Sizes
<1>5. CASE ~ counted
  <2>1. rtts' = rtts /\ losses' = losses /\ i < Warmup
    BY <1>1, <1>5, Sizes DEF Conclude, counted
  <2>2. OwnWithinCall'
    BY <2>1 DEF OwnWithinCall
  <2>3. Len(rtts') + losses' = IF i' > Warmup THEN i' - Warmup ELSE 0
    BY <1>1, <1>2, <1>3, <2>1, Sizes
  <2> QED
    BY <1>1, <1>3, <1>4, <2>1, <2>2, <2>3
<1>6. CASE counted /\ sample = <<>>
  <2>1. rtts' = rtts /\ losses' = losses + 1 /\ i >= Warmup
    <3>1. rtts \o <<>> = rtts
      BY <1>1
    <3> QED
      BY <1>6, <3>1 DEF Conclude, counted
  <2>2. OwnWithinCall'
    BY <2>1 DEF OwnWithinCall
  <2>3. Len(rtts') + losses' = IF i' > Warmup THEN i' - Warmup ELSE 0
    BY <1>1, <1>2, <1>3, <2>1, Sizes
  <2> QED
    BY <1>1, <1>3, <1>4, <2>1, <2>2, <2>3
<1>7. CASE counted /\ sample # <<>>
  <2>1. PICK x \in Sample :
               /\ sample = <<x>>
               /\ tool = "measure" /\ Total <= IdSpace => (x.of[1] = x.own[1] => x.of = x.own)
    BY <1>7
  <2>2. rtts' = rtts \o <<x>> /\ losses' = losses /\ i >= Warmup
    BY <1>7, <2>1 DEF Conclude, counted
  <2> HIDE DEF Sample
  <2>3. /\ rtts' \in Seq(Sample) /\ Len(rtts') = Len(rtts) + 1
        /\ rtts'[Len(rtts) + 1] = x /\ \A k \in 1..Len(rtts) : rtts'[k] = rtts[k]
    BY <1>1, <1>2, <2>1, <2>2
  <2>4. OwnWithinCall'
    <3> SUFFICES ASSUME tool = "measure", Total <= IdSpace, NEW k \in 1..Len(rtts'),
                        rtts'[k].of[1] = rtts'[k].own[1]
                 PROVE  rtts'[k].of = rtts'[k].own
      BY DEF OwnWithinCall
    <3>1. CASE k = Len(rtts) + 1
      BY <2>1, <2>3, <3>1
    <3>2. CASE k # Len(rtts) + 1
      <4>1. k \in 1..Len(rtts)
        BY <1>2, <2>3, <3>2
      <4> QED
        BY <2>3, <4>1 DEF OwnWithinCall
    <3> QED
      BY <3>1, <3>2
  <2>5. Len(rtts') + losses' = IF i' > Warmup THEN i' - Warmup ELSE 0
    <3>1. PICK n \in Nat, l \in Nat : n = Len(rtts) /\ l = losses
      BY <1>1, <1>2
    <3>2. /\ Len(rtts') = n + 1 /\ losses' = l /\ i' = i + 1
          /\ n + l = IF i > Warmup THEN i - Warmup ELSE 0
          /\ i \in Nat /\ Warmup \in Nat /\ i >= Warmup
      BY <1>1, <1>3, <2>2, <2>3, <3>1, Sizes
    <3>3. (n + 1) + l = IF i + 1 > Warmup THEN (i + 1) - Warmup ELSE 0
      BY <3>2
    <3> QED
      BY <3>2, <3>3
  <2> QED
    BY <1>1, <1>3, <1>4, <2>2, <2>3, <2>4, <2>5 DEF Sample
<1> QED
  BY <1>5, <1>6, <1>7

\* The ids stay in step: nothing new is on the link, and the loop stands still,
\* ends a wait, or gives up a request with its id.
LEMMA IdsKept ==
  ASSUME ProbeInv, UNCHANGED <<tool, call>>,
         \A e \in toDev' \cup toHost' : \E d \in toDev \cup toHost : e.mid = d.mid /\ e.of = d.of,
         \/ UNCHANGED <<pc, i, mid>>
         \/ pc = "recv" /\ mid' = mid
         \/ pc = "send" /\ mid' = next_mid,
         \/ UNCHANGED <<pc, i, mid>>
         \/ i' = i + 1 /\ pc' \in {"send", "report"} /\ (pc' = "send" => i' < Total)
  PROVE  IdsInStep'
<1> USE DEF ProbeInv
<1>1. i \in Nat /\ call \in Nat /\ mid \in Ids
  BY Sizes DEF ProbeTypeOK, SamplesAddUp
<1>2. pc' \in {"send", "recv"} => i' < Total
  BY DEF IdsInStep
<1>3. ASSUME NEW e \in toDev' \cup toHost'
      PROVE  /\ e.of[1] <= call'
             /\ pc' = "start" => e.of[1] < call'
             /\ tool' = "measure" /\ Total <= IdSpace /\ e.of[1] = call' =>
                   /\ pc' = "recv" => Behind(e, i)'
                   /\ pc' = "send" => Behind(e, i - 1)'
  <2>1. PICK d \in toDev \cup toHost : e.mid = d.mid /\ e.of = d.of
    OBVIOUS
  <2>2. d.of[1] <= call /\ (pc' = "start" => d.of[1] < call)
    BY DEF IdsInStep
  <2>3. ASSUME tool = "measure", Total <= IdSpace, d.of[1] = call
        PROVE  /\ pc' = "recv" => Behind(e, i)'
               /\ pc' = "send" => Behind(e, i - 1)'
    <3>1. d.mid \in Nat /\ d.of[2] \in Nat /\ d.mid < IdSpace
      BY FlightFields, Sizes DEF Ids
    <3>2. CASE UNCHANGED <<pc, i, mid>>
      BY <2>1, <2>3, <3>2 DEF IdsInStep, Behind
    <3>3. CASE pc = "recv" /\ mid' = mid /\ i' = i + 1 /\ pc' \in {"send", "report"}
      <4>1. Behind(d, i) /\ i' - 1 = i
        BY <1>1, <2>3, <3>3 DEF IdsInStep
      <4> QED
        BY <2>1, <3>3, <4>1 DEF Behind
    <3>4. CASE pc = "send" /\ mid' = next_mid /\ i' = i + 1 /\ pc' \in {"send", "report"}
      <4>1. Behind(d, i - 1) /\ i < Total
        BY <2>3, <3>4 DEF IdsInStep
      <4>2. PICK n \in Int, k \in Int : n = i - 1 /\ k = i' - 1 /\ k = n + 1 /\ k < IdSpace
        BY <1>1, <2>3, <3>4, <4>1, Sizes
      <4>3. d.of[2] <= k /\ d.mid + (k - d.of[2]) \in {mid', mid' + IdSpace}
        BY <1>1, <3>1, <3>4, <4>1, <4>2, BehindNext
      <4> QED
        BY <2>1, <3>4, <4>2, <4>3 DEF Behind
    <3> QED
      BY <3>2, <3>3, <3>4
  <2> QED
    BY <2>1, <2>2, <2>3
<1> QED
  BY <1>2, <1>3 DEF IdsInStep

-----------------------------------------------------------------------------
\* Before the first call.
LEMMA ProbeInitInv == ProbeInit => ProbeInv
<1> SUFFICES ASSUME ProbeInit PROVE ProbeInv
  OBVIOUS
<1>1. /\ tool \in Tools /\ call = 1 /\ i = 0 /\ mid = 0 /\ pc = "start" /\ rtts = <<>>
      /\ losses = 0 /\ toDev = {} /\ toHost = {} /\ dups = 0
  BY DEF ProbeInit
<1>2. call \in 1..Len(Cases) /\ i \in 0..Total /\ mid \in Ids /\ dups \in 0..MaxDups
  BY <1>1, Sizes DEF Ids
<1>3. rtts \in Seq([own : Exchange, of : Exchange]) /\ Len(rtts) = 0
  BY <1>1
<1>4. ProbeTypeOK /\ SamplesAddUp
  BY <1>1, <1>2, <1>3 DEF ProbeTypeOK, SamplesAddUp
<1>5. IdsInStep
  BY <1>1 DEF IdsInStep
<1>6. OwnWithinCall
  BY <1>3 DEF OwnWithinCall
<1> QED
  BY <1>4, <1>5, <1>6 DEF ProbeInv

\* A call begins: nothing of it is on the link yet.
LEMMA StartInv ==
  ASSUME ProbeInv, Start
  PROVE  ProbeInv'
<1> USE DEF ProbeInv
<1>1. /\ pc = "start" /\ i' = 0 /\ rtts' = <<>> /\ losses' = 0
      /\ pc' = (IF Total = 0 THEN "report" ELSE "send")
      /\ UNCHANGED <<tool, call, toDev, toHost, dups>>
  BY DEF Start
<1>2. mid' \in Ids
  BY DEF Start, ProbeTypeOK, SamplesAddUp
<1>3. rtts' \in Seq([own : Exchange, of : Exchange]) /\ Len(rtts') = 0
  BY <1>1
<1>4. i' \in 0..Total /\ (pc' = "send" => i' < Total)
  BY <1>1, Sizes
<1>5. Len(rtts') + losses' = IF i' > Warmup THEN i' - Warmup ELSE 0
  BY <1>1, <1>3, Sizes
<1>6. ProbeTypeOK' /\ SamplesAddUp'
  BY <1>1, <1>2, <1>3, <1>4, <1>5 DEF ProbeTypeOK, SamplesAddUp
<1>7. \A d \in toDev \cup toHost : d.of[1] <= call /\ d.of[1] # call
  <2> TAKE d \in toDev \cup toHost
  <2>1. d.of[1] \in Nat /\ d.of[1] < call /\ call \in Nat
    BY <1>1, FlightFields, Sizes DEF IdsInStep, ProbeTypeOK, SamplesAddUp
  <2> QED
    BY <2>1
<1>8. IdsInStep'
  BY <1>1, <1>4, <1>7 DEF IdsInStep
<1>9. OwnWithinCall'
  BY <1>3 DEF OwnWithinCall
<1> QED
  BY <1>6, <1>8, <1>9

\* A request goes out with the next id.
LEMMA SendInv ==
  ASSUME ProbeInv, Send
  PROVE  ProbeInv'
<1> USE DEF ProbeInv
<1>1. /\ pc = "send" /\ mid' = next_mid /\ toDev' = toDev \cup {request} /\ pc' = "recv"
      /\ UNCHANGED <<tool, call, i, rtts, losses, toHost, dups>>
  BY DEF Send
<1>2. /\ mid \in Ids /\ mid' \in Ids /\ i \in Nat /\ i < Total
      /\ call \in 1..Len(Cases) /\ call \in Nat
  BY <1>1, NextMid, Sizes DEF ProbeTypeOK, SamplesAddUp, IdsInStep
<1>3. PICK q : q = request
  OBVIOUS
<1>4. q.mid = mid' /\ q.of = <<call, i>> /\ q \in Datagram({"CON", "NON"})
  <2>1. (IF tool = "measure" THEN Cases[call] ELSE "CON") \in {"CON", "NON"}
    BY <1>2, CasesAssumption
  <2>2. <<call, i>> \in Exchange
    BY <1>2, Sizes DEF Exchange
  <2> QED
    BY <1>1, <1>2, <1>3, <2>1, <2>2 DEF request, Datagram
<1>5. ProbeTypeOK' /\ SamplesAddUp'
  BY <1>1, <1>2, <1>3, <1>4 DEF ProbeTypeOK, SamplesAddUp
<1>6. ASSUME NEW d \in toDev' \cup toHost'
      PROVE  /\ d.of[1] <= call
             /\ tool = "measure" /\ Total <= IdSpace /\ d.of[1] = call => Behind(d, i)'
  <2>1. CASE d = q
    <3>1. d.of[1] = call /\ d.of[2] = i /\ d.mid = mid' /\ mid' \in Nat
      BY <1>2, <1>4, <2>1, Sizes DEF Ids
    <3> QED
      BY <1>1, <1>2, <3>1 DEF Behind
  <2>2. CASE d \in toDev \cup toHost
    <3>1. d.of[1] <= call
      BY <2>2 DEF IdsInStep
    <3>2. ASSUME tool = "measure", Total <= IdSpace, d.of[1] = call PROVE Behind(d, i)'
      <4>1. Behind(d, i - 1)
        BY <1>1, <2>2, <3>2 DEF IdsInStep
      <4>2. PICK n \in Int, k \in Int : n = i - 1 /\ k = i /\ k = n + 1 /\ k < IdSpace
        BY <1>2, <3>2, Sizes
      <4>3. d.mid \in Nat /\ d.of[2] \in Nat /\ d.mid < IdSpace
        BY <2>2, FlightFields, Sizes DEF Ids
      <4>4. d.of[2] <= k /\ d.mid + (k - d.of[2]) \in {mid', mid' + IdSpace}
        BY <1>1, <1>2, <4>1, <4>2, <4>3, BehindNext
      <4> QED
        BY <1>1, <4>2, <4>4 DEF Behind
    <3> QED
      BY <3>1, <3>2
  <2> QED
    BY <1>1, <1>3, <2>1, <2>2
<1>7. IdsInStep'
  BY <1>1, <1>2, <1>6 DEF IdsInStep
<1>8. OwnWithinCall'
  BY <1>1 DEF OwnWithinCall
<1> QED
  BY <1>5, <1>7, <1>8

\* A request that is not sent, or not answered in time, is a loss.
LEMMA LossInv ==
  ASSUME ProbeInv, SendFails \/ Timeout
  PROVE  ProbeInv'
<1> USE DEF ProbeInv
<1>1. /\ Conclude(<<>>) /\ UNCHANGED <<tool, call, toDev, toHost, dups>>
      /\ (pc = "send" /\ mid' = next_mid) \/ (pc = "recv" /\ mid' = mid)
  BY DEF SendFails, Timeout, recv_gives_up
<1>2. mid' \in Ids
  BY <1>1, NextMid DEF ProbeTypeOK, SamplesAddUp
<1>3. /\ i' = i + 1 /\ i' \in 0..Total
      /\ pc' = (IF i' = Total THEN "report" ELSE "send") /\ (pc' = "send" => i' < Total)
      /\ rtts' \in Seq([own : Exchange, of : Exchange]) /\ losses' \in Nat
      /\ Len(rtts') + losses' = IF i' > Warmup THEN i' - Warmup ELSE 0
      /\ OwnWithinCall'
  BY <1>1, ConcludeInv
<1>4. ProbeTypeOK' /\ SamplesAddUp'
  BY <1>1, <1>2, <1>3 DEF ProbeTypeOK, SamplesAddUp
<1>5. IdsInStep'
  BY <1>1, <1>3, IdsKept
<1> QED
  BY <1>3, <1>4, <1>5

\* A datagram arrives: it ends the wait, or measure() goes on waiting.
LEMMA RecvInv ==
  ASSUME ProbeInv, NEW d \in toHost, NEW keep \in BOOLEAN, Recv(d, keep)
  PROVE  ProbeInv'
<1> USE DEF ProbeInv
<1>1. /\ pc = "recv" /\ toHost' \subseteq toHost /\ dups' \in 0..MaxDups
      /\ UNCHANGED <<tool, call, mid, toDev>>
  BY Sizes DEF Recv, Copies, CountDups, Duplicates, ProbeTypeOK, SamplesAddUp
<1>2. \A e \in toDev' \cup toHost' : \E c \in toDev \cup toHost : e.mid = c.mid /\ e.of = c.of
  BY <1>1
<1>3. CASE ~ ends_wait(d)
  <2>1. UNCHANGED <<i, pc, rtts, losses>>
    BY <1>3 DEF Recv
  <2>2. ProbeTypeOK' /\ SamplesAddUp'
    BY <1>1, <2>1 DEF ProbeTypeOK, SamplesAddUp
  <2>3. IdsInStep'
    BY <1>1, <1>2, <2>1, IdsKept
  <2> QED
    BY <1>1, <2>1, <2>2, <2>3 DEF OwnWithinCall
<1>4. CASE ends_wait(d)
  <2>1. PICK good \in is_sample(d) :
           Conclude(IF good THEN <<[own |-> <<call, i>>, of |-> d.of]>> ELSE <<>>)
    BY <1>4 DEF Recv
  <2>2. PICK x : x = [own |-> <<call, i>>, of |-> d.of]
    OBVIOUS
  <2>3. x \in [own : Exchange, of : Exchange] /\ x.own = <<call, i>> /\ x.of = d.of
    <3>1. d.of \in Exchange
      BY FlightFields
    <3>2. <<call, i>> \in Exchange
      BY <1>1, Sizes DEF Exchange, ProbeTypeOK, SamplesAddUp, IdsInStep
    <3> QED
      BY <2>2, <3>1, <3>2
  <2>4. tool = "measure" /\ Total <= IdSpace => (x.of[1] = x.own[1] => x.of = x.own)
    BY <1>1, <1>4, <2>3, SameIdSameRequest DEF ends_wait
  <2>5. PICK sample : sample = IF good THEN <<x>> ELSE <<>>
    OBVIOUS
  <2>6. /\ i' = i + 1 /\ i' \in 0..Total
        /\ pc' = (IF i' = Total THEN "report" ELSE "send") /\ (pc' = "send" => i' < Total)
        /\ rtts' \in Seq([own : Exchange, of : Exchange]) /\ losses' \in Nat
        /\ Len(rtts') + losses' = IF i' > Warmup THEN i' - Warmup ELSE 0
        /\ OwnWithinCall'
    <3>1. Conclude(sample)
      BY <2>1, <2>2, <2>5
    <3>2. sample = <<>> \/ sample = <<x>>
      BY <2>5
    <3> QED
      BY <1>1, <2>3, <2>4, <3>1, <3>2, ConcludeInv
  <2>7. ProbeTypeOK' /\ SamplesAddUp'
    BY <1>1, <2>6 DEF ProbeTypeOK, SamplesAddUp
  <2>8. IdsInStep'
    BY <1>1, <1>2, <2>6, IdsKept
  <2> QED
    BY <2>6, <2>7, <2>8
<1> QED
  BY <1>3, <1>4

\* The call is over, and the next one begins or the probe ends.
LEMMA ReportInv ==
  ASSUME ProbeInv, Report
  PROVE  ProbeInv'
<1> USE DEF ProbeInv
<1>1. /\ pc = "report" /\ UNCHANGED <<tool, i, mid, rtts, losses, toDev, toHost, dups>>
      /\ \/ call < Len(Cases) /\ call' = call + 1 /\ pc' = "start"
         \/ call' = call /\ pc' = "exit"
  BY DEF Report
<1>2. call \in Nat /\ call' \in 1..Len(Cases)
  BY <1>1, Sizes DEF ProbeTypeOK, SamplesAddUp
<1>3. ProbeTypeOK' /\ SamplesAddUp'
  BY <1>1, <1>2 DEF ProbeTypeOK, SamplesAddUp
<1>4. \A d \in toDev \cup toHost : d.of[1] <= call /\ d.of[1] \in Nat
  BY FlightFields DEF IdsInStep
<1>5. IdsInStep'
  BY <1>1, <1>2, <1>4 DEF IdsInStep
<1> QED
  BY <1>1, <1>3, <1>5 DEF OwnWithinCall

\* The server answers a request with its id; the link loses a datagram.
LEMMA LinkInv ==
  ASSUME ProbeInv,
         \/ \E d \in toDev, keep \in BOOLEAN : Serve(d, keep)
         \/ \E d \in toDev \cup toHost : Lose(d)
         \/ UNCHANGED probeVars
  PROVE  ProbeInv'
<1> USE DEF ProbeInv
<1>1. UNCHANGED <<tool, call, i, mid, pc, rtts, losses>> /\ dups' \in 0..MaxDups
  BY Sizes DEF Serve, Lose, probeVars, CountDups, Duplicates, ProbeTypeOK, SamplesAddUp
<1>2. toDev' \subseteq toDev /\ \A e \in toHost' : e \in toHost \/ \E d \in toDev : e = Answer(d)
  BY DEF Serve, Lose, probeVars, Copies
<1>3. \A d \in toDev : /\ Answer(d).mid = d.mid /\ Answer(d).of = d.of
                       /\ Answer(d) \in Datagram({"CON", "NON", "ACK"})
  BY DEF Answer, ProbeTypeOK, SamplesAddUp, Datagram
<1>4. ProbeTypeOK' /\ SamplesAddUp'
  BY <1>1, <1>2, <1>3 DEF ProbeTypeOK, SamplesAddUp
<1>5. \A e \in toDev' \cup toHost' : \E d \in toDev \cup toHost : e.mid = d.mid /\ e.of = d.of
  BY <1>2, <1>3
<1>6. IdsInStep'
  BY <1>1, <1>5, IdsKept
<1> QED
  BY <1>1, <1>4, <1>6 DEF OwnWithinCall

\* The inductive invariant of the probes holds.
THEOREM ProbeInvariant == ProbeSpec => []ProbeInv
<1>1. ProbeInit => ProbeInv
  BY ProbeInitInv
<1>2. ProbeInv /\ [ProbeNext]_probeVars => ProbeInv'
  BY StartInv, SendInv, LossInv, ReportInv, RecvInv, LinkInv DEF ProbeNext, ProbeStep
<1> QED
  BY <1>1, <1>2, PTL DEF ProbeSpec

\* No loop of measure() or bench_endpoint() overruns, message ids keep to their
\* width, and a sample is of requests that were made.
THEOREM ProbeTyped == ProbeSpec => []ProbeTypeOK
<1>1. ProbeInv => ProbeTypeOK
  BY DEF ProbeInv
<1> QED
  BY <1>1, ProbeInvariant, PTL

\* measure() and bench_endpoint() count every request behind the warmup once, as
\* a sample or as a loss, whatever the link does.
THEOREM EveryRequestCounted == ProbeSpec => []SamplesAddUp
<1>1. ProbeInv => SamplesAddUp
  BY DEF ProbeInv
<1> QED
  BY <1>1, ProbeInvariant, PTL

\* A call of measure() with no more requests than message ids never takes a late
\* or repeated response of its own call for the one it waits for, although the
\* id wraps: for every length of the call and the code's 65536 ids.
THEOREM OwnResponseWithinCall == ProbeSpec => []OwnWithinCall
<1>1. ProbeInv => OwnWithinCall
  BY DEF ProbeInv
<1> QED
  BY <1>1, ProbeInvariant, PTL

=============================================================================
