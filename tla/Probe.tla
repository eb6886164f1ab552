------------------------------- MODULE Probe -------------------------------
(***************************************************************************)
(* The two latency probes on a socket of their own: measure() of           *)
(* scripts/coap_latency.py, and bench_endpoint() of the OSCORE client.     *)
(* Both are called once for each message type and resource, on one socket, *)
(* and time a fixed number of requests behind a few untimed ones.          *)
(* measure() reads datagrams until one has the request's message id or the *)
(* socket gives up; bench_endpoint() takes the next one, and counts a loss *)
(* if it does not decrypt.                                                 *)
(*                                                                         *)
(* The link loses, duplicates, delays and reorders.  The server answers    *)
(* every copy of a request that it receives.  A datagram carries the       *)
(* request it belongs to, as history; measure() only sees the id.          *)
(***************************************************************************)
EXTENDS Integers, Sequences

CONSTANTS
    Tools,          \* the probes considered: "measure", "bench_endpoint"
    Cases,          \* message type of the requests of each call
    Count, Warmup,  \* timed and untimed requests of a call
    IdSpace,        \* number of message ids; 65536 in the code
    MaxDups         \* bound: duplications on the link

ASSUME CasesAssumption == Cases \in Seq({"CON", "NON"}) /\ Len(Cases) > 0
ASSUME ProbeAssumption == /\ Tools \subseteq {"measure", "bench_endpoint"}
                          /\ Count \in Nat /\ Warmup \in Nat
                          /\ IdSpace \in Nat \ {0} /\ MaxDups \in Nat

VARIABLES
    tool,           \* the probe that runs
    call,           \* index of its call of measure() or bench_endpoint()
    i,              \* its loop variable
    mid,            \* the message id
    pc,             \* "start", "send", "recv", "report" or "exit"
    rtts,           \* the samples of this call: the response that ended each
    losses,
    toDev, toHost,  \* datagrams on the link
    dups

probeVars == <<tool, call, i, mid, pc, rtts, losses, toDev, toHost, dups>>

Total == Count + Warmup
Ids   == 0..(IdSpace - 1)

-----------------------------------------------------------------------------
(***************************************************************************)
(* measure() and bench_endpoint().                                         *)
(***************************************************************************)

\* No samples, no losses; measure() draws a random message id.
Start ==
    /\ pc = "start"
    /\ mid' \in IF tool = "measure" THEN Ids ELSE {mid}
    /\ i' = 0 /\ rtts' = <<>> /\ losses' = 0
    /\ pc' = IF Total = 0 THEN "report" ELSE "send"
    /\ UNCHANGED <<tool, call, toDev, toHost, dups>>

\* Mutant: every request of a call has the same message id.
next_mid_same == mid

\* Mutant: the message id is not masked to its width.
next_mid_unmasked == mid + 1

next_mid == (mid + 1) % IdSpace

\* Mutant: warmup requests that time out count as losses.
counted_always == TRUE

\* The requests behind the warmup count.
counted == i >= Warmup

\* The end of the loop body: a sample, or a loss.
Conclude(sample) ==
    /\ rtts' = IF counted THEN rtts \o sample ELSE rtts
    /\ losses' = IF counted /\ sample = <<>> THEN losses + 1 ELSE losses
    /\ i' = i + 1
    /\ pc' = IF i + 1 = Total THEN "report" ELSE "send"

\* build_request(), oscore_request(): the latter are all confirmable.
request == [type |-> IF tool = "measure" THEN Cases[call] ELSE "CON",
            mid |-> next_mid, of |-> <<call, i>>]

Send ==
    /\ pc = "send"
    /\ mid' = next_mid
    /\ toDev' = toDev \cup {request}
    /\ pc' = "recv"
    /\ UNCHANGED <<tool, call, i, rtts, losses, toHost, dups>>

\* send() fails: the request counts as lost.
SendFails ==
    /\ pc = "send"
    /\ mid' = next_mid
    /\ Conclude(<<>>)
    /\ UNCHANGED <<tool, call, toDev, toHost, dups>>

\* A copy of d stays on the link, or not.
Copies(d, keep) == IF keep THEN {d} ELSE {}
Duplicates(keep) == keep => dups < MaxDups
CountDups(keep) == dups' = IF keep THEN dups + 1 ELSE dups

\* Whether the datagram ends the wait, and what the wait is then worth: a
\* response to another request may or may not decrypt.
ends_wait(d) == tool = "measure" => d.mid = mid
is_sample(d) == IF tool = "measure" \/ d.of = <<call, i>> THEN {TRUE} ELSE BOOLEAN

Recv(d, keep) ==
    /\ pc = "recv" /\ Duplicates(keep)
    /\ toHost' = (toHost \ {d}) \cup Copies(d, keep)
    /\ CountDups(keep)
    /\ IF ends_wait(d)
         THEN \E good \in is_sample(d) :
                 Conclude(IF good THEN <<[own |-> <<call, i>>, of |-> d.of]>> ELSE <<>>)
         ELSE UNCHANGED <<i, pc, rtts, losses>>
    /\ UNCHANGED <<tool, call, mid, toDev>>

\* Mutant: the socket has no timeout.
recv_gives_up_never == FALSE

\* settimeout(), SO_RCVTIMEO: every recv() is bounded, whatever is under way.
recv_gives_up == pc = "recv"

Timeout ==
    /\ recv_gives_up
    /\ Conclude(<<>>)
    /\ UNCHANGED <<tool, call, mid, toDev, toHost, dups>>

\* report(), and the next case or the end.
Report ==
    /\ pc = "report"
    /\ IF call < Len(Cases) THEN call' = call + 1 /\ pc' = "start"
                            ELSE call' = call /\ pc' = "exit"
    /\ UNCHANGED <<tool, i, mid, rtts, losses, toDev, toHost, dups>>

-----------------------------------------------------------------------------
(***************************************************************************)
(* The server and the link.                                                *)
(***************************************************************************)

\* build_hello(), build_led_get(), build_led_put(): every response is an ACK.
Answer(d) == [type |-> "ACK", mid |-> d.mid, of |-> d.of]

Serve(d, keep) ==
    /\ Duplicates(keep)
    /\ toDev' = (toDev \ {d}) \cup Copies(d, keep)
    /\ toHost' = toHost \cup {Answer(d)}
    /\ CountDups(keep)
    /\ UNCHANGED <<tool, call, i, mid, pc, rtts, losses>>

Lose(d) ==
    /\ toDev' = toDev \ {d}
    /\ toHost' = toHost \ {d}
    /\ UNCHANGED <<tool, call, i, mid, pc, rtts, losses, dups>>

ProbeInit ==
    /\ tool \in Tools
    /\ call = 1 /\ i = 0 /\ mid = 0 /\ pc = "start"
    /\ rtts = <<>> /\ losses = 0
    /\ toDev = {} /\ toHost = {} /\ dups = 0

ProbeStep == Start \/ Send \/ SendFails \/ Timeout \/ Report

ProbeNext ==
    \/ ProbeStep
    \/ \E keep \in BOOLEAN : \/ \E d \in toHost : Recv(d, keep)
                             \/ \E d \in toDev : Serve(d, keep)
    \/ \E d \in toDev \cup toHost : Lose(d)

\* The probe runs, and a recv() that nothing ends times out.
ProbeSpec == ProbeInit /\ [][ProbeNext]_probeVars /\ WF_probeVars(ProbeStep)

-----------------------------------------------------------------------------
(***************************************************************************)
(* Properties.                                                             *)
(***************************************************************************)
Exchange == (1..Len(Cases)) \X (0..(Total - 1))
Datagram(types) == [type : types, mid : Ids, of : Exchange]

\* The values the probe's variables range over: the message id has 16 bits, and
\* what the probe holds belongs to exchanges of its calls.
ProbeTypeOK ==
    /\ tool \in Tools /\ call \in 1..Len(Cases) /\ i \in 0..Total /\ mid \in Ids
    /\ pc \in {"start", "send", "recv", "report", "exit"}
    /\ dups \in 0..MaxDups
    /\ toDev \subseteq Datagram({"CON", "NON"})
    /\ toHost \subseteq Datagram({"CON", "NON", "ACK"})
    /\ rtts \in Seq([own : Exchange, of : Exchange]) /\ losses \in Nat

\* Every request behind the warmup is either a sample or a loss, and no other is:
\* whatever is lost, late or duplicated, the two add up to the requests made.
SamplesAddUp ==
    pc # "start" => Len(rtts) + losses = IF i > Warmup THEN i - Warmup ELSE 0

\* Within a call of measure() whose requests fit the message ids, a sample never
\* ends with the response to another request, however late or often the
\* responses to the earlier ones come: the id that wraps is never met again.
\* (A late response of the call before may have an id that this call drew anew.)
OwnWithinCall ==
    tool = "measure" /\ Total <= IdSpace =>
        \A k \in 1..Len(rtts) : rtts[k].of[1] = rtts[k].own[1] => rtts[k].of = rtts[k].own

\* Where the loop stands, and the id of each datagram of this call: as far
\* behind the current one as its request is behind the current request.
Behind(d, n) == d.of[2] <= n /\ d.mid + (n - d.of[2]) \in {mid, mid + IdSpace}

IdsInStep ==
    /\ pc \in {"send", "recv"} => i < Total
    /\ \A d \in toDev \cup toHost :
          /\ d.of[1] <= call
          /\ pc = "start" => d.of[1] < call
          /\ tool = "measure" /\ Total <= IdSpace /\ d.of[1] = call =>
                /\ pc = "recv" => Behind(d, i)
                /\ pc = "send" => Behind(d, i - 1)

\* The inductive invariant of the probe.
ProbeInv == ProbeTypeOK /\ SamplesAddUp /\ IdsInStep /\ OwnWithinCall

\* coap_latency.py on the message types it measures: "NON (Non-confirmable):
\* request answered by a NON response."
NonAnsweredByNon ==
    tool = "measure" => \A d \in toHost : Cases[d.of[1]] = "NON" => d.type = "NON"

\* The measurement comes to its end on every link, a dead one included.
ProbeEnds == <>(pc = "exit")

=============================================================================
