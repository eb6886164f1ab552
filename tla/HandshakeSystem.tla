-------------------------- MODULE HandshakeSystem --------------------------
(***************************************************************************)
(* The device and the executions of the host client over the USB-NCM link. *)
(* UDP may lose, duplicate, delay and reorder.  Whatever the outside world *)
(* does to disturb the exchange is counted in faults and bounded by        *)
(* MaxFaults: a datagram lost or delivered twice, a handler or client      *)
(* stage that fails, a reboot, and a recv() timeout that fires although an *)
(* answer is still to come.                                                *)
(***************************************************************************)
EXTENDS EdhocOscore, HostClient

CONSTANTS MaxFaults

ASSUME FaultsAssumption  == MaxFaults \in Nat
ASSUME ScriptRequests    == \A i \in Run : Script[i] \in Request /\ i - 1 \in Piv

VARIABLE faults

systemVars == <<deviceVars, clientVars, linkVars, faults>>

\* The client execution that sent m, and gets the reply.
Sender(m) == IF m.type = "protected" THEN m.key[1] ELSE m.x

\* Something of r is still on its way: its timeout would be premature.
InFlight(r) == toHost[r] # {} \/ \E m \in toDev : Sender(m) = r

Undisturbed == UNCHANGED faults
Disturbed   == faults < MaxFaults /\ faults' = faults + 1

-----------------------------------------------------------------------------
(***************************************************************************)
(* The link.                                                               *)
(***************************************************************************)

\* A reply reaches its socket, if the execution is still there.
Return(r, reply) ==
    toHost' = IF Closed(r) THEN toHost ELSE [toHost EXCEPT ![r] = @ \cup reply]

\* The CoAP server thread takes m off the link and runs its handler.
Handle(m, fail) ==
    \/ /\ m.type \in {"message_1", "message_3"}
       /\ edhoc_post(m, fail)
       /\ Return(Sender(m), edhoc_reply(m, fail))
    \/ /\ m.type = "protected"
       /\ oscore_post(m, fail)
       /\ Return(Sender(m), oscore_reply(m, fail))

Deliver(m) ==
    /\ Handle(m, "none")
    /\ toDev' = toDev \ {m}
    /\ Undisturbed
    /\ UNCHANGED clientVars

\* The datagram is processed, and a copy of it is still on the link.
DeliverTwice(m) ==
    /\ Handle(m, "none")
    /\ Disturbed
    /\ UNCHANGED <<toDev, clientVars>>

\* A stage of the handler fails.
DeliverFails(m) ==
    /\ \E fail \in (Message1Stage \cup Message3Stage \cup RootStage) \ {"none"} : Handle(m, fail)
    /\ toDev' = toDev \ {m}
    /\ Disturbed
    /\ UNCHANGED clientVars

LoseToDev(m) ==
    /\ toDev' = toDev \ {m}
    /\ Disturbed
    /\ UNCHANGED <<deviceVars, clientVars, toHost>>

LoseToHost(r, m) ==
    /\ toHost' = [toHost EXCEPT ![r] = @ \ {m}]
    /\ Disturbed
    /\ UNCHANGED <<deviceVars, clientVars, toDev>>

PowerCycle == Reboot /\ Disturbed /\ UNCHANGED <<clientVars, linkVars>>

-----------------------------------------------------------------------------
(***************************************************************************)
(* The client.                                                             *)
(***************************************************************************)
Receive(r) ==
    \E m \in toHost[r] : \/ RecvMessage2(r, m)
                         \/ RecvMessage4(r, m)
                         \/ RecvUnusable(r, m)
                         \/ RecvResponse(r, m)

ClientStep(r) ==
    /\ Receive(r) \/ SendRequest(r) \/ Finish(r)
    /\ Undisturbed
    /\ UNCHANGED deviceVars

Start(r) == SendMessage1(r) /\ Undisturbed /\ UNCHANGED deviceVars

ClientFails(r) ==
    /\ HandshakeFails(r) \/ SendRequestFails(r)
    /\ Disturbed
    /\ UNCHANGED deviceVars

Timeout(r) ==
    /\ recv_timeout(r)
    /\ ~ InFlight(r)
    /\ Undisturbed
    /\ UNCHANGED deviceVars

EarlyTimeout(r) ==
    /\ recv_timeout(r)
    /\ InFlight(r)
    /\ Disturbed
    /\ UNCHANGED deviceVars

-----------------------------------------------------------------------------
SystemInit == DeviceInit /\ ClientInit /\ faults = 0

SystemNext ==
    \/ \E m \in toDev : Deliver(m) \/ DeliverTwice(m) \/ DeliverFails(m) \/ LoseToDev(m)
    \/ \E r \in GX : \/ \E m \in toHost[r] : LoseToHost(r, m)
                     \/ Start(r) \/ ClientStep(r) \/ ClientFails(r)
                     \/ Timeout(r) \/ EarlyTimeout(r)
    \/ PowerCycle

SystemSpec == SystemInit /\ [][SystemNext]_systemVars

\* The link and the server thread keep going, a started client does not stop
\* by itself, and SO_RCVTIMEO fires when nothing comes.
FairSystemSpec ==
    /\ SystemSpec
    /\ WF_systemVars(\E m \in toDev : Deliver(m))
    /\ \A r \in GX : WF_systemVars(ClientStep(r)) /\ WF_systemVars(Timeout(r))

-----------------------------------------------------------------------------
(***************************************************************************)
(* Properties.                                                             *)
(***************************************************************************)
Secured(r) == c_pc[r] \in {"ready", "wait_rsp", "done"}

\* The values the variables of the client and the link range over.
SystemTypeOK ==
    /\ DeviceTypeOK
    /\ c_pc \in [GX -> Pc]
    /\ c_y \in [GX -> 0..MaxDraws]
    /\ c_i \in [GX -> 0..Len(Script)]
    /\ c_ssn \in [GX -> 0..Len(Script)] /\ \A r \in GX : c_ssn[r] <= c_i[r]
    /\ c_res \in [GX -> [Run -> [by : {"none", "own", "other"}, piv : Piv, ok : BOOLEAN]]]
    /\ toHost = [r \in GX |-> toHost[r]]
    /\ faults \in 0..MaxFaults

\* Injective agreement.  A session the device serves is one whose client run
\* sent the matching message_3, and a client run that went on to OSCORE does
\* so on a session that the device installed exactly once.
Agreement ==
    /\ oscore_ready => /\ c_pc[oscore_ctx[1]] \notin {"idle", "wait2"}
                       /\ c_y[oscore_ctx[1]] = oscore_ctx[2]
    /\ \A r \in GX : Secured(r) => installed[Key(r)] = 1

\* The outcome of the i-th request of execution r: its own response always
\* decrypts, and a response that decrypts is that of a request which this
\* execution sent, no later than the i-th, and which ran exactly once.
HonestOutcome(r, i) ==
    /\ c_res[r][i].by = "own" => c_res[r][i].ok
    /\ c_res[r][i].ok => /\ c_res[r][i].piv < i /\ c_res[r][i].piv < c_ssn[r]
                         /\ dispatched[Key(r)][c_res[r][i].piv] = 1

\* A request that ended with its own response was executed exactly once.  Any
\* other response that oscore_request() accepts shows the same of the request
\* it answers, which after a timeout is an earlier one of the run: it says
\* nothing of the request that it ends (see OwnResponse).
AnsweredWasDispatched == \A r \in GX, i \in Run : HonestOutcome(r, i)

\* On the way to the device: a message_3 is the one that answers the only
\* message_2 its sender accepted, a request has a PIV that its sender used.
GenuineToDev(m) ==
    \/ \E r \in GX : m = Message1(r)
    \/ \E r \in GX : /\ m = Message3(r, c_y[r], ED_KID_I)
                     /\ c_y[r] \in GY /\ c_pc[r] \notin {"idle", "wait2"}
    \/ \E r \in GX, i \in Run, n \in Piv :
          m = Protected(Key(r), n, Script[i]) /\ n < c_ssn[r] /\ Secured(r)

\* On the way back: message_2 with a key that was drawn, message_4 of a session
\* that was installed, an answer to a request of this run that was executed.
GenuineToHost(r, m) ==
    \/ \E y \in 1..drawn : m = Message2(r, y)
    \/ \E y \in GY : m = Message4(r, y) /\ installed[<<r, y>>] = 1
    \/ /\ m.type = "answer" /\ m.key = Key(r) /\ Secured(r)
       /\ m.piv \in Piv /\ m.piv < c_ssn[r] /\ dispatched[Key(r)][m.piv] = 1

\* Every datagram in flight is genuine: in particular the device confirms a
\* handshake with message_4 only once its session is installed, however the
\* derivation fails, and answers no request that did not run.
FlightSound ==
    /\ \A m \in toDev : GenuineToDev(m)
    /\ \A r \in GX : \A m \in toHost[r] : GenuineToHost(r, m)

\* What a client execution knows at each point: from wait4 on it has the
\* responder's key, it waits for a response only within the script, and its
\* good outcomes are of requests that it has finished.
ClientSound ==
    \A r \in GX :
        /\ c_pc[r] = "wait4" \/ Secured(r) => c_y[r] \in GY
        /\ c_pc[r] = "wait_rsp" => c_i[r] \in Run
        /\ \A i \in Run : c_res[r][i].ok =>
              Secured(r) /\ i <= c_i[r] /\ (c_pc[r] = "wait_rsp" => i < c_i[r])

\* The inductive invariant of the two programs on the link.
SystemInv ==
    /\ DeviceInv
    /\ SystemTypeOK
    /\ ClientSound
    /\ FlightSound
    /\ Agreement
    /\ AnsweredWasDispatched

\* Once started, an execution of the client ends: no loss, no dead device and
\* no unexpected datagram leaves it waiting for ever.
EveryRunEnds == \A r \in GX : c_pc[r] = "wait2" ~> c_pc[r] \in {"done", "failed"}

\* Nothing that happened before leaves the device stuck: once the disturbances
\* are over, a run that starts alone on a clean link is served to the end,
\* every request answered by its own response (unless another run starts).
Alone(r) == \A q \in GX \ {r} : Closed(q)
CleanStart(r) == /\ c_pc[r] = "wait2"
                 /\ toDev = {Message1(r)}
                 /\ toHost[r] = {}
                 /\ faults = MaxFaults
Served(r) == /\ c_pc[r] = "done"
             /\ \A i \in Run : c_res[r][i].by = "own" /\ c_res[r][i].ok

NeverWedged ==
    \A r \in GX : CleanStart(r) /\ Alone(r) ~> Served(r) \/ ~ Alone(r)

\* client.cpp on oscore_request(): rtt_ms is "the wire round-trip
\* (just-before-send .. datagram-received)", "comparable to the plaintext/DTLS
\* probe in scripts/coap_latency.py": the datagram that ends a round trip is
\* the response to the request that began it.
OwnResponse ==
    \A r \in GX : \A i \in Run : c_res[r][i].by # "other"

-----------------------------------------------------------------------------
(***************************************************************************)
(* Refinement: the system implements SecureSession.                        *)
(***************************************************************************)
DevSession == IF oscore_ready THEN oscore_ctx ELSE NoSession
HostSession == [r \in GX |-> IF Secured(r) THEN Key(r) ELSE NoSession]
AnsweredBy == {<<Key(q[1]), c_res[q[1]][q[2]].piv>> :
                  q \in {p \in GX \X Run : c_res[p[1]][p[2]].ok}}

Abstract == INSTANCE SecureSession WITH
    HostRun  <- GX,
    Keys     <- Session,
    Number   <- Piv,
    None     <- NoSession,
    dev      <- DevSession,
    made     <- installed,
    host     <- HostSession,
    ran      <- dispatched,
    answered <- AnsweredBy

\* What the two programs do together, over a faulty link, is what the abstract
\* specification of a secure session allows.
ImplementsSecureSession == Abstract!Spec

=============================================================================
