----------------------------- MODULE HostClient -----------------------------
(***************************************************************************)
(* The host client, host_client/src/client.cpp: each execution r runs the  *)
(* EDHOC initiator with an ephemeral key of its own, then sends a script   *)
(* of OSCORE requests.  It blocks only in recv(), so a step of it reaches  *)
(* from one recv() to the next.  It takes whatever datagram its socket     *)
(* holds for the answer: neither message id nor token is compared.         *)
(***************************************************************************)
EXTENDS Messages

CONSTANTS Script        \* the requests sent, in order

ASSUME ScriptAssumption == Script \in Seq([code : STRING, path : STRING, payload : Seq(STRING)])

Run == 1..Len(Script)           \* positions in the script

VARIABLES
    c_pc,       \* where execution r stands
    c_y,        \* the responder key of its EDHOC context, 0 before message_2
    c_i,        \* the requests of the script it has begun
    c_ssn,      \* its OSCORE sender sequence number: the next PIV
    c_res,      \* how each request ended
    toDev,      \* datagrams on the way to the device
    toHost      \* datagrams in, or on the way to, the socket of r

clientVars == <<c_pc, c_y, c_i, c_ssn, c_res>>
linkVars   == <<toDev, toHost>>

Pc == {"idle", "wait2", "wait4", "ready", "wait_rsp", "done", "failed"}

\* How a request ended: with the response to it ("own"), with some other
\* datagram, or with none; the PIV that the datagram answers; and whether
\* oscore2coap() decrypted it.
Outcome(by, piv, ok) == [by |-> by, piv |-> piv, ok |-> ok]
Unanswered == Outcome("none", 0, FALSE)

Closed(r) == c_pc[r] \in {"idle", "done", "failed"}

-----------------------------------------------------------------------------
\* send() on the socket of r, and a recv() that returned m.
Post(m)       == toDev' = toDev \cup {m}
Consumed(r, m) == toHost' = [toHost EXCEPT ![r] = @ \ {m}]

\* Exit of the process: the socket goes with what it still holds.
Exit(r, how) ==
    /\ c_pc' = [c_pc EXCEPT ![r] = how]
    /\ toHost' = [toHost EXCEPT ![r] = {}]

\* main() up to the first recv(): message_1 behind CBOR true.
SendMessage1(r) ==
    /\ c_pc[r] = "idle"
    /\ c_pc' = [c_pc EXCEPT ![r] = "wait2"]
    /\ Post(Message1(r))
    /\ UNCHANGED <<c_y, c_i, c_ssn, c_res, toHost>>

\* edhoc_message_2_process() and the credential callback.
message_2_accepted(r, m) ==
    /\ m.type = "message_2"
    /\ m.x = r
    /\ cred_verify(m.id_cred, ED_KID_R)

\* message_2 accepted: message_3 behind the CBOR-encoded C_R.
RecvMessage2(r, m) ==
    /\ c_pc[r] = "wait2"
    /\ message_2_accepted(r, m)
    /\ c_y' = [c_y EXCEPT ![r] = m.y]
    /\ c_pc' = [c_pc EXCEPT ![r] = "wait4"]
    /\ Consumed(r, m)
    /\ Post(Message3(r, m.y, ED_KID_I))
    /\ UNCHANGED <<c_i, c_ssn, c_res>>

\* Mutant: any reply to message_3 completes the handshake.
message_4_accepted_any(r, m) == TRUE

\* edhoc_message_4_process(): readable in this run.
message_4_accepted(r, m) == m = Message4(r, c_y[r])

\* message_4 accepted: export the session and stand up the OSCORE context.
RecvMessage4(r, m) ==
    /\ c_pc[r] = "wait4"
    /\ message_4_accepted(r, m)
    /\ c_pc' = [c_pc EXCEPT ![r] = "ready"]
    /\ Consumed(r, m)
    /\ UNCHANGED <<c_y, c_i, c_ssn, c_res, toDev>>

\* A reply that message_2_process() or message_4_process() refuses ends the run.
RecvUnusable(r, m) ==
    /\ \/ c_pc[r] = "wait2" /\ ~ message_2_accepted(r, m)
       \/ c_pc[r] = "wait4" /\ ~ message_4_accepted(r, m)
    /\ Exit(r, "failed")
    /\ UNCHANGED <<c_y, c_i, c_ssn, c_res, toDev>>

\* A local failure: setup, composing message_1 or message_3, send(), export,
\* context init.
HandshakeFails(r) ==
    /\ c_pc[r] \in {"idle", "wait2", "wait4"}
    /\ Exit(r, "failed")
    /\ UNCHANGED <<c_y, c_i, c_ssn, c_res, toDev>>

-----------------------------------------------------------------------------
Key(r) == <<r, c_y[r]>>

\* oscore_request() up to recv(); coap2oscore() takes the next partial IV.
SendRequest(r) ==
    /\ c_pc[r] = "ready"
    /\ c_i[r] < Len(Script)
    /\ c_pc' = [c_pc EXCEPT ![r] = "wait_rsp"]
    /\ c_i' = [c_i EXCEPT ![r] = @ + 1]
    /\ c_ssn' = [c_ssn EXCEPT ![r] = @ + 1]
    /\ Post(Protected(Key(r), c_ssn[r], Script[c_i[r] + 1]))
    /\ UNCHANGED <<c_y, c_res, toHost>>

\* Mutant: a request that could not be sent is tried again, under a new PIV.
SendRequestFails_retry(r) ==
    /\ c_pc[r] = "ready"
    /\ c_i[r] < Len(Script)
    /\ c_ssn' \in {c_ssn, [c_ssn EXCEPT ![r] = @ + 1]}
    /\ UNCHANGED <<c_pc, c_y, c_i, c_res, toDev, toHost>>

\* coap2oscore() or send() fails, with or without a PIV used up: the script
\* goes on with its next request.
SendRequestFails(r) ==
    /\ c_pc[r] = "ready"
    /\ c_i[r] < Len(Script)
    /\ c_i' = [c_i EXCEPT ![r] = @ + 1]
    /\ c_ssn' \in {c_ssn, [c_ssn EXCEPT ![r] = @ + 1]}
    /\ UNCHANGED <<c_pc, c_y, c_res, toDev, toHost>>

\* m is the response to the request that r waits for.
Awaited(r, m) == m.type = "answer" /\ m.key = Key(r) /\ m.piv = c_ssn[r] - 1

\* Mutant: whatever arrives is taken for a good response.
decrypts_any(r, m) == {TRUE}

\* oscore2coap(): never without this session's keys; a response to an earlier
\* request may or may not decrypt, as the library keeps the request's nonce.
decrypts(r, m) ==
    IF m.type # "answer" \/ m.key # Key(r) THEN {FALSE}
    ELSE IF Awaited(r, m) THEN {TRUE} ELSE BOOLEAN

RecvResponse(r, m) ==
    /\ c_pc[r] = "wait_rsp"
    /\ c_pc' = [c_pc EXCEPT ![r] = "ready"]
    /\ \E ok \in decrypts(r, m) :
         c_res' = [c_res EXCEPT ![r][c_i[r]] =
                      Outcome(IF Awaited(r, m) THEN "own" ELSE "other",
                              IF m.type = "answer" THEN m.piv ELSE 0, ok)]
    /\ Consumed(r, m)
    /\ UNCHANGED <<c_y, c_i, c_ssn, toDev>>

\* Mutant: recv() without SO_RCVTIMEO.
recv_timeout_never(r) == FALSE

\* recv() gives up: in the handshake the process exits, later the script goes on.
recv_timeout(r) ==
    \/ /\ c_pc[r] \in {"wait2", "wait4"}
       /\ Exit(r, "failed")
       /\ UNCHANGED <<c_y, c_i, c_ssn, c_res, toDev>>
    \/ /\ c_pc[r] = "wait_rsp"
       /\ c_pc' = [c_pc EXCEPT ![r] = "ready"]
       /\ UNCHANGED <<c_y, c_i, c_ssn, c_res, toDev, toHost>>

\* The end of the script: close(sock).
Finish(r) ==
    /\ c_pc[r] = "ready"
    /\ c_i[r] = Len(Script)
    /\ Exit(r, "done")
    /\ UNCHANGED <<c_y, c_i, c_ssn, c_res, toDev>>

ClientInit ==
    /\ c_pc = [r \in GX |-> "idle"]
    /\ c_y = [r \in GX |-> 0]
    /\ c_i = [r \in GX |-> 0]
    /\ c_ssn = [r \in GX |-> 0]
    /\ c_res = [r \in GX |-> [i \in Run |-> Unanswered]]
    /\ toDev = {}
    /\ toHost = [r \in GX |-> {}]

=============================================================================
