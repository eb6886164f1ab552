--------------------------- MODULE SecureSession ---------------------------
(***************************************************************************)
(* What the EDHOC + OSCORE build promises, without messages: the device    *)
(* has at most one session; a session is made once, used by the host run   *)
(* it was made with, and each of its requests runs at most once, only      *)
(* while it is the device's session; what a host takes for an answer was   *)
(* run.                                                                    *)
(***************************************************************************)
CONSTANTS HostRun, Keys, Number, None   \* Keys: pairs, the first a HostRun

VARIABLES
    dev,        \* the device's session, or None
    made,       \* how often the device was given each session
    host,       \* the session of each host run, or None
    ran,        \* how often each request of each session ran
    answered    \* the requests a host run has an answer to

vars == <<dev, made, host, ran, answered>>

Init ==
    /\ dev = None
    /\ made = [s \in Keys |-> 0]
    /\ host = [r \in HostRun |-> None]
    /\ ran = [s \in Keys |-> [n \in Number |-> 0]]
    /\ answered = {}

\* The device completes a handshake: the session is new.
Install(s) ==
    /\ dev = None
    /\ made[s] = 0
    /\ dev' = s
    /\ made' = [made EXCEPT ![s] = 1]
    /\ UNCHANGED <<host, ran, answered>>

\* A new handshake, or a reboot.
Drop ==
    /\ dev' = None
    /\ UNCHANGED <<made, host, ran, answered>>

\* A host run concludes that it shares s with the device.
Establish(s) ==
    /\ made[s] = 1
    /\ host[s[1]] = None
    /\ host' = [host EXCEPT ![s[1]] = s]
    /\ UNCHANGED <<dev, made, ran, answered>>

\* Request n of the device's session reaches its resource.
Execute(n) ==
    /\ dev # None
    /\ ran[dev][n] = 0
    /\ ran' = [ran EXCEPT ![dev][n] = 1]
    /\ UNCHANGED <<dev, made, host, answered>>

\* A host run accepts an answer to request n of its session.
Accept(r, n) ==
    /\ host[r] # None
    /\ ran[host[r]][n] = 1
    /\ answered' = answered \cup {<<host[r], n>>}
    /\ UNCHANGED <<dev, made, host, ran>>

Next ==
    \/ \E s \in Keys : Install(s) \/ Establish(s)
    \/ Drop
    \/ \E n \in Number : Execute(n)
    \/ \E r \in HostRun, n \in Number : Accept(r, n)

Spec == Init /\ [][Next]_vars

=============================================================================
