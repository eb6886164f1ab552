------------------------------ MODULE CoapCli ------------------------------
(***************************************************************************)
(* Executions of coap_cli.py --dtls against the DTLS build: one handshake, *)
(* retried on failure, one request, one close.  The board holds a session  *)
(* context for each handshake it took part in, from a small pool, until a  *)
(* close_notify arrives or the session has been idle for the DTLS timeout. *)
(* Flights and the close_notify may be lost, so a context outlives its     *)
(* client.                                                                 *)
(***************************************************************************)
EXTENDS Naturals, FiniteSets

CONSTANTS
    Run,            \* executions of the CLI
    Retries,        \* --retries
    MaxContexts     \* session contexts of the board's pool

ASSUME CliAssumption ==
    /\ IsFiniteSet(Run)
    /\ Retries \in Nat \ {0}
    /\ MaxContexts \in Nat

VARIABLES
    pc,             \* "connect", "request", "close" or "exit", per run
    attempt,        \* the attempt of open_transport() it is in
    pool            \* contexts the board holds: a run and its attempt

cliVars == <<pc, attempt, pool>>

Current(r) == <<r, attempt[r]>>
Room == Cardinality(pool) < MaxContexts

-----------------------------------------------------------------------------
\* connect() returns: the handshake completed.
Connect(r) ==
    /\ pc[r] = "connect"
    /\ Room
    /\ pool' = pool \cup {Current(r)}
    /\ pc' = [pc EXCEPT ![r] = "request"]
    /\ UNCHANGED attempt

\* Mutant: one attempt more than asked for.
another_attempt_more(r) == attempt[r] <= Retries

another_attempt(r) == attempt[r] < Retries

\* Mutant: the loop over the attempts does not count.
ConnectFails_uncounted(r, leftover) ==
    /\ pc[r] = "connect"
    /\ leftover => Room
    /\ pool' = IF leftover THEN pool \cup {Current(r)} ELSE pool
    /\ UNCHANGED <<pc, attempt>>

\* connect() raises OSError: a flight was lost, or the board had no context to
\* give.  close_quietly() then closes the socket; leftover says whether the board
\* still holds a context of the attempt once that is done.
ConnectFails(r, leftover) ==
    /\ pc[r] = "connect"
    /\ leftover => Room
    /\ pool' = IF leftover THEN pool \cup {Current(r)} ELSE pool
    /\ IF another_attempt(r)
         THEN attempt' = [attempt EXCEPT ![r] = @ + 1] /\ UNCHANGED pc
         ELSE pc' = [pc EXCEPT ![r] = "exit"] /\ UNCHANGED attempt

\* connect() raises an exception other than OSError, which open_transport() lets
\* through: the execution ends at once, without a retry or a close_quietly().
ConnectRaises(r, leftover) ==
    /\ pc[r] = "connect"
    /\ leftover => Room
    /\ pool' = IF leftover THEN pool \cup {Current(r)} ELSE pool
    /\ pc' = [pc EXCEPT ![r] = "exit"]
    /\ UNCHANGED attempt

\* The response arrives, or the socket times out: both ways lead to finally.
RequestEnds(r) ==
    /\ pc[r] = "request"
    /\ pc' = [pc EXCEPT ![r] = "close"]
    /\ UNCHANGED <<attempt, pool>>

\* close_quietly(): the close_notify may be lost.
Close(r, arrives) ==
    /\ pc[r] = "close"
    /\ pool' = IF arrives THEN pool \ {Current(r)} ELSE pool
    /\ pc' = [pc EXCEPT ![r] = "exit"]
    /\ UNCHANGED attempt

\* A session in use outlasts the client's own timeouts; any other is idle.
idle(s) == ~ (pc[s[1]] \in {"request", "close"} /\ s = Current(s[1]))

AgeOut(s) ==
    /\ idle(s)
    /\ pool' = pool \ {s}
    /\ UNCHANGED <<pc, attempt>>

CliInit ==
    /\ pc = [r \in Run |-> "connect"]
    /\ attempt = [r \in Run |-> 1]
    /\ pool = {}

CliStep(r) ==
    \/ Connect(r)
    \/ \E leftover \in BOOLEAN : ConnectFails(r, leftover) \/ ConnectRaises(r, leftover)
    \/ RequestEnds(r)
    \/ \E arrives \in BOOLEAN : Close(r, arrives)

CliNext == (\E r \in Run : CliStep(r)) \/ (\E s \in pool : AgeOut(s))

\* Every execution runs, with a timeout on each wait; idle sessions age out.
CliFairness ==
    /\ \A r \in Run : WF_cliVars(CliStep(r))
    /\ WF_cliVars(\E s \in pool : AgeOut(s))

CliSpec == CliInit /\ [][CliNext]_cliVars /\ CliFairness

-----------------------------------------------------------------------------
(***************************************************************************)
(* Properties.                                                             *)
(***************************************************************************)

\* The values the CLI and the pool range over; the board gives no context twice
\* and none that it does not have.
CliTypeOK ==
    /\ pc \in [Run -> {"connect", "request", "close", "exit"}]
    /\ attempt \in [Run -> 1..Retries]
    /\ pool \subseteq Run \X (1..Retries)
    /\ Cardinality(pool) <= MaxContexts

\* The contexts that a run's own failed attempts left behind never fill the pool
\* while it still has an attempt to make, provided the pool has as many as the
\* run has attempts: what keeps a retry out is another client, never the retry.
RetryFindsRoom ==
    Retries <= MaxContexts =>
        \A r \in Run : pc[r] = "connect" =>
            Cardinality({s \in pool : s[1] = r}) < MaxContexts

\* Every execution ends, served or not, and the pool is whole again.
PoolDrains == <>[](pool = {} /\ \A r \in Run : pc[r] = "exit")

=============================================================================
