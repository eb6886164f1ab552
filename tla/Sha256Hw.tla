------------------------------ MODULE Sha256Hw ------------------------------
(***************************************************************************)
(* edhoc_hash_hw(), the transcript hash on the RP2350's SHA-256 block.     *)
(* libedhoc calls it with the handlers' mutex held, one call at a time, so *)
(* that a call is a function of its arguments, of the driver's one session *)
(* and of the driver calls that fail.                                      *)
(***************************************************************************)
EXTENDS Naturals

DIGEST == 32

\* The arguments a call accepts.
valid(a) == /\ a.input # "NULL" /\ a.input_len # 0
            /\ a.hash # "NULL" /\ a.hash_size >= DIGEST
            /\ a.hash_len # "NULL"

\* What a call returns, and whether the driver's session is taken after it.
Returns(code, session) == [ret |-> code, session |-> session]

\* The driver refuses a second session; fails is the set of driver calls that fail.
begin_session_ok(session, fails) == ~ session /\ "begin" \notin fails

\* Mutant: an error of the computation returns before the session is freed.
hash_session_early_return(fails) ==
    IF "compute" \in fails THEN Returns("CRYPTO_FAILURE", TRUE)
                           ELSE Returns("SUCCESS", "free" \in fails)

\* hash_compute() with the session open, then hash_free_session() whatever the
\* result.  That the latter fails, and leaves the session taken, goes unnoticed.
hash_session(fails) ==
    Returns(IF "compute" \in fails THEN "CRYPTO_FAILURE" ELSE "SUCCESS", "free" \in fails)

edhoc_hash_hw(a, ready, session, fails) ==
    IF ~ valid(a) THEN Returns("INVALID_ARGUMENT", session)
    ELSE IF ~ ready \/ ~ begin_session_ok(session, fails)
      THEN Returns("CRYPTO_FAILURE", session)
    ELSE hash_session(fails)

=============================================================================
