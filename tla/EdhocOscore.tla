---------------------------- MODULE EdhocOscore ----------------------------
(***************************************************************************)
(* The device side of the secure build, edhoc_oscore.c: the EDHOC          *)
(* responder behind POST /.well-known/edhoc and the OSCORE intercept       *)
(* behind POST /.  The CoAP server runs the handlers on one thread, one    *)
(* datagram at a time, so each handler is one action, whatever stage of it *)
(* fails (parameter fail).                                                 *)
(*                                                                         *)
(* In DeviceSpec the environment may send anything, at any time, any       *)
(* number of times: lost, duplicated, delayed and reordered datagrams are  *)
(* all among its behaviours.                                               *)
(***************************************************************************)
EXTENDS CoapServer, Messages

CONSTANTS
    Kid,            \* kids under which peers present credentials
    Piv,            \* partial IVs of OSCORE requests
    REPLAY_WINDOW   \* width of the replay window

ASSUME PeersAssumption  == ED_KID_I \in Kid /\ Kid \subseteq Byte
ASSUME PivAssumption    == Piv \subseteq Nat
ASSUME WindowAssumption == REPLAY_WINDOW \in Nat \ {0}

VARIABLES
    edhoc_ctx,          \* the run the EDHOC context is in
    edhoc_ctx_active,   \* message_1 answered, message_3 pending
    exported,           \* the run the file-scope key and id buffers belong to
    oscore_ctx,         \* the session of the OSCORE context
    oscore_ready,       \* it is usable
    replay,             \* the PIVs its replay window refuses
    \* History: not in the code.
    drawn,              \* responder ephemeral keys drawn so far
    held,               \* EDHOC contexts whose keys and key slots are not released
    installed,          \* how often a session was installed
    dispatched          \* how often a protected request reached a resource

edhocVars  == <<edhoc_ctx, edhoc_ctx_active, drawn, held>>
oscoreVars == <<exported, oscore_ctx, oscore_ready, replay, installed>>
deviceVars == <<edhocVars, oscoreVars, dispatched, ledVars>>

-----------------------------------------------------------------------------
(***************************************************************************)
(* What may arrive, and the stages at which a handler may fail, in the     *)
(* order it reaches them.                                                  *)
(***************************************************************************)
EdhocPost ==
    {Message1(x) : x \in GX} \cup {Unframed} \cup
    {Message3(x, y, kid) : x \in GX, y \in GY, kid \in Kid}

RootPost ==
    {Protected(key, piv, req) : key \in Session, piv \in Piv, req \in Request} \cup {PlainRoot}

\* The calls that may fail: in edhoc_setup() edhoc_context_init(), or one of the
\* six that set and bind what the context works with; then the two messages.
Message1Stage == {"edhoc_init", "edhoc_bind", "message_1", "message_2"}
Message3Stage == {"message_3", "message_4", "export", "context_init"}
Stage1 == Message1Stage \cup {"send", "none"}
Stage3 == Message3Stage \cup {"send", "none"}
RootStage == {"inner_parse", "coap2oscore", "send", "none"}

-----------------------------------------------------------------------------
(***************************************************************************)
(* POST /.well-known/edhoc.                                                *)
(***************************************************************************)

\* Mutant: a new handshake leaves the previous OSCORE context usable.
drop_session_kept == UNCHANGED oscore_ready

\* A message_1 invalidates the session before anything else can fail.
drop_session == oscore_ready' = FALSE

\* Mutant: the half-finished handshake is overwritten without a deinit.
release_pending_skipped == held

\* edhoc_context_deinit() of the half-finished handshake a message_1 replaces.
release_pending == IF edhoc_ctx_active THEN held - 1 ELSE held

\* edhoc_setup(), edhoc_message_1_process(), edhoc_message_2_compose().  These
\* last two deinit the context they filled.  A setup that fails does not, even
\* when edhoc_context_init() is done: the ephemeral key is drawn and the static
\* one imported in message_2_compose() only, so such a context holds no key, and
\* the next message_1 initialises it again.
edhoc_message_1(m, fail) ==
    /\ m.type = "message_1"
    /\ fail \in Stage1
    /\ drop_session
    /\ IF fail \in Message1Stage
         THEN /\ edhoc_ctx' = NoSession
              /\ edhoc_ctx_active' = FALSE
              /\ held' = release_pending
              /\ UNCHANGED drawn
         ELSE /\ drawn < MaxDraws
              /\ drawn' = drawn + 1
              /\ held' = release_pending + 1
              /\ edhoc_ctx' = <<m.x, drawn + 1>>
              /\ edhoc_ctx_active' = TRUE
    /\ UNCHANGED <<exported, oscore_ctx, replay, installed, dispatched, ledVars>>

\* edhoc_message_3_process(): readable in this run, from the known peer.
message_3_accepted(m) ==
    /\ <<m.x, m.y>> = edhoc_ctx
    /\ cred_verify(m.id_cred, ED_KID_I)

\* Mutant: the stale context is marked usable even when its init fails.
derive_and_init_oscore_early(fail) ==
    /\ exported' = edhoc_ctx
    /\ oscore_ctx' = IF fail = "context_init" THEN oscore_ctx ELSE edhoc_ctx
    /\ oscore_ready' = TRUE
    /\ replay' = {}
    /\ installed' = [installed EXCEPT ![edhoc_ctx] = @ + 1]

\* Mutant: the replay window of the previous session is kept.
derive_and_init_oscore_old_window(fail) ==
    /\ exported' = edhoc_ctx
    /\ UNCHANGED replay
    /\ IF fail \in Message3Stage
         THEN UNCHANGED <<oscore_ctx, oscore_ready, installed>>
         ELSE /\ oscore_ctx' = edhoc_ctx
              /\ oscore_ready' = TRUE
              /\ installed' = [installed EXCEPT ![edhoc_ctx] = @ + 1]

\* Export into the file-scope buffers, then build the context from them; a
\* failed export leaves them old, new or mixed, a failed init the context.
derive_and_init_oscore(fail) ==
    \/ /\ fail = "export"
       /\ exported' \in {exported, edhoc_ctx, NoSession}
       /\ UNCHANGED <<oscore_ctx, oscore_ready, replay, installed>>
    \/ /\ fail = "context_init"
       /\ exported' = edhoc_ctx
       /\ oscore_ctx' \in {oscore_ctx, NoSession}
       /\ UNCHANGED <<oscore_ready, replay, installed>>
    \/ /\ fail \notin Message3Stage
       /\ exported' = edhoc_ctx
       /\ oscore_ctx' = edhoc_ctx
       /\ oscore_ready' = TRUE
       /\ replay' = {}
       /\ installed' = [installed EXCEPT ![edhoc_ctx] = @ + 1]

\* Mutant: the handshake stays open after message_3.
close_handshake_kept == UNCHANGED <<edhoc_ctx, edhoc_ctx_active, held>>

\* Every message_3 ends the pending handshake, accepted or not.
close_handshake ==
    /\ edhoc_ctx' = NoSession
    /\ edhoc_ctx_active' = FALSE
    /\ held' = held - 1

\* message_3 without a pending handshake.
edhoc_message_3_unexpected(m) ==
    /\ m.type = "message_3"
    /\ ~ edhoc_ctx_active
    /\ UNCHANGED deviceVars

\* A pending handshake whose message_3 or message_4 fails.
edhoc_message_3_refused(m, fail) ==
    /\ m.type = "message_3"
    /\ edhoc_ctx_active
    /\ ~ message_3_accepted(m) \/ fail \in {"message_3", "message_4"}
    /\ close_handshake
    /\ UNCHANGED <<drawn, oscoreVars, dispatched, ledVars>>

\* message_3 accepted and message_4 composed.
edhoc_message_3(m, fail) ==
    /\ m.type = "message_3"
    /\ fail \in Stage3 \ {"message_3", "message_4"}
    /\ edhoc_ctx_active
    /\ message_3_accepted(m)
    /\ derive_and_init_oscore(fail)
    /\ close_handshake
    /\ UNCHANGED <<drawn, dispatched, ledVars>>

\* An empty payload, or a message_3 with a bad C_R prefix.
edhoc_unframed(m) == m.type = "unframed" /\ UNCHANGED deviceVars

edhoc_post(m, fail) ==
    \/ edhoc_message_1(m, fail)
    \/ edhoc_message_3_unexpected(m)
    \/ edhoc_message_3_refused(m, fail)
    \/ edhoc_message_3(m, fail)
    \/ edhoc_unframed(m)

\* Mutant: message_4 goes out before the OSCORE context stands.
edhoc_reply_early(m, fail) ==
    IF m.type = "message_1" /\ fail = "none"
      THEN {Message2(m.x, drawn + 1)}
    ELSE IF /\ m.type = "message_3" /\ fail \in {"export", "context_init", "none"}
            /\ edhoc_ctx_active /\ message_3_accepted(m)
      THEN {Message4(m.x, m.y)}
      ELSE {}

\* What edhoc_post() sends back, evaluated in the state it starts from; any
\* failure is answered with silence.
edhoc_reply(m, fail) ==
    IF m.type = "message_1" /\ fail = "none"
      THEN {Message2(m.x, drawn + 1)}
    ELSE IF /\ m.type = "message_3" /\ fail = "none"
            /\ edhoc_ctx_active /\ message_3_accepted(m)
      THEN {Message4(m.x, m.y)}
      ELSE {}

-----------------------------------------------------------------------------
(***************************************************************************)
(* POST / : OSCORE.                                                        *)
(***************************************************************************)

\* oscore2coap(): made with this session's keys and not refused as a replay.
oscore2coap_ok(m) ==
    /\ m.type = "protected"
    /\ m.key = oscore_ctx
    /\ m.piv \notin replay

\* The PIVs refused once piv was accepted: those seen, and those left of the window.
slide_window(piv) == replay \cup {piv} \cup {q \in Piv : q + REPLAY_WINDOW <= piv}

\* Mutant: the guard on oscore_ready is missing.
session_usable_always == TRUE

session_usable == oscore_ready

\* No session yet, no OSCORE option, keys of another session, or a replay.
oscore_post_refused(m) ==
    /\ ~ session_usable \/ ~ oscore2coap_ok(m)
    /\ UNCHANGED deviceVars

\* The request is authentic and fresh: it runs, even if the response is lost.
oscore_post_accepted(m, fail) ==
    /\ session_usable
    /\ oscore2coap_ok(m)
    /\ fail \in RootStage
    /\ replay' = slide_window(m.piv)
    /\ IF fail = "inner_parse"
         THEN UNCHANGED <<dispatched, ledVars>>
         ELSE /\ dispatched' = [dispatched EXCEPT ![m.key][m.piv] = @ + 1]
              /\ drive_led(m.req)
    /\ UNCHANGED <<edhocVars, exported, oscore_ctx, oscore_ready, installed>>

oscore_post(m, fail) == oscore_post_refused(m) \/ oscore_post_accepted(m, fail)

\* What oscore_post() sends back.  The response is protected with the context's
\* sender key and with the sender id it holds by reference.
oscore_reply(m, fail) ==
    IF ~ session_usable THEN {}
    ELSE IF m.type = "plain_root" THEN {NotFound}
    ELSE IF oscore2coap_ok(m) /\ fail = "none"
      THEN {Answer(IF exported = oscore_ctx THEN oscore_ctx ELSE NoSession, m.piv,
                   coap_server_dispatch_inner(m.req, led_state))}
      ELSE {}

-----------------------------------------------------------------------------
\* The plaintext resources stay reachable beside the protected ones.
plain_request(req) ==
    /\ app_request(req) \/ service_reject(req)
    /\ UNCHANGED <<edhocVars, oscoreVars, dispatched>>

\* Power-on state of the statics; nothing of them is persisted.
PowerOn ==
    /\ edhoc_ctx = NoSession
    /\ edhoc_ctx_active = FALSE
    /\ held = 0
    /\ exported = NoSession
    /\ oscore_ctx = NoSession
    /\ oscore_ready = FALSE
    /\ replay = {}
    /\ led_init

Reboot ==
    /\ edhoc_ctx' = NoSession
    /\ edhoc_ctx_active' = FALSE
    /\ held' = 0
    /\ exported' = NoSession
    /\ oscore_ctx' = NoSession
    /\ oscore_ready' = FALSE
    /\ replay' = {}
    /\ led_state' = 0
    /\ led_pin' = 0
    /\ UNCHANGED <<drawn, installed, dispatched>>

DeviceInit ==
    /\ PowerOn
    /\ drawn = 0
    /\ installed = [s \in Session |-> 0]
    /\ dispatched = [s \in Session |-> [p \in Piv |-> 0]]

DeviceNext ==
    \/ \E m \in EdhocPost, fail \in Stage1 \cup Stage3 : edhoc_post(m, fail)
    \/ \E m \in RootPost, fail \in RootStage : oscore_post(m, fail)
    \/ \E req \in Request : plain_request(req)
    \/ Reboot

DeviceSpec == DeviceInit /\ [][DeviceNext]_deviceVars

-----------------------------------------------------------------------------
(***************************************************************************)
(* Properties.                                                             *)
(***************************************************************************)

\* The values the variables of edhoc_oscore.c and the histories range over.
DeviceTypeOK ==
    /\ edhoc_ctx \in Session \cup {NoSession}
    /\ edhoc_ctx_active \in BOOLEAN
    /\ held \in Nat
    /\ exported \in Session \cup {NoSession}
    /\ oscore_ctx \in Session \cup {NoSession}
    /\ oscore_ready \in BOOLEAN
    /\ replay \subseteq Piv
    /\ drawn \in 0..MaxDraws
    /\ installed \in [Session -> Nat]
    /\ dispatched \in [Session -> [Piv -> Nat]]
    /\ CoapTypeOK

\* Every response the device would send now can be read by the client that
\* asked: the context it is sealed with and the sender id which that context
\* keeps by reference belong to the session of the request.
AnswersReadable ==
    \A m \in RootPost : \A a \in oscore_reply(m, "none") :
        a.type = "answer" => a.key = m.key

\* While oscore_ready is set, the OSCORE context was built from the buffers as
\* they are now: the sender id it keeps by reference is that of the session
\* whose keys it holds, whatever handshakes failed half way since.
ConsistentContext == oscore_ready => oscore_ctx = exported /\ oscore_ctx \in Session

\* A handshake in flight and a usable session exclude each other, so no
\* request is served under keys that a pending message_3 is about to replace.
HandshakeExcludesSession == ~ (edhoc_ctx_active /\ oscore_ready)

\* The keys of one EDHOC run become an OSCORE context at most once: a
\* duplicated or late message_3 cannot install them again with an empty
\* replay window (oscore.conf: "no AEAD nonce reuse").
KeysInstalledOnce == \A s \in Session : installed[s] <= 1

\* A protected request reaches a resource at most once, over every duplicate,
\* handshake, failed response and reboot: one nonce seals one response.
DispatchedAtMostOnce == \A s \in Session, p \in Piv : dispatched[s][p] <= 1

\* The keys of a pending handshake were never used: the responder key is the
\* newest one drawn, no session was made from it, and nothing ran under a
\* session that was not installed.
FreshKeys ==
    /\ edhoc_ctx_active => /\ edhoc_ctx \in Session
                           /\ edhoc_ctx[2] = drawn
                           /\ installed[edhoc_ctx] = 0
    /\ oscore_ready => installed[oscore_ctx] > 0
    /\ \A s \in Session : installed[s] > 0 => s[2] <= drawn
    /\ \A s \in Session, p \in Piv : dispatched[s][p] > 0 => installed[s] > 0

\* The replay window of the usable session refuses whatever ran under it.
WindowCovers ==
    oscore_ready => \A s \in Session, p \in Piv :
                        s = oscore_ctx /\ dispatched[s][p] > 0 => p \in replay

\* Key material is held exactly while a handshake is in flight: whatever stage
\* fails, is repeated or abandoned, each context that imported the static key
\* into a key slot and drew an ephemeral one is released before the next.
KeysReleased == held = IF edhoc_ctx_active THEN 1 ELSE 0

\* The inductive invariant: these properties imply one another only together.
DeviceInv ==
    /\ DeviceTypeOK
    /\ KeysReleased
    /\ ConsistentContext
    /\ HandshakeExcludesSession
    /\ FreshKeys
    /\ WindowCovers
    /\ KeysInstalledOnce
    /\ DispatchedAtMostOnce

\* A usable session is never exchanged for another in one step: the device
\* passes through "no session", and a session that was dropped stays dropped.
NoSessionSwap ==
    [][/\ oscore_ready /\ oscore_ready' => oscore_ctx' = oscore_ctx
       /\ ~ oscore_ready /\ oscore_ready' => installed[oscore_ctx'] = 0]_deviceVars

=============================================================================
