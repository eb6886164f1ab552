------------------------- MODULE EdhocOscoreProofs -------------------------
(***************************************************************************)
(* Proofs about the device, for every set of client runs, PIVs and kids.   *)
(* DeviceInv is inductive: each action preserves it, whatever stage fails. *)
(***************************************************************************)
EXTENDS EdhocOscore, TLAPS

-----------------------------------------------------------------------------
\* parse_onoff() has three results, so build_led_put() assigns a bit.
LEMMA ParseRange == \A p : parse_onoff(p) \in {-1, 0, 1}
  BY DEF parse_onoff

\* Every request leaves led_state and the pin at 0 or 1.
LEMMA DriveLedType ==
  ASSUME CoapTypeOK, NEW req, drive_led(req)
  PROVE  CoapTypeOK'
<1>1. parse_onoff(req.payload) \in {-1, 0, 1}
  BY ParseRange
<1> QED
  BY <1>1 DEF drive_led, CoapTypeOK, SetsLed

\* What the fields of an arriving EDHOC message range over.
LEMMA EdhocPostFields ==
  ASSUME NEW m \in EdhocPost
  PROVE  m.type = "message_1" => m.x \in GX
  BY DEF EdhocPost, Message1, Message3, Unframed

\* What the fields of an arriving protected request range over.
LEMMA RootPostFields ==
  ASSUME NEW m \in RootPost, m.type = "protected"
  PROVE  m.piv \in Piv /\ m.key \in Session
  BY DEF RootPost, Protected, PlainRoot

-----------------------------------------------------------------------------
\* At power-on nothing is installed and nothing ran.
LEMMA DeviceInitInv == DeviceInit => DeviceInv
<1> SUFFICES ASSUME DeviceInit PROVE DeviceInv
  OBVIOUS
<1>1. /\ edhoc_ctx = NoSession /\ exported = NoSession /\ oscore_ctx = NoSession
      /\ edhoc_ctx_active = FALSE /\ oscore_ready = FALSE /\ replay = {}
      /\ led_state = 0 /\ led_pin = 0 /\ drawn = 0 /\ held = 0
      /\ installed = [s \in Session |-> 0]
      /\ dispatched = [s \in Session |-> [p \in Piv |-> 0]]
  BY DEF DeviceInit, PowerOn, led_init
<1>2. \A s \in Session : installed[s] = 0 /\ \A p \in Piv : dispatched[s][p] = 0
  BY <1>1
<1>3. installed \in [Session -> Nat] /\ dispatched \in [Session -> [Piv -> Nat]]
  BY <1>1
<1>4. DeviceTypeOK
  <2>1. drawn \in 0..MaxDraws
    BY <1>1, DrawsAssumption DEF DrawsAssumption
  <2>2. edhoc_ctx_active \in BOOLEAN /\ oscore_ready \in BOOLEAN
    BY <1>1
  <2> QED
    BY <1>1, <1>3, <2>1, <2>2 DEF DeviceTypeOK, CoapTypeOK
<1>5. FreshKeys /\ KeysInstalledOnce /\ DispatchedAtMostOnce
  BY <1>1, <1>2 DEF FreshKeys, KeysInstalledOnce, DispatchedAtMostOnce
<1> QED
  BY <1>1, <1>4, <1>5
  DEF DeviceInv, KeysReleased, ConsistentContext, HandshakeExcludesSession, WindowCovers

\* A message_1, answered or failing at any stage.
LEMMA Message1Inv ==
  ASSUME DeviceInv, NEW m \in EdhocPost, NEW fail, edhoc_message_1(m, fail)
  PROVE  DeviceInv'
<1> USE DEF DeviceInv
<1>0. release_pending = 0
  BY DEF release_pending, KeysReleased, DeviceTypeOK
<1>1. m.x \in GX
  BY EdhocPostFields DEF edhoc_message_1
<1>2. /\ UNCHANGED <<exported, oscore_ctx, replay, installed, dispatched, led_state, led_pin>>
      /\ oscore_ready' = FALSE
  BY DEF edhoc_message_1, drop_session, ledVars
<1>3. CASE fail \in Message1Stage
  <2>1. edhoc_ctx' = NoSession /\ edhoc_ctx_active' = FALSE /\ drawn' = drawn /\ held' = 0
    BY <1>0, <1>3 DEF edhoc_message_1
  <2> QED
    BY <1>2, <2>1
    DEF DeviceTypeOK, CoapTypeOK, KeysReleased, ConsistentContext, HandshakeExcludesSession,
        FreshKeys, WindowCovers, KeysInstalledOnce, DispatchedAtMostOnce
<1>4. CASE fail \notin Message1Stage
  <2>1. /\ drawn < MaxDraws
        /\ drawn' = drawn + 1
        /\ edhoc_ctx' = <<m.x, drawn + 1>>
        /\ edhoc_ctx_active' = TRUE
        /\ held' = 1
    BY <1>0, <1>4 DEF edhoc_message_1
  <2>2. drawn \in Nat /\ drawn + 1 \in GY /\ drawn' \in 0..MaxDraws
    BY <2>1, DrawsAssumption DEF DeviceTypeOK, GY
  <2>3. edhoc_ctx' \in Session /\ edhoc_ctx'[2] = drawn + 1
    BY <1>1, <2>1, <2>2 DEF Session
  <2>4. DeviceTypeOK'
    BY <1>2, <2>1, <2>2, <2>3 DEF DeviceTypeOK, CoapTypeOK
  <2>5. installed[edhoc_ctx'] = 0
    BY <2>2, <2>3 DEF FreshKeys, DeviceTypeOK
  <2>6. \A s \in Session : s[2] \in Nat
    BY DrawsAssumption DEF Session, GY
  <2>7. FreshKeys'
    BY <1>2, <2>1, <2>2, <2>3, <2>5, <2>6 DEF FreshKeys
  <2> QED
    BY <1>2, <2>1, <2>4, <2>7
    DEF KeysReleased, ConsistentContext, HandshakeExcludesSession, WindowCovers, KeysInstalledOnce,
        DispatchedAtMostOnce
<1> QED
  BY <1>3, <1>4

\* A message_3 that is not accepted closes the handshake and installs nothing.
LEMMA Message3RefusedInv ==
  ASSUME DeviceInv, NEW m, NEW fail, edhoc_message_3_refused(m, fail)
  PROVE  DeviceInv'
<1>1. edhoc_ctx_active /\ held = 1
  BY DEF edhoc_message_3_refused, DeviceInv, KeysReleased
<1>2. /\ edhoc_ctx' = NoSession /\ edhoc_ctx_active' = FALSE /\ held' = 0
      /\ UNCHANGED <<drawn, exported, oscore_ctx, oscore_ready, replay, installed, dispatched,
                     led_state, led_pin>>
  BY <1>1 DEF edhoc_message_3_refused, close_handshake, oscoreVars, ledVars
<1> QED
  BY <1>2
  DEF DeviceInv, DeviceTypeOK, CoapTypeOK, KeysReleased, ConsistentContext,
      HandshakeExcludesSession, FreshKeys, WindowCovers, KeysInstalledOnce, DispatchedAtMostOnce

\* A message_3 that is accepted installs the keys of the pending handshake,
\* which no session used before, or fails and leaves the device without one.
LEMMA Message3Inv ==
  ASSUME DeviceInv, NEW m, NEW fail, edhoc_message_3(m, fail)
  PROVE  DeviceInv'
<1> USE DEF DeviceInv
<1>1. /\ edhoc_ctx_active /\ ~ oscore_ready
      /\ edhoc_ctx \in Session /\ edhoc_ctx[2] = drawn /\ installed[edhoc_ctx] = 0
  BY DEF edhoc_message_3, HandshakeExcludesSession, FreshKeys
<1>2. /\ edhoc_ctx' = NoSession /\ edhoc_ctx_active' = FALSE
      /\ held' = 0
      /\ UNCHANGED <<drawn, dispatched, led_state, led_pin>>
  BY <1>1 DEF edhoc_message_3, close_handshake, ledVars, KeysReleased
<1>3. CASE ~ oscore_ready'
  <2>1. UNCHANGED <<oscore_ready, replay, installed>>
    BY <1>3 DEF edhoc_message_3, derive_and_init_oscore
  <2>2. exported' \in Session \cup {NoSession} /\ oscore_ctx' \in Session \cup {NoSession}
    BY <1>1 DEF edhoc_message_3, derive_and_init_oscore, DeviceTypeOK
  <2> QED
    BY <1>2, <1>3, <2>1, <2>2
    DEF DeviceTypeOK, CoapTypeOK, KeysReleased, ConsistentContext, HandshakeExcludesSession,
        FreshKeys, WindowCovers, KeysInstalledOnce, DispatchedAtMostOnce
<1>4. CASE oscore_ready'
  <2>1. /\ exported' = edhoc_ctx /\ oscore_ctx' = edhoc_ctx
        /\ oscore_ready' = TRUE /\ replay' = {}
        /\ installed' = [installed EXCEPT ![edhoc_ctx] = @ + 1]
    BY <1>1, <1>4 DEF edhoc_message_3, derive_and_init_oscore
  <2>2. /\ installed' \in [Session -> Nat]
        /\ installed'[edhoc_ctx] = 1
        /\ \A s \in Session : s # edhoc_ctx => installed'[s] = installed[s]
    BY <1>1, <2>1 DEF DeviceTypeOK
  <2>3. DeviceTypeOK'
    BY <1>1, <1>2, <2>1, <2>2 DEF DeviceTypeOK, CoapTypeOK
  <2>4. \A p \in Piv : ~ (dispatched[edhoc_ctx][p] > 0)
    BY <1>1 DEF FreshKeys
  <2>5. WindowCovers'
    BY <1>2, <2>1, <2>4 DEF WindowCovers
  <2>6. FreshKeys'
    <3>1. \A s \in Session : installed'[s] > 0 => s[2] <= drawn'
      <4>1. drawn \in Int
        BY DrawsAssumption DEF DeviceTypeOK
      <4> QED
        BY <1>1, <1>2, <2>2, <4>1 DEF FreshKeys
    <3>2. \A s \in Session, p \in Piv : dispatched'[s][p] > 0 => installed'[s] > 0
      BY <1>2, <2>2 DEF FreshKeys
    <3> QED
      BY <1>1, <1>2, <2>1, <2>2, <3>1, <3>2 DEF FreshKeys
  <2>7. KeysInstalledOnce'
    BY <2>2 DEF KeysInstalledOnce
  <2> QED
    BY <1>1, <1>2, <2>1, <2>3, <2>5, <2>6, <2>7
    DEF KeysReleased, ConsistentContext, HandshakeExcludesSession, DispatchedAtMostOnce
<1> QED
  BY <1>3, <1>4

\* An authentic, fresh request runs once: its PIV was outside the window's
\* refused set, hence had not run, and is inside it afterwards.
LEMMA OscoreAcceptedInv ==
  ASSUME DeviceInv, NEW m \in RootPost, NEW fail, oscore_post_accepted(m, fail)
  PROVE  DeviceInv'
<1> USE DEF DeviceInv
<1>1. /\ oscore_ready /\ m.key = oscore_ctx /\ m.piv \notin replay
      /\ m.piv \in Piv /\ m.key \in Session
  BY RootPostFields DEF oscore_post_accepted, session_usable, oscore2coap_ok
<1>2. UNCHANGED <<edhoc_ctx, edhoc_ctx_active, drawn, held, exported, oscore_ctx, oscore_ready,
                  installed>>
  BY DEF oscore_post_accepted, edhocVars
<1>3. /\ replay' \subseteq Piv /\ m.piv \in replay'
      /\ \A p \in Piv : p \in replay => p \in replay'
  BY <1>1 DEF oscore_post_accepted, slide_window, DeviceTypeOK
<1>4. CASE fail = "inner_parse"
  <2>1. UNCHANGED <<dispatched, led_state, led_pin>>
    BY <1>4 DEF oscore_post_accepted, ledVars
  <2> QED
    BY <1>2, <1>3, <2>1
    DEF DeviceTypeOK, CoapTypeOK, KeysReleased, ConsistentContext, HandshakeExcludesSession,
        FreshKeys, WindowCovers, KeysInstalledOnce, DispatchedAtMostOnce
<1>5. CASE fail # "inner_parse"
  <2>1. dispatched' = [dispatched EXCEPT ![m.key][m.piv] = @ + 1]
    BY <1>5 DEF oscore_post_accepted
  <2>2. CoapTypeOK'
    <3>1. CoapTypeOK /\ drive_led(m.req)
      BY <1>5 DEF oscore_post_accepted, DeviceTypeOK
    <3> QED
      BY <3>1, DriveLedType
  <2>3. ~ (dispatched[m.key][m.piv] > 0)
    BY <1>1 DEF WindowCovers
  <2>4. /\ dispatched' \in [Session -> [Piv -> Nat]]
        /\ dispatched'[m.key][m.piv] = dispatched[m.key][m.piv] + 1
        /\ \A s \in Session, p \in Piv :
              s # m.key \/ p # m.piv => dispatched'[s][p] = dispatched[s][p]
    BY <1>1, <2>1 DEF DeviceTypeOK
  <2>5. dispatched[m.key][m.piv] = 0 /\ dispatched'[m.key][m.piv] = 1
    BY <1>1, <2>3, <2>4 DEF DeviceTypeOK
  <2>6. DeviceTypeOK'
    BY <1>2, <1>3, <2>2, <2>4 DEF DeviceTypeOK
  <2>7. FreshKeys'
    <3>1. \A s \in Session, p \in Piv : dispatched'[s][p] > 0 => installed'[s] > 0
      BY <1>1, <1>2, <2>4 DEF FreshKeys
    <3> QED
      BY <1>2, <3>1 DEF FreshKeys
  <2>8. WindowCovers'
    BY <1>1, <1>2, <1>3, <2>4 DEF WindowCovers
  <2>9. DispatchedAtMostOnce'
    BY <1>1, <2>4, <2>5 DEF DispatchedAtMostOnce
  <2> QED
    BY <1>2, <2>6, <2>7, <2>8, <2>9
    DEF KeysReleased, ConsistentContext, HandshakeExcludesSession, KeysInstalledOnce
<1> QED
  BY <1>4, <1>5

\* A plaintext request touches the LED only.
LEMMA PlainRequestInv ==
  ASSUME DeviceInv, NEW req, plain_request(req)
  PROVE  DeviceInv'
<1>1. CoapTypeOK'
  <2>1. CoapTypeOK
    BY DEF DeviceInv, DeviceTypeOK
  <2>2. CASE app_request(req)
    BY <2>1, <2>2, DriveLedType DEF app_request
  <2>3. CASE service_reject(req)
    BY <2>1, <2>3 DEF service_reject, ledVars, CoapTypeOK
  <2> QED
    BY <2>2, <2>3 DEF plain_request
<1>2. UNCHANGED <<edhoc_ctx, edhoc_ctx_active, drawn, held, exported, oscore_ctx, oscore_ready,
                  replay, installed, dispatched>>
  BY DEF plain_request, edhocVars, oscoreVars
<1> QED
  BY <1>1, <1>2
  DEF DeviceInv, DeviceTypeOK, KeysReleased, ConsistentContext, HandshakeExcludesSession, FreshKeys,
      WindowCovers, KeysInstalledOnce, DispatchedAtMostOnce

\* A reboot forgets the session; the histories of what ran remain.
LEMMA RebootInv ==
  ASSUME DeviceInv, Reboot
  PROVE  DeviceInv'
  BY DEF Reboot, DeviceInv, DeviceTypeOK, CoapTypeOK, KeysReleased, ConsistentContext,
         HandshakeExcludesSession, FreshKeys, WindowCovers, KeysInstalledOnce,
         DispatchedAtMostOnce

\* A step that leaves the device alone.
LEMMA StutterInv ==
  ASSUME DeviceInv, UNCHANGED deviceVars
  PROVE  DeviceInv'
  BY DEF deviceVars, edhocVars, oscoreVars, ledVars, DeviceInv, DeviceTypeOK, CoapTypeOK,
         KeysReleased, ConsistentContext, HandshakeExcludesSession, FreshKeys, WindowCovers,
         KeysInstalledOnce, DispatchedAtMostOnce

\* POST /.well-known/edhoc, whatever it carries and whichever stage fails.
LEMMA EdhocPostInv ==
  ASSUME DeviceInv, NEW m \in EdhocPost, NEW fail, edhoc_post(m, fail)
  PROVE  DeviceInv'
<1>1. CASE edhoc_message_1(m, fail)
  BY <1>1, Message1Inv
<1>2. CASE edhoc_message_3_refused(m, fail)
  BY <1>2, Message3RefusedInv
<1>3. CASE edhoc_message_3(m, fail)
  BY <1>3, Message3Inv
<1>4. CASE edhoc_message_3_unexpected(m) \/ edhoc_unframed(m)
  BY <1>4, StutterInv DEF edhoc_message_3_unexpected, edhoc_unframed
<1> QED
  BY <1>1, <1>2, <1>3, <1>4 DEF edhoc_post

\* POST /, likewise.
LEMMA OscorePostInv ==
  ASSUME DeviceInv, NEW m \in RootPost, NEW fail, oscore_post(m, fail)
  PROVE  DeviceInv'
<1>1. CASE oscore_post_refused(m)
  BY <1>1, StutterInv DEF oscore_post_refused
<1>2. CASE oscore_post_accepted(m, fail)
  BY <1>2, OscoreAcceptedInv
<1> QED
  BY <1>1, <1>2 DEF oscore_post

\* Every handler of the device, the reboot included, preserves the invariant.
LEMMA DeviceStepInv == DeviceInv /\ [DeviceNext]_deviceVars => DeviceInv'
<1> SUFFICES ASSUME DeviceInv, [DeviceNext]_deviceVars PROVE DeviceInv'
  OBVIOUS
<1>1. ASSUME NEW m \in EdhocPost, NEW fail, edhoc_post(m, fail) PROVE DeviceInv'
  BY <1>1, EdhocPostInv
<1>2. ASSUME NEW m \in RootPost, NEW fail, oscore_post(m, fail) PROVE DeviceInv'
  BY <1>2, OscorePostInv
<1>3. ASSUME NEW req \in Request, plain_request(req) PROVE DeviceInv'
  BY <1>3, PlainRequestInv
<1>4. CASE Reboot
  BY <1>4, RebootInv
<1>5. CASE UNCHANGED deviceVars
  BY <1>5, StutterInv
<1> QED
  BY <1>1, <1>2, <1>3, <1>4, <1>5 DEF DeviceNext

\* The inductive invariant holds throughout.
THEOREM DeviceInvariant == DeviceSpec => []DeviceInv
  BY DeviceInitInv, DeviceStepInv, PTL DEF DeviceSpec

-----------------------------------------------------------------------------
\* edhoc_oscore.c keeps its statics in range, whatever arrives and fails.
THEOREM DeviceTyped == DeviceSpec => []DeviceTypeOK
<1>1. DeviceInv => DeviceTypeOK
  BY DEF DeviceInv
<1> QED
  BY <1>1, DeviceInvariant, PTL

\* No failed, repeated or abandoned handshake keeps key material.
THEOREM NoKeyLeak == DeviceSpec => []KeysReleased
<1>1. DeviceInv => KeysReleased
  BY DEF DeviceInv
<1> QED
  BY <1>1, DeviceInvariant, PTL

\* The keys of an EDHOC run are installed at most once: a duplicated or late
\* message_3 never brings back a session with an empty replay window.
THEOREM InstalledOnce == DeviceSpec => []KeysInstalledOnce
<1>1. DeviceInv => KeysInstalledOnce
  BY DEF DeviceInv
<1> QED
  BY <1>1, DeviceInvariant, PTL

\* A protected request reaches its resource at most once, across duplicates,
\* re-keying, failed responses and reboots.
THEOREM DispatchedOnce == DeviceSpec => []DispatchedAtMostOnce
<1>1. DeviceInv => DispatchedAtMostOnce
  BY DEF DeviceInv
<1> QED
  BY <1>1, DeviceInvariant, PTL

\* A usable context is consistent with the buffers it refers to, whatever
\* handshakes failed half way since it was built.
THEOREM ContextSound == DeviceSpec => []ConsistentContext
<1>1. DeviceInv => ConsistentContext
  BY DEF DeviceInv
<1> QED
  BY <1>1, DeviceInvariant, PTL

\* A usable session never coexists with a handshake in flight.
THEOREM HandshakeAlone == DeviceSpec => []HandshakeExcludesSession
<1>1. DeviceInv => HandshakeExcludesSession
  BY DEF DeviceInv
<1> QED
  BY <1>1, DeviceInvariant, PTL

\* The keys of a pending handshake were never used before.
THEOREM PendingKeysFresh == DeviceSpec => []FreshKeys
<1>1. DeviceInv => FreshKeys
  BY DEF DeviceInv
<1> QED
  BY <1>1, DeviceInvariant, PTL

\* The replay window, of whatever width, covers all that ran under its session.
THEOREM WindowSound == DeviceSpec => []WindowCovers
<1>1. DeviceInv => WindowCovers
  BY DEF DeviceInv
<1> QED
  BY <1>1, DeviceInvariant, PTL

\* Every response the device would send can be read by the client that asked.
THEOREM ResponsesReadable == DeviceSpec => []AnswersReadable
<1>1. DeviceInv => AnswersReadable
  <2> SUFFICES ASSUME DeviceInv, NEW m \in RootPost, NEW a \in oscore_reply(m, "none"),
                      a.type = "answer"
               PROVE  a.key = m.key
    BY DEF AnswersReadable
  <2>1. a # NotFound
    BY DEF NotFound
  <2>2. /\ oscore_ready /\ m.key = oscore_ctx
        /\ a = Answer(IF exported = oscore_ctx THEN oscore_ctx ELSE NoSession, m.piv,
                      coap_server_dispatch_inner(m.req, led_state))
    BY <2>1 DEF oscore_reply, session_usable, oscore2coap_ok
  <2>3. exported = oscore_ctx
    BY <2>2 DEF DeviceInv, ConsistentContext
  <2> QED
    BY <2>2, <2>3 DEF Answer
<1> QED
  BY <1>1, DeviceInvariant, PTL

\* The device passes through "no session" between two sessions, and a session
\* that was dropped never returns.
THEOREM SessionsNeverSwap == DeviceSpec => NoSessionSwap
<1> DEFINE Swap == /\ oscore_ready /\ oscore_ready' => oscore_ctx' = oscore_ctx
                   /\ ~ oscore_ready /\ oscore_ready' => installed[oscore_ctx'] = 0
<1>1. DeviceInv /\ [DeviceNext]_deviceVars => [Swap]_deviceVars
  <2> SUFFICES ASSUME DeviceInv, DeviceNext PROVE Swap
    OBVIOUS
  <2>1. ASSUME NEW m \in EdhocPost, NEW fail, edhoc_post(m, fail) PROVE Swap
    <3>1. CASE edhoc_message_1(m, fail)
      BY <3>1 DEF edhoc_message_1, drop_session
    <3>2. CASE edhoc_message_3(m, fail)
      BY <3>2 DEF edhoc_message_3, derive_and_init_oscore, DeviceInv, FreshKeys,
                  HandshakeExcludesSession
    <3>3. CASE UNCHANGED <<oscore_ready, oscore_ctx>>
      BY <3>3
    <3> QED
      BY <2>1, <3>1, <3>2, <3>3
      DEF edhoc_post, edhoc_message_3_refused, edhoc_message_3_unexpected, edhoc_unframed,
          deviceVars, oscoreVars
  <2>2. ASSUME NEW m \in RootPost, NEW fail, oscore_post(m, fail) PROVE Swap
    BY <2>2 DEF oscore_post, oscore_post_refused, oscore_post_accepted, deviceVars, oscoreVars
  <2>3. ASSUME NEW req \in Request, plain_request(req) PROVE Swap
    BY <2>3 DEF plain_request, oscoreVars
  <2>4. CASE Reboot
    BY <2>4 DEF Reboot
  <2> QED
    BY <2>1, <2>2, <2>3, <2>4 DEF DeviceNext
<1> QED
  BY <1>1, DeviceInvariant, PTL DEF DeviceSpec, NoSessionSwap

=============================================================================
