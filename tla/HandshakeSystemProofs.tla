----------------------- MODULE HandshakeSystemProofs -----------------------
(***************************************************************************)
(* Proofs about the device and the client executions on a faulty link, for *)
(* every number of executions, requests, responder keys and faults:        *)
(* SystemInv is inductive, and the system implements SecureSession.        *)
(*                                                                         *)
(* A step of the device adds to what was drawn, installed and dispatched   *)
(* and sends a genuine reply; a step of a client moves on in its script    *)
(* and sends a genuine datagram.  FrameInv shows once that such steps      *)
(* preserve SystemInv; the lemmas behind it show that every action is one. *)
(***************************************************************************)
EXTENDS HandshakeSystem, EdhocOscoreProofs

\* The histories of the device only grow.
DeviceGrows ==
    /\ drawn <= drawn'
    /\ \A s \in Session : installed[s] = 1 => installed'[s] = 1
    /\ \A s \in Session, p \in Piv : dispatched[s][p] = 1 => dispatched'[s][p] = 1

\* A client that has sent message_3 keeps its keys, and never starts again.
ClientGrows ==
    \A r \in GX :
        /\ c_pc[r] \notin {"idle", "wait2"} =>
             c_pc'[r] \notin {"idle", "wait2"} /\ c_y'[r] = c_y[r]
        /\ Secured(r) => Secured(r)'
        /\ c_ssn[r] <= c_ssn'[r]

-----------------------------------------------------------------------------
\* The keys of an execution that has the responder's key are those of a session.
LEMMA KeyInSession ==
  ASSUME NEW r \in GX, c_y[r] \in GY
  PROVE  Key(r) \in Session
  BY DEF Key, Session

\* A PIV is a natural number, and so is the sender sequence number.
LEMMA SsnNat ==
  ASSUME SystemTypeOK
  PROVE  /\ Len(Script) \in Nat
         /\ \A r \in GX : c_ssn[r] \in Nat /\ c_i[r] \in Nat
<1>1. Len(Script) \in Nat
  BY ScriptAssumption
<1> QED
  BY <1>1 DEF SystemTypeOK

\* A PIV below the sequence number stays below it.
LEMMA BelowSsn ==
  ASSUME SystemTypeOK, SystemTypeOK', ClientGrows, NEW r \in GX, NEW n \in Piv, n < c_ssn[r]
  PROVE  n < c_ssn'[r]
<1>1. n \in Nat /\ c_ssn[r] \in Nat
  BY SsnNat, PivAssumption
<1>2. c_ssn'[r] \in Nat
  <2>1. Len(Script) \in Nat
    BY ScriptAssumption
  <2> QED
    BY <2>1 DEF SystemTypeOK
<1> QED
  BY <1>1, <1>2 DEF ClientGrows

\* A datagram to the device stays genuine while clients move on.
LEMMA GenuineToDevStays ==
  ASSUME SystemTypeOK, SystemTypeOK', ClientGrows, NEW m, GenuineToDev(m)
  PROVE  GenuineToDev(m)'
<1>1. CASE \E r \in GX : m = Message1(r)
  BY <1>1 DEF GenuineToDev
<1>2. CASE \E r \in GX : /\ m = Message3(r, c_y[r], ED_KID_I)
                         /\ c_y[r] \in GY /\ c_pc[r] \notin {"idle", "wait2"}
  BY <1>2 DEF GenuineToDev, ClientGrows
<1>3. CASE \E r \in GX, i \in Run, n \in Piv :
              m = Protected(Key(r), n, Script[i]) /\ n < c_ssn[r] /\ Secured(r)
  <2> PICK r \in GX, i \in Run, n \in Piv :
              m = Protected(Key(r), n, Script[i]) /\ n < c_ssn[r] /\ Secured(r)
    BY <1>3
  <2>1. c_pc[r] \notin {"idle", "wait2"}
    BY DEF Secured
  <2>2. Key(r)' = Key(r) /\ Secured(r)'
    BY <2>1 DEF Key, ClientGrows
  <2>3. n < c_ssn'[r]
    BY BelowSsn
  <2> QED
    BY <2>2, <2>3 DEF GenuineToDev
<1> QED
  BY <1>1, <1>2, <1>3 DEF GenuineToDev

\* So does a datagram to a client, whatever the device does meanwhile.
LEMMA GenuineToHostStays ==
  ASSUME SystemTypeOK, SystemTypeOK', ClientSound, DeviceGrows, ClientGrows,
         NEW r \in GX, NEW m, GenuineToHost(r, m)
  PROVE  GenuineToHost(r, m)'
<1>1. CASE \E y \in 1..drawn : m = Message2(r, y)
  <2>1. 1..drawn \subseteq 1..drawn'
    BY DEF DeviceGrows, SystemTypeOK, DeviceTypeOK
  <2> QED
    BY <1>1, <2>1 DEF GenuineToHost
<1>2. CASE \E y \in GY : m = Message4(r, y) /\ installed[<<r, y>>] = 1
  BY <1>2 DEF GenuineToHost, DeviceGrows, Session
<1>3. CASE /\ m.type = "answer" /\ m.key = Key(r) /\ Secured(r)
           /\ m.piv \in Piv /\ m.piv < c_ssn[r] /\ dispatched[Key(r)][m.piv] = 1
  <2>1. c_pc[r] \notin {"idle", "wait2"} /\ c_y[r] \in GY
    BY <1>3 DEF Secured, ClientSound
  <2>2. Key(r)' = Key(r) /\ Secured(r)'
    BY <1>3, <2>1 DEF Key, ClientGrows
  <2>3. m.piv < c_ssn'[r]
    BY <1>3, BelowSsn
  <2>4. dispatched'[Key(r)][m.piv] = 1
    BY <1>3, <2>1, KeyInSession DEF DeviceGrows
  <2> QED
    BY <1>3, <2>2, <2>3, <2>4 DEF GenuineToHost
<1> QED
  BY <1>1, <1>2, <1>3 DEF GenuineToHost

\* What a step must satisfy to preserve SystemInv.
LEMMA FrameInv ==
  ASSUME SystemInv, DeviceInv', SystemTypeOK', ClientSound', DeviceGrows, ClientGrows,
         \A m \in toDev' : m \in toDev \/ GenuineToDev(m)',
         \A r \in GX : \A m \in toHost'[r] : m \in toHost[r] \/ GenuineToHost(r, m)',
         oscore_ready' =>
            \/ oscore_ready /\ oscore_ctx' = oscore_ctx
            \/ \E r \in GX : oscore_ctx' = Key(r)' /\ c_pc'[r] \notin {"idle", "wait2"},
         \A r \in GX : Secured(r)' => Secured(r) \/ installed'[Key(r)'] = 1,
         \A r \in GX, i \in Run : c_res'[r][i] = c_res[r][i] \/ HonestOutcome(r, i)'
  PROVE  SystemInv'
<1> USE DEF SystemInv
<1>1. FlightSound'
  <2>1. \A m \in toDev' : GenuineToDev(m)'
    BY GenuineToDevStays DEF FlightSound
  <2>2. \A r \in GX : \A m \in toHost'[r] : GenuineToHost(r, m)'
    BY GenuineToHostStays DEF FlightSound
  <2> QED
    BY <2>1, <2>2 DEF FlightSound
<1>2. \A r \in GX : Secured(r) => Key(r)' = Key(r) /\ Key(r) \in Session
  BY KeyInSession DEF Secured, ClientGrows, Key, ClientSound
<1>3. Agreement'
  <2>1. ASSUME oscore_ready'
        PROVE  c_pc'[oscore_ctx'[1]] \notin {"idle", "wait2"} /\ c_y'[oscore_ctx'[1]] = oscore_ctx'[2]
    <3>1. CASE oscore_ready /\ oscore_ctx' = oscore_ctx
      <4>1. oscore_ctx \in Session /\ oscore_ctx[1] \in GX
        BY <3>1 DEF DeviceInv, ConsistentContext, Session
      <4> QED
        BY <3>1, <4>1 DEF Agreement, ClientGrows
    <3>2. CASE \E r \in GX : oscore_ctx' = Key(r)' /\ c_pc'[r] \notin {"idle", "wait2"}
      BY <3>2 DEF Key
    <3> QED
      BY <2>1, <3>1, <3>2
  <2>2. ASSUME NEW r \in GX, Secured(r)' PROVE installed'[Key(r)'] = 1
    BY <1>2, <2>2 DEF Agreement, DeviceGrows
  <2> QED
    BY <2>1, <2>2 DEF Agreement
<1>4. AnsweredWasDispatched'
  <2> SUFFICES ASSUME NEW r \in GX, NEW i \in Run, c_res'[r][i] = c_res[r][i]
               PROVE  HonestOutcome(r, i)'
    BY DEF AnsweredWasDispatched
  <2>1. HonestOutcome(r, i)
    BY DEF AnsweredWasDispatched
  <2>2. CASE c_res[r][i].ok
    <3>1. /\ Secured(r) /\ c_res[r][i].piv \in Piv /\ c_res[r][i].piv < i
          /\ c_res[r][i].piv < c_ssn[r] /\ dispatched[Key(r)][c_res[r][i].piv] = 1
      BY <2>1, <2>2 DEF ClientSound, HonestOutcome, SystemTypeOK
    <3>2. c_res[r][i].piv < c_ssn'[r]
      BY <3>1, BelowSsn
    <3> QED
      BY <1>2, <2>2, <3>1, <3>2 DEF DeviceGrows, HonestOutcome
  <2>3. CASE ~ c_res[r][i].ok
    BY <2>1, <2>3 DEF HonestOutcome
  <2> QED
    BY <2>2, <2>3
<1> QED
  BY <1>1, <1>3, <1>4

-----------------------------------------------------------------------------
(***************************************************************************)
(* The device.                                                             *)
(***************************************************************************)

\* What the fields of a datagram on the way to the device say of its sender.
LEMMA ToDevFields ==
  ASSUME SystemInv, NEW m \in toDev
  PROVE  /\ m.type = "message_1" => m.x \in GX /\ m \in EdhocPost
         /\ m.type = "message_3" =>
              /\ m.x \in GX /\ m \in EdhocPost
              /\ <<m.x, m.y>> = Key(m.x) /\ c_pc[m.x] \notin {"idle", "wait2"}
         /\ m.type = "protected" =>
              /\ m.key[1] \in GX /\ m \in RootPost
              /\ m.key = Key(m.key[1]) /\ Secured(m.key[1]) /\ m.piv < c_ssn[m.key[1]]
<1>1. GenuineToDev(m)
  BY DEF SystemInv, FlightSound
<1>2. CASE \E r \in GX : m = Message1(r)
  BY <1>2 DEF Message1, EdhocPost
<1>3. CASE \E r \in GX : /\ m = Message3(r, c_y[r], ED_KID_I)
                         /\ c_y[r] \in GY /\ c_pc[r] \notin {"idle", "wait2"}
  <2> PICK r \in GX : /\ m = Message3(r, c_y[r], ED_KID_I)
                      /\ c_y[r] \in GY /\ c_pc[r] \notin {"idle", "wait2"}
    BY <1>3
  <2>1. m.type = "message_3" /\ m.x = r /\ m.y = c_y[r]
    BY DEF Message3
  <2>2. m \in EdhocPost
    BY PeersAssumption DEF EdhocPost
  <2> QED
    BY <2>1, <2>2 DEF Key
<1>4. CASE \E r \in GX, i \in Run, n \in Piv :
              m = Protected(Key(r), n, Script[i]) /\ n < c_ssn[r] /\ Secured(r)
  <2> PICK r \in GX, i \in Run, n \in Piv :
              m = Protected(Key(r), n, Script[i]) /\ n < c_ssn[r] /\ Secured(r)
    BY <1>4
  <2>1. m.type = "protected" /\ m.key = Key(r) /\ m.piv = n
    BY DEF Protected
  <2>2. Key(r)[1] = r
    BY DEF Key
  <2>3. Key(r) \in Session
    BY KeyInSession DEF SystemInv, ClientSound
  <2>4. m \in RootPost
    BY <2>3, ScriptRequests DEF RootPost
  <2> QED
    BY <2>1, <2>2, <2>4
<1> QED
  BY <1>1, <1>2, <1>3, <1>4 DEF GenuineToDev

\* A message_3 that installs a session installs one that was not there before.
LEMMA EdhocPostGrows ==
  ASSUME DeviceInv, NEW m \in EdhocPost, NEW fail, edhoc_post(m, fail)
  PROVE  DeviceGrows
<1> USE DEF DeviceInv
<1>0. drawn \in Nat
  BY DEF DeviceTypeOK
<1>1. CASE edhoc_message_1(m, fail)
  BY <1>0, <1>1 DEF edhoc_message_1, DeviceGrows
<1>2. CASE edhoc_message_3(m, fail)
  <2>1. installed[edhoc_ctx] = 0 /\ edhoc_ctx \in Session
    BY <1>2 DEF edhoc_message_3, FreshKeys
  <2>2. UNCHANGED <<drawn, dispatched>>
    BY <1>2 DEF edhoc_message_3
  <2>3. installed' = installed \/ installed' = [installed EXCEPT ![edhoc_ctx] = @ + 1]
    BY <1>2 DEF edhoc_message_3, derive_and_init_oscore
  <2> QED
    BY <1>0, <2>1, <2>2, <2>3 DEF DeviceGrows, DeviceTypeOK
<1>3. CASE UNCHANGED <<drawn, installed, dispatched>>
  BY <1>0, <1>3 DEF DeviceGrows
<1> QED
  BY <1>1, <1>2, <1>3
  DEF edhoc_post, edhoc_message_3_refused, edhoc_message_3_unexpected, edhoc_unframed,
      deviceVars, edhocVars, oscoreVars

\* A request that runs did not run before, so no count passes one.
LEMMA OscorePostGrows ==
  ASSUME DeviceInv, NEW m \in RootPost, NEW fail, oscore_post(m, fail)
  PROVE  DeviceGrows
<1> USE DEF DeviceInv
<1>0. drawn \in Nat
  BY DEF DeviceTypeOK
<1>1. CASE oscore_post_refused(m)
  BY <1>0, <1>1 DEF oscore_post_refused, deviceVars, edhocVars, oscoreVars, DeviceGrows
<1>2. CASE oscore_post_accepted(m, fail)
  <2>1. /\ oscore_ready /\ m.key = oscore_ctx /\ m.piv \notin replay
        /\ m.piv \in Piv /\ m.key \in Session
    BY <1>2, RootPostFields DEF oscore_post_accepted, session_usable, oscore2coap_ok
  <2>2. ~ (dispatched[m.key][m.piv] > 0)
    BY <2>1 DEF WindowCovers
  <2>3. UNCHANGED <<drawn, installed>>
    BY <1>2 DEF oscore_post_accepted, edhocVars
  <2>4. \/ dispatched' = dispatched
        \/ dispatched' = [dispatched EXCEPT ![m.key][m.piv] = @ + 1]
    BY <1>2 DEF oscore_post_accepted
  <2> QED
    BY <1>0, <2>1, <2>2, <2>3, <2>4 DEF DeviceGrows, DeviceTypeOK
<1> QED
  BY <1>1, <1>2 DEF oscore_post

\* edhoc_post() answers with message_2 of the key it has just drawn, and with
\* message_4 only when the session is installed.
LEMMA EdhocReplySound ==
  ASSUME DeviceInv, NEW m \in EdhocPost, NEW fail, edhoc_post(m, fail),
         NEW a \in edhoc_reply(m, fail)
  PROVE  \/ a = Message2(m.x, drawn') /\ drawn' \in Nat \ {0}
         \/ a = Message4(m.x, m.y) /\ <<m.x, m.y>> \in Session /\ installed'[<<m.x, m.y>>] = 1
<1> USE DEF DeviceInv
<1>1. CASE m.type = "message_1" /\ fail = "none"
  <2>1. edhoc_message_1(m, fail)
    BY <1>1 DEF edhoc_post, edhoc_message_3_refused, edhoc_message_3_unexpected, edhoc_unframed,
                edhoc_message_3
  <2>2. drawn' = drawn + 1 /\ drawn \in Nat
    BY <1>1, <2>1 DEF edhoc_message_1, Message1Stage, DeviceTypeOK
  <2> QED
    BY <1>1, <2>2 DEF edhoc_reply
<1>2. CASE m.type # "message_1" \/ fail # "none"
  <2>1. /\ m.type = "message_3" /\ fail = "none" /\ edhoc_ctx_active /\ message_3_accepted(m)
        /\ a = Message4(m.x, m.y)
    BY <1>2 DEF edhoc_reply
  <2>2. edhoc_message_3(m, fail)
    BY <2>1 DEF edhoc_post, edhoc_message_1, edhoc_message_3_refused, edhoc_message_3_unexpected,
                edhoc_unframed
  <2>3. <<m.x, m.y>> = edhoc_ctx /\ edhoc_ctx \in Session /\ installed[edhoc_ctx] = 0
    BY <2>1 DEF message_3_accepted, FreshKeys
  <2>4. installed' = [installed EXCEPT ![edhoc_ctx] = @ + 1]
    BY <2>1, <2>2 DEF edhoc_message_3, derive_and_init_oscore, Message3Stage
  <2>5. installed'[edhoc_ctx] = 1
    BY <2>3, <2>4 DEF DeviceTypeOK
  <2> QED
    BY <2>1, <2>3, <2>5
<1> QED
  BY <1>1, <1>2

\* oscore_post() answers a protected request only once it ran, under its keys.
LEMMA OscoreReplySound ==
  ASSUME DeviceInv, NEW m \in RootPost, NEW fail, oscore_post(m, fail), m.type = "protected",
         NEW a \in oscore_reply(m, fail)
  PROVE  /\ a.type = "answer" /\ a.key = m.key /\ a.piv = m.piv
         /\ m.piv \in Piv /\ dispatched'[m.key][m.piv] = 1
<1> USE DEF DeviceInv
<1>1. /\ oscore_ready /\ oscore2coap_ok(m) /\ fail = "none"
      /\ a = Answer(IF exported = oscore_ctx THEN oscore_ctx ELSE NoSession, m.piv,
                    coap_server_dispatch_inner(m.req, led_state))
  BY DEF oscore_reply, session_usable
<1>2. exported = oscore_ctx /\ m.key = oscore_ctx /\ m.piv \notin replay
  BY <1>1 DEF ConsistentContext, oscore2coap_ok
<1>3. m.piv \in Piv /\ m.key \in Session
  BY RootPostFields
<1>4. dispatched' = [dispatched EXCEPT ![m.key][m.piv] = @ + 1]
  BY <1>1 DEF oscore_post, oscore_post_refused, oscore_post_accepted, session_usable
<1>5. ~ (dispatched[m.key][m.piv] > 0)
  BY <1>1, <1>2, <1>3 DEF WindowCovers
<1>6. dispatched'[m.key][m.piv] = 1
  BY <1>3, <1>4, <1>5 DEF DeviceTypeOK
<1> QED
  BY <1>1, <1>2, <1>3, <1>6 DEF Answer

\* The device's side of a delivery: it grows, replies with what is genuine,
\* and its session is the old one or that of the sender of message_3.
LEMMA HandleInv ==
  ASSUME SystemInv, NEW m \in toDev, NEW fail, Handle(m, fail), UNCHANGED clientVars,
         toDev' \subseteq toDev, faults' \in 0..MaxFaults
  PROVE  SystemInv'
<1> USE DEF SystemInv
<1>1. UNCHANGED <<c_pc, c_y, c_i, c_ssn, c_res>>
  BY DEF clientVars
<1>2. ClientSound'
  BY <1>1 DEF ClientSound, Secured
<1>3. ClientGrows
  <2>1. \A r \in GX : c_ssn[r] \in Nat
    BY SsnNat
  <2> QED
    BY <1>1, <2>1 DEF ClientGrows, Secured
<1>4. \A r : Key(r)' = Key(r) /\ Secured(r)' = Secured(r)
  BY <1>1 DEF Key, Secured
<1>5. CASE m.type \in {"message_1", "message_3"}
  <2>1. edhoc_post(m, fail) /\ Return(m.x, edhoc_reply(m, fail)) /\ m.x \in GX /\ m \in EdhocPost
    BY <1>5, ToDevFields DEF Handle, Sender
  <2>2. DeviceInv' /\ DeviceGrows
    BY <2>1, EdhocPostInv, EdhocPostGrows
  <2>3. toHost' = toHost \/ toHost' = [toHost EXCEPT ![m.x] = @ \cup edhoc_reply(m, fail)]
    BY <2>1 DEF Return
  <2>4. SystemTypeOK'
    BY <1>1, <2>2, <2>3 DEF DeviceInv, SystemTypeOK
  <2>5. ASSUME NEW r \in GX, NEW a \in toHost'[r], a \notin toHost[r] PROVE GenuineToHost(r, a)'
    <3>1. r = m.x /\ a \in edhoc_reply(m, fail)
      BY <2>1, <2>3, <2>5 DEF SystemTypeOK
    <3>2. CASE a = Message2(m.x, drawn') /\ drawn' \in Nat \ {0}
      BY <3>1, <3>2 DEF GenuineToHost
    <3>3. CASE a = Message4(m.x, m.y) /\ <<m.x, m.y>> \in Session /\ installed'[<<m.x, m.y>>] = 1
      BY <3>1, <3>3 DEF GenuineToHost, Session
    <3> QED
      BY <2>1, <3>1, <3>2, <3>3, EdhocReplySound
  <2>6. oscore_ready' =>
            \/ oscore_ready /\ oscore_ctx' = oscore_ctx
            \/ \E r \in GX : oscore_ctx' = Key(r)' /\ c_pc'[r] \notin {"idle", "wait2"}
    <3>1. CASE edhoc_message_1(m, fail)
      BY <3>1 DEF edhoc_message_1, drop_session
    <3>2. CASE edhoc_message_3(m, fail)
      <4>1. /\ m.type = "message_3" /\ <<m.x, m.y>> = edhoc_ctx /\ ~ oscore_ready
        BY <3>2 DEF edhoc_message_3, message_3_accepted, DeviceInv, HandshakeExcludesSession
      <4>2. oscore_ready' => oscore_ctx' = edhoc_ctx
        BY <3>2, <4>1 DEF edhoc_message_3, derive_and_init_oscore
      <4>3. <<m.x, m.y>> = Key(m.x) /\ c_pc[m.x] \notin {"idle", "wait2"}
        BY <4>1, ToDevFields
      <4> QED
        BY <1>1, <1>4, <2>1, <4>1, <4>2, <4>3
    <3>3. CASE UNCHANGED <<oscore_ready, oscore_ctx>>
      BY <3>3
    <3> QED
      BY <2>1, <3>1, <3>2, <3>3
      DEF edhoc_post, edhoc_message_3_refused, edhoc_message_3_unexpected, edhoc_unframed,
          deviceVars, oscoreVars
  <2> QED
    BY <1>1, <1>2, <1>3, <1>4, <2>2, <2>4, <2>5, <2>6, FrameInv
<1>6. CASE m.type = "protected"
  <2> DEFINE s == m.key[1]
  <2>1. /\ oscore_post(m, fail) /\ Return(s, oscore_reply(m, fail)) /\ s \in GX /\ m \in RootPost
        /\ m.key = Key(s) /\ Secured(s) /\ m.piv < c_ssn[s]
    BY <1>6, ToDevFields DEF Handle, Sender
  <2>2. DeviceInv' /\ DeviceGrows
    BY <2>1, OscorePostInv, OscorePostGrows
  <2>3. toHost' = toHost \/ toHost' = [toHost EXCEPT ![s] = @ \cup oscore_reply(m, fail)]
    BY <2>1 DEF Return
  <2>4. SystemTypeOK'
    BY <1>1, <2>2, <2>3 DEF DeviceInv, SystemTypeOK
  <2>5. ASSUME NEW r \in GX, NEW a \in toHost'[r], a \notin toHost[r] PROVE GenuineToHost(r, a)'
    <3>1. r = s /\ a \in oscore_reply(m, fail)
      BY <2>1, <2>3, <2>5 DEF SystemTypeOK
    <3>2. /\ a.type = "answer" /\ a.key = m.key /\ a.piv = m.piv
          /\ m.piv \in Piv /\ dispatched'[m.key][m.piv] = 1
      BY <1>6, <2>1, <3>1, OscoreReplySound
    <3> QED
      BY <1>1, <1>4, <2>1, <3>1, <3>2 DEF GenuineToHost
  <2>6. UNCHANGED <<oscore_ready, oscore_ctx>>
    BY <2>1 DEF oscore_post, oscore_post_refused, oscore_post_accepted, deviceVars, oscoreVars
  <2> QED
    BY <1>1, <1>2, <1>3, <1>4, <2>2, <2>4, <2>5, <2>6, FrameInv
<1> QED
  BY <1>5, <1>6 DEF Handle

\* Losing a datagram, or the statics of the device, makes nothing ungenuine.
LEMMA LossInv ==
  ASSUME SystemInv, Reboot \/ UNCHANGED deviceVars, UNCHANGED clientVars,
         toDev' \subseteq toDev, faults' \in 0..MaxFaults,
         \/ toHost' = toHost
         \/ \E r \in GX : \E m \in toHost[r] : toHost' = [toHost EXCEPT ![r] = @ \ {m}]
  PROVE  SystemInv'
<1> USE DEF SystemInv
<1>1. UNCHANGED <<c_pc, c_y, c_i, c_ssn, c_res>>
  BY DEF clientVars
<1>2. ClientSound'
  BY <1>1 DEF ClientSound, Secured
<1>3. ClientGrows
  <2>1. \A r \in GX : c_ssn[r] \in Nat
    BY SsnNat
  <2> QED
    BY <1>1, <2>1 DEF ClientGrows, Secured
<1>4. \A r : Key(r)' = Key(r) /\ Secured(r)' = Secured(r)
  BY <1>1 DEF Key, Secured
<1>5. DeviceInv'
  BY RebootInv, StutterInv
<1>6. DeviceGrows
  BY DEF Reboot, deviceVars, edhocVars, oscoreVars, DeviceGrows, DeviceInv, DeviceTypeOK
<1>7. SystemTypeOK'
  BY <1>1, <1>5 DEF DeviceInv, SystemTypeOK
<1>8. \A r \in GX : toHost'[r] \subseteq toHost[r]
  BY DEF SystemTypeOK
<1>9. oscore_ready' => oscore_ready /\ oscore_ctx' = oscore_ctx
  BY DEF Reboot, deviceVars, oscoreVars
<1> QED
  BY <1>1, <1>2, <1>3, <1>4, <1>5, <1>6, <1>7, <1>8, <1>9, FrameInv

-----------------------------------------------------------------------------
(***************************************************************************)
(* The clients.                                                            *)
(***************************************************************************)

\* FrameInv for a step that leaves the device alone.
LEMMA ClientFrameInv ==
  ASSUME SystemInv, UNCHANGED deviceVars, ClientSound', ClientGrows,
         SystemTypeOK',
         \A m \in toDev' : m \in toDev \/ GenuineToDev(m)',
         \A r \in GX : toHost'[r] \subseteq toHost[r],
         \A r \in GX : Secured(r)' => Secured(r) \/ installed[Key(r)'] = 1,
         \A r \in GX, i \in Run : c_res'[r][i] = c_res[r][i] \/ HonestOutcome(r, i)'
  PROVE  SystemInv'
<1>1. UNCHANGED <<drawn, installed, dispatched, oscore_ready, oscore_ctx>>
  BY DEF deviceVars, edhocVars, oscoreVars
<1>2. DeviceInv' /\ DeviceTypeOK
  BY StutterInv DEF SystemInv, DeviceInv
<1>3. DeviceGrows
  BY <1>1, <1>2 DEF DeviceGrows, DeviceTypeOK
<1> QED
  BY <1>1, <1>2, <1>3, FrameInv

\* The end of an execution: without a session, or at the end of its script.
LEMMA ExitInv ==
  ASSUME SystemInv, UNCHANGED deviceVars, NEW r \in GX, NEW how, Exit(r, how),
         \/ how = "failed" /\ ~ Secured(r)
         \/ how = "done" /\ c_pc[r] = "ready",
         UNCHANGED <<c_y, c_i, c_ssn, c_res, toDev>>, faults' \in 0..MaxFaults
  PROVE  SystemInv'
<1> USE DEF SystemInv
<1>1. /\ c_pc' = [c_pc EXCEPT ![r] = how] /\ toHost' = [toHost EXCEPT ![r] = {}]
      /\ c_pc \in [GX -> Pc] /\ toHost = [q \in GX |-> toHost[q]]
  BY DEF Exit, SystemTypeOK
<1>2. DeviceTypeOK' => SystemTypeOK'
  BY <1>1 DEF SystemTypeOK, Pc
<1>3. \A q \in GX : Secured(q)' = Secured(q)
  BY <1>1 DEF Secured
<1>4. ClientSound'
  BY <1>1, <1>3 DEF ClientSound
<1>5. ClientGrows
  <2>1. \A q \in GX : c_ssn[q] \in Nat
    BY SsnNat
  <2> QED
    BY <1>1, <1>3, <2>1 DEF ClientGrows
<1>6. \A q \in GX : toHost'[q] \subseteq toHost[q]
  BY <1>1
<1>7. DeviceTypeOK'
  BY StutterInv DEF DeviceInv
<1> QED
  BY <1>2, <1>3, <1>4, <1>5, <1>6, <1>7, ClientFrameInv

\* An execution starts.
LEMMA SendMessage1Inv ==
  ASSUME SystemInv, UNCHANGED <<deviceVars, faults>>, NEW r \in GX, SendMessage1(r)
  PROVE  SystemInv'
<1> USE DEF SystemInv
<1>1. /\ c_pc[r] = "idle" /\ c_pc' = [c_pc EXCEPT ![r] = "wait2"] /\ c_pc \in [GX -> Pc]
      /\ toDev' = toDev \cup {Message1(r)} /\ UNCHANGED <<c_y, c_i, c_ssn, c_res, toHost>>
  BY DEF SendMessage1, Post, SystemTypeOK
<1>2. \A q \in GX : Secured(q)' = Secured(q)
  BY <1>1 DEF Secured
<1>3. SystemTypeOK'
  <2>1. DeviceTypeOK'
    BY StutterInv DEF DeviceInv
  <2> QED
    BY <1>1, <2>1 DEF SystemTypeOK, Pc
<1>4. ClientSound'
  BY <1>1, <1>2 DEF ClientSound
<1>5. ClientGrows
  <2>1. \A q \in GX : c_ssn[q] \in Nat
    BY SsnNat
  <2> QED
    BY <1>1, <1>2, <2>1 DEF ClientGrows
<1>6. \A m \in toDev' : m \in toDev \/ GenuineToDev(m)'
  BY <1>1 DEF GenuineToDev
<1> QED
  BY <1>1, <1>2, <1>3, <1>4, <1>5, <1>6, ClientFrameInv

\* message_2 fixes the responder's key: it is one that was drawn.
LEMMA RecvMessage2Inv ==
  ASSUME SystemInv, UNCHANGED <<deviceVars, faults>>, NEW r \in GX, NEW m \in toHost[r],
         RecvMessage2(r, m)
  PROVE  SystemInv'
<1> USE DEF SystemInv
<1>1. /\ c_pc[r] = "wait2" /\ c_pc' = [c_pc EXCEPT ![r] = "wait4"] /\ c_pc \in [GX -> Pc]
      /\ c_y' = [c_y EXCEPT ![r] = m.y] /\ c_y \in [GX -> 0..MaxDraws]
      /\ toHost' = [toHost EXCEPT ![r] = @ \ {m}] /\ toHost = [q \in GX |-> toHost[q]]
      /\ toDev' = toDev \cup {Message3(r, m.y, ED_KID_I)}
      /\ UNCHANGED <<c_i, c_ssn, c_res>>
  BY DEF RecvMessage2, Consumed, Post, SystemTypeOK
<1>2. m.y \in GY
  <2>1. m.type = "message_2" /\ GenuineToHost(r, m)
    BY DEF RecvMessage2, message_2_accepted, FlightSound
  <2>2. PICK y \in 1..drawn : m = Message2(r, y)
    <3>1. \A y : Message4(r, y).type = "message_4"
      BY DEF Message4
    <3>2. ~ \E y \in GY : m = Message4(r, y)
      BY <2>1, <3>1
    <3> QED
      BY <2>1, <3>2 DEF GenuineToHost
  <2>3. m.y = y /\ drawn \in 0..MaxDraws
    BY <2>2 DEF Message2, DeviceInv, DeviceTypeOK
  <2> QED
    BY <2>3, DrawsAssumption DEF GY
<1>3. \A q \in GX : /\ Secured(q)' = Secured(q)
                    /\ Secured(q) => q # r
                    /\ q # r => c_y'[q] = c_y[q] /\ c_pc'[q] = c_pc[q]
  BY <1>1 DEF Secured
<1>4. c_y'[r] = m.y /\ c_pc'[r] = "wait4"
  BY <1>1
<1>5. SystemTypeOK'
  <2>1. DeviceTypeOK'
    BY StutterInv DEF DeviceInv
  <2>2. m.y \in 0..MaxDraws
    BY <1>2, DrawsAssumption DEF GY
  <2> QED
    BY <1>1, <2>1, <2>2 DEF SystemTypeOK, Pc
<1>6. ClientSound'
  BY <1>1, <1>2, <1>3, <1>4 DEF ClientSound
<1>7. ClientGrows
  <2>1. \A q \in GX : c_ssn[q] \in Nat
    BY SsnNat
  <2> QED
    BY <1>1, <1>3, <1>4, <2>1 DEF ClientGrows
<1>8. \A d \in toDev' : d \in toDev \/ GenuineToDev(d)'
  BY <1>1, <1>2, <1>4 DEF GenuineToDev
<1>9. \A q \in GX : toHost'[q] \subseteq toHost[q]
  BY <1>1
<1> QED
  BY <1>1, <1>3, <1>5, <1>6, <1>7, <1>8, <1>9, ClientFrameInv

\* message_4 tells the client that the device installed the session.
LEMMA RecvMessage4Inv ==
  ASSUME SystemInv, UNCHANGED <<deviceVars, faults>>, NEW r \in GX, NEW m \in toHost[r],
         RecvMessage4(r, m)
  PROVE  SystemInv'
<1> USE DEF SystemInv
<1>1. /\ c_pc[r] = "wait4" /\ c_pc' = [c_pc EXCEPT ![r] = "ready"] /\ c_pc \in [GX -> Pc]
      /\ toHost' = [toHost EXCEPT ![r] = @ \ {m}] /\ toHost = [q \in GX |-> toHost[q]]
      /\ UNCHANGED <<c_y, c_i, c_ssn, c_res, toDev>>
  BY DEF RecvMessage4, Consumed, SystemTypeOK
<1>2. installed[Key(r)] = 1 /\ c_y[r] \in GY
  <2>1. m = Message4(r, c_y[r]) /\ GenuineToHost(r, m)
    BY DEF RecvMessage4, message_4_accepted, FlightSound
  <2>2. PICK y \in GY : m = Message4(r, y) /\ installed[<<r, y>>] = 1
    BY <2>1 DEF GenuineToHost, Message4, Message2
  <2>3. y = c_y[r]
    BY <2>1, <2>2 DEF Message4
  <2> QED
    BY <2>2, <2>3 DEF Key
<1>3. \A q \in GX : /\ Key(q)' = Key(q)
                    /\ Secured(q) => Secured(q)'
                    /\ q # r => Secured(q)' = Secured(q) /\ c_pc'[q] = c_pc[q]
  BY <1>1 DEF Secured, Key
<1>4. SystemTypeOK'
  <2>1. DeviceTypeOK'
    BY StutterInv DEF DeviceInv
  <2> QED
    BY <1>1, <2>1 DEF SystemTypeOK, Pc
<1>5. ClientSound'
  BY <1>1, <1>2, <1>3 DEF ClientSound
<1>6. ClientGrows
  <2>1. \A q \in GX : c_ssn[q] \in Nat
    BY SsnNat
  <2> QED
    BY <1>1, <1>3, <2>1 DEF ClientGrows
<1>7. \A q \in GX : toHost'[q] \subseteq toHost[q]
  BY <1>1
<1> QED
  BY <1>1, <1>2, <1>3, <1>4, <1>5, <1>6, <1>7, ClientFrameInv

\* The next request, with the next PIV.
LEMMA SendRequestInv ==
  ASSUME SystemInv, UNCHANGED <<deviceVars, faults>>, NEW r \in GX, SendRequest(r)
  PROVE  SystemInv'
<1> USE DEF SystemInv
<1>1. /\ c_pc[r] = "ready" /\ c_pc' = [c_pc EXCEPT ![r] = "wait_rsp"] /\ c_pc \in [GX -> Pc]
      /\ c_i[r] < Len(Script) /\ c_i' = [c_i EXCEPT ![r] = @ + 1]
      /\ c_i \in [GX -> 0..Len(Script)]
      /\ c_ssn' = [c_ssn EXCEPT ![r] = @ + 1] /\ c_ssn \in [GX -> 0..Len(Script)]
      /\ c_ssn[r] <= c_i[r]
      /\ toDev' = toDev \cup {Protected(Key(r), c_ssn[r], Script[c_i[r] + 1])}
      /\ UNCHANGED <<c_y, c_res, toHost>>
  BY DEF SendRequest, Post, SystemTypeOK
<1>2. Len(Script) \in Nat /\ \A q \in GX : c_ssn[q] \in Nat /\ c_i[q] \in Nat
  BY SsnNat
<1>3. /\ c_i[r] + 1 \in Run /\ c_ssn[r] + 1 \in Run
      /\ c_i'[r] = c_i[r] + 1 /\ c_ssn'[r] = c_ssn[r] + 1
      /\ \A q \in GX : q # r => c_i'[q] = c_i[q] /\ c_ssn'[q] = c_ssn[q]
  BY <1>1, <1>2 DEF Run
<1>4. c_ssn[r] \in Piv
  <2>1. (c_ssn[r] + 1) - 1 \in Piv
    BY <1>3, ScriptRequests
  <2> QED
    BY <1>2, <2>1
<1>5. \A q \in GX : /\ Key(q)' = Key(q) /\ Secured(q)' = Secured(q)
                    /\ q # r => c_pc'[q] = c_pc[q]
  BY <1>1 DEF Secured, Key
<1>6. Secured(r) /\ c_pc'[r] = "wait_rsp"
  BY <1>1 DEF Secured
<1>7. SystemTypeOK'
  <2>1. DeviceTypeOK'
    BY StutterInv DEF DeviceInv
  <2>2. c_i' \in [GX -> 0..Len(Script)] /\ c_ssn' \in [GX -> 0..Len(Script)]
    BY <1>1, <1>2
  <2>3. \A q \in GX : c_ssn'[q] <= c_i'[q]
    BY <1>1, <1>2, <1>3 DEF SystemTypeOK
  <2> QED
    BY <1>1, <2>1, <2>2, <2>3 DEF SystemTypeOK, Pc
<1>8. ClientSound'
  <2>1. \A i \in Run : i \in Nat
    BY <1>2 DEF Run
  <2>2. ASSUME NEW q \in GX, NEW i \in Run, c_res'[q][i].ok
        PROVE  Secured(q)' /\ i <= c_i'[q] /\ (c_pc'[q] = "wait_rsp" => i < c_i'[q])
    <3>1. Secured(q) /\ i <= c_i[q] /\ (c_pc[q] = "wait_rsp" => i < c_i[q])
      BY <1>1, <2>2 DEF ClientSound
    <3> QED
      BY <1>2, <1>3, <1>5, <2>1, <3>1
  <2>3. \A q \in GX : c_pc'[q] = "wait_rsp" => c_i'[q] \in Run
    BY <1>3, <1>5 DEF ClientSound
  <2>4. \A q \in GX : c_pc'[q] = "wait4" \/ Secured(q)' => c_y'[q] \in GY
    BY <1>1, <1>5, <1>6 DEF ClientSound
  <2> QED
    BY <2>2, <2>3, <2>4 DEF ClientSound
<1>9. ClientGrows
  BY <1>1, <1>2, <1>3, <1>5, <1>6 DEF ClientGrows
<1>10. \A d \in toDev' : d \in toDev \/ GenuineToDev(d)'
  <2> SUFFICES ASSUME NEW d, d = Protected(Key(r), c_ssn[r], Script[c_i[r] + 1])
               PROVE  GenuineToDev(d)'
    BY <1>1
  <2>1. PICK n \in Piv, i \in Run : n = c_ssn[r] /\ i = c_i[r] + 1
    BY <1>3, <1>4
  <2>2. n < c_ssn'[r] /\ d = Protected(Key(r)', n, Script[i]) /\ Secured(r)'
    BY <1>2, <1>3, <1>5, <1>6, <2>1
  <2> QED
    BY <2>2 DEF GenuineToDev
<1> QED
  BY <1>1, <1>5, <1>7, <1>8, <1>9, <1>10, ClientFrameInv

\* A request that could not be sent: the script goes on without it.
LEMMA SendRequestFailsInv ==
  ASSUME SystemInv, UNCHANGED deviceVars, faults' \in 0..MaxFaults,
         NEW r \in GX, SendRequestFails(r)
  PROVE  SystemInv'
<1> USE DEF SystemInv
<1>1. /\ c_pc[r] = "ready" /\ c_i[r] < Len(Script)
      /\ c_i' = [c_i EXCEPT ![r] = @ + 1] /\ c_i \in [GX -> 0..Len(Script)]
      /\ c_ssn' = c_ssn \/ c_ssn' = [c_ssn EXCEPT ![r] = @ + 1]
      /\ c_ssn \in [GX -> 0..Len(Script)] /\ \A q \in GX : c_ssn[q] <= c_i[q]
      /\ UNCHANGED <<c_pc, c_y, c_res, toDev, toHost>>
  BY DEF SendRequestFails, SystemTypeOK
<1>2. Len(Script) \in Nat /\ \A q \in GX : c_ssn[q] \in Nat /\ c_i[q] \in Nat
  BY SsnNat
<1>3. /\ c_i'[r] = c_i[r] + 1 /\ c_ssn'[r] \in {c_ssn[r], c_ssn[r] + 1}
      /\ \A q \in GX : q # r => c_i'[q] = c_i[q] /\ c_ssn'[q] = c_ssn[q]
  BY <1>1
<1>4. \A q \in GX : Key(q)' = Key(q) /\ Secured(q)' = Secured(q)
  BY <1>1 DEF Secured, Key
<1>5. SystemTypeOK'
  <2>1. DeviceTypeOK'
    BY StutterInv DEF DeviceInv
  <2>2. c_i' \in [GX -> 0..Len(Script)] /\ c_ssn' \in [GX -> 0..Len(Script)]
    <3>1. c_i[r] + 1 \in 0..Len(Script) /\ c_ssn[r] + 1 \in 0..Len(Script)
      BY <1>1, <1>2
    <3>2. c_i' \in [GX -> 0..Len(Script)]
      BY <1>1, <3>1
    <3>3. c_ssn' \in [GX -> 0..Len(Script)]
      BY <1>1, <3>1
    <3> QED
      BY <3>2, <3>3
  <2>3. \A q \in GX : c_ssn'[q] <= c_i'[q]
    BY <1>1, <1>2, <1>3
  <2> QED
    BY <1>1, <2>1, <2>2, <2>3 DEF SystemTypeOK
<1>6. ClientSound'
  <2>1. \A i \in Run : i \in Nat
    BY <1>2 DEF Run
  <2>2. ASSUME NEW q \in GX, NEW i \in Run, c_res'[q][i].ok
        PROVE  Secured(q)' /\ i <= c_i'[q] /\ (c_pc'[q] = "wait_rsp" => i < c_i'[q])
    <3>1. Secured(q) /\ i <= c_i[q] /\ (c_pc[q] = "wait_rsp" => i < c_i[q])
      BY <1>1, <2>2 DEF ClientSound
    <3> QED
      BY <1>1, <1>2, <1>3, <1>4, <2>1, <3>1
  <2>3. \A q \in GX : c_pc'[q] = "wait_rsp" => c_i'[q] \in Run
    BY <1>1, <1>3 DEF ClientSound
  <2>4. \A q \in GX : c_pc'[q] = "wait4" \/ Secured(q)' => c_y'[q] \in GY
    BY <1>1, <1>4 DEF ClientSound
  <2> QED
    BY <2>2, <2>3, <2>4 DEF ClientSound
<1>7. ClientGrows
  BY <1>1, <1>2, <1>3, <1>4 DEF ClientGrows
<1> QED
  BY <1>1, <1>4, <1>5, <1>6, <1>7, ClientFrameInv

\* What RecvResponse records: a good outcome is that of a request of this run
\* which the device executed.
LEMMA OutcomeSound ==
  ASSUME SystemInv, NEW r \in GX, NEW m \in toHost[r], c_pc[r] = "wait_rsp",
         NEW ok \in decrypts(r, m), NEW o,
         o = Outcome(IF Awaited(r, m) THEN "own" ELSE "other",
                     IF m.type = "answer" THEN m.piv ELSE 0, ok)
  PROVE  /\ o \in [by : {"none", "own", "other"}, piv : Piv, ok : BOOLEAN]
         /\ o.by = "own" => o.ok
         /\ o.ok => o.piv < c_ssn[r] /\ dispatched[Key(r)][o.piv] = 1
<1> USE DEF SystemInv
<1>1. GenuineToHost(r, m)
  BY DEF FlightSound
<1>2. m.type = "answer" => /\ m.piv \in Piv /\ m.piv < c_ssn[r]
                           /\ dispatched[Key(r)][m.piv] = 1
  <2>1. \A y : Message2(r, y).type # "answer" /\ Message4(r, y).type # "answer"
    BY DEF Message2, Message4
  <2> QED
    BY <1>1, <2>1 DEF GenuineToHost
<1>3. 0 \in Piv
  <2>1. c_i[r] \in Run /\ Len(Script) \in Nat
    BY SsnNat DEF ClientSound
  <2>2. 1 \in Run
    BY <2>1 DEF Run
  <2>3. 1 - 1 \in Piv
    BY <2>2, ScriptRequests
  <2> QED
    BY <2>3
<1>4. ok \in BOOLEAN /\ (ok => m.type = "answer")
  BY DEF decrypts
<1>5. o.ok = ok /\ (m.type = "answer" => o.piv = m.piv)
  BY DEF Outcome
<1>7. o.by = "own" => o.ok
  <2>1. o.by = "own" => Awaited(r, m)
    BY DEF Outcome
  <2> QED
    BY <1>5, <2>1 DEF Awaited, decrypts
<1>6. o \in [by : {"none", "own", "other"}, piv : Piv, ok : BOOLEAN]
  BY <1>2, <1>3, <1>4 DEF Outcome
<1> QED
  BY <1>2, <1>4, <1>5, <1>6, <1>7

\* A wait for a response ends, with one (an outcome is recorded) or without.
LEMMA WaitOverInv ==
  ASSUME SystemInv, UNCHANGED deviceVars, faults' \in 0..MaxFaults, NEW r \in GX,
         c_pc[r] = "wait_rsp", c_pc' = [c_pc EXCEPT ![r] = "ready"],
         UNCHANGED <<c_y, c_i, c_ssn, toDev>>,
         toHost' = toHost \/ \E m : toHost' = [toHost EXCEPT ![r] = @ \ {m}],
         \/ c_res' = c_res
         \/ \E o \in [by : {"none", "own", "other"}, piv : Piv, ok : BOOLEAN] :
               /\ c_res' = [c_res EXCEPT ![r][c_i[r]] = o]
               /\ o.by = "own" => o.ok
               /\ o.ok => o.piv < c_ssn[r] /\ dispatched[Key(r)][o.piv] = 1
  PROVE  SystemInv'
<1> USE DEF SystemInv
<1> DEFINE Out == [by : {"none", "own", "other"}, piv : Piv, ok : BOOLEAN]
<1>1. /\ c_pc \in [GX -> Pc] /\ toHost = [q \in GX |-> toHost[q]]
      /\ c_res \in [GX -> [Run -> Out]]
  BY DEF SystemTypeOK
<1>2. c_i[r] \in Run /\ c_i[r] \in Nat /\ \A q \in GX : c_ssn[q] \in Nat
  BY SsnNat DEF ClientSound
<1>3. /\ c_pc'[r] = "ready" /\ \A q \in GX : q # r => c_pc'[q] = c_pc[q]
  BY <1>1
<1>4. \A q \in GX : Key(q)' = Key(q) /\ Secured(q)' = Secured(q)
  BY <1>1 DEF Secured, Key
<1>5. \A q \in GX, i \in Run : q # r \/ i # c_i[r] => c_res'[q][i] = c_res[q][i]
  BY <1>1, <1>2
<1>6. /\ c_res' \in [GX -> [Run -> Out]]
      /\ \/ c_res'[r][c_i[r]] = c_res[r][c_i[r]]
         \/ /\ c_res'[r][c_i[r]] \in Out
            /\ c_res'[r][c_i[r]].by = "own" => c_res'[r][c_i[r]].ok
            /\ c_res'[r][c_i[r]].ok => /\ c_res'[r][c_i[r]].piv < c_ssn[r]
                                       /\ dispatched[Key(r)][c_res'[r][c_i[r]].piv] = 1
  <2>1. CASE c_res' = c_res
    BY <1>1, <2>1
  <2>2. CASE \E o \in Out : /\ c_res' = [c_res EXCEPT ![r][c_i[r]] = o]
                            /\ o.by = "own" => o.ok
                            /\ o.ok => o.piv < c_ssn[r] /\ dispatched[Key(r)][o.piv] = 1
    <3> HIDE DEF Out
    <3> QED
      BY <1>1, <1>2, <2>2
  <2> QED
    BY <2>1, <2>2
<1>7. SystemTypeOK'
  <2>1. DeviceTypeOK'
    BY StutterInv DEF DeviceInv
  <2>2. c_pc' \in [GX -> Pc]
    BY <1>1 DEF Pc
  <2>3. toHost' = [q \in GX |-> toHost'[q]]
    BY <1>1
  <2> QED
    BY <1>6, <2>1, <2>2, <2>3 DEF SystemTypeOK
<1>8. ClientSound'
  <2>1. \A i \in Run : i \in Nat
    BY SsnNat DEF Run
  <2>2. ASSUME NEW q \in GX, NEW i \in Run, c_res'[q][i].ok
        PROVE  Secured(q)' /\ i <= c_i'[q] /\ (c_pc'[q] = "wait_rsp" => i < c_i'[q])
    <3>1. CASE q = r /\ i = c_i[r]
      <4>1. Secured(r)
        BY DEF Secured
      <4> QED
        BY <1>2, <1>3, <1>4, <3>1, <4>1
    <3>2. CASE q # r \/ i # c_i[r]
      <4>1. Secured(q) /\ i <= c_i[q] /\ (c_pc[q] = "wait_rsp" => i < c_i[q])
        BY <1>5, <2>2, <3>2 DEF ClientSound
      <4> QED
        BY <1>3, <1>4, <4>1
    <3> QED
      BY <3>1, <3>2
  <2>3. \A q \in GX : /\ c_pc'[q] = "wait_rsp" => c_i'[q] \in Run
                      /\ c_pc'[q] = "wait4" \/ Secured(q)' => c_y'[q] \in GY
    BY <1>3, <1>4 DEF ClientSound
  <2> QED
    BY <2>2, <2>3 DEF ClientSound
<1>9. ClientGrows
  BY <1>2, <1>3, <1>4 DEF ClientGrows
<1>10. \A q \in GX : toHost'[q] \subseteq toHost[q]
  BY <1>1
<1>11. \A q \in GX, i \in Run : c_res'[q][i] = c_res[q][i] \/ HonestOutcome(q, i)'
  <2>1. c_res'[r][c_i[r]] = c_res[r][c_i[r]] \/ HonestOutcome(r, c_i[r])'
    <3>1. c_ssn[r] <= c_i[r] /\ UNCHANGED dispatched
      BY DEF SystemTypeOK, deviceVars
    <3>2. \A n \in Piv : n \in Nat
      BY PivAssumption
    <3>3. c_res'[r][c_i[r]] \in Out => c_res'[r][c_i[r]].piv \in Piv
      OBVIOUS
    <3> HIDE DEF Out
    <3> QED
      BY <1>2, <1>4, <1>6, <3>1, <3>2, <3>3 DEF HonestOutcome
  <2> QED
    BY <1>2, <1>5, <2>1
<1> QED
  BY <1>4, <1>7, <1>8, <1>9, <1>10, <1>11, ClientFrameInv

-----------------------------------------------------------------------------
(***************************************************************************)
(* The system.                                                             *)
(***************************************************************************)

\* Before anything is sent.
LEMMA SystemInitInv == SystemInit => SystemInv
<1> SUFFICES ASSUME SystemInit PROVE SystemInv
  OBVIOUS
<1>1. DeviceInv
  BY DeviceInitInv DEF SystemInit
<1>2. /\ c_pc = [r \in GX |-> "idle"] /\ c_y = [r \in GX |-> 0]
      /\ c_i = [r \in GX |-> 0] /\ c_ssn = [r \in GX |-> 0]
      /\ c_res = [r \in GX |-> [i \in Run |-> Unanswered]]
      /\ toDev = {} /\ toHost = [r \in GX |-> {}] /\ faults = 0 /\ oscore_ready = FALSE
  BY DEF SystemInit, ClientInit, DeviceInit, PowerOn
<1>3. \A r \in GX : ~ Secured(r) /\ \A i \in Run : ~ c_res[r][i].ok /\ c_res[r][i].by = "none"
  BY <1>2 DEF Secured, Unanswered, Outcome
<1>4. SystemTypeOK
  <2>1. Len(Script) \in Nat
    BY ScriptAssumption
  <2>2. \A i \in Run : 0 \in Piv
    <3>1. \A i \in Run : 1 \in Run
      BY <2>1 DEF Run
    <3>2. \A i \in Run : 1 - 1 \in Piv
      BY <3>1, ScriptRequests
    <3> QED
      BY <3>2
  <2>3. c_res \in [GX -> [Run -> [by : {"none", "own", "other"}, piv : Piv, ok : BOOLEAN]]]
    <3>1. \A i \in Run : Unanswered \in [by : {"none", "own", "other"}, piv : Piv, ok : BOOLEAN]
      BY <2>2 DEF Unanswered, Outcome
    <3> QED
      BY <1>2, <3>1
  <2>4. c_pc \in [GX -> Pc]
    BY <1>2 DEF Pc
  <2>5. c_y \in [GX -> 0..MaxDraws] /\ faults \in 0..MaxFaults
    BY <1>2, DrawsAssumption, FaultsAssumption
  <2>6. c_i \in [GX -> 0..Len(Script)] /\ c_ssn \in [GX -> 0..Len(Script)]
    BY <1>2, <2>1
  <2>7. toHost = [r \in GX |-> toHost[r]] /\ \A r \in GX : c_ssn[r] <= c_i[r]
    BY <1>2
  <2> QED
    BY <1>1, <2>3, <2>4, <2>5, <2>6, <2>7 DEF SystemTypeOK, DeviceInv
<1>5. ClientSound /\ FlightSound /\ Agreement /\ AnsweredWasDispatched
  BY <1>2, <1>3 DEF ClientSound, FlightSound, Agreement, AnsweredWasDispatched, HonestOutcome
<1> QED
  BY <1>1, <1>4, <1>5 DEF SystemInv

\* A step of the system is a delivery, a loss, a power cycle or a client's.
LEMMA FaultsInRange ==
  ASSUME SystemInv, Undisturbed \/ Disturbed
  PROVE  faults' \in 0..MaxFaults
  BY FaultsAssumption DEF SystemInv, SystemTypeOK, Undisturbed, Disturbed

\* Every step of a client preserves the invariant.
LEMMA ClientStepInv ==
  ASSUME SystemInv, NEW r \in GX,
         Start(r) \/ ClientStep(r) \/ ClientFails(r) \/ Timeout(r) \/ EarlyTimeout(r)
  PROVE  SystemInv'
<1>1. UNCHANGED deviceVars /\ faults' \in 0..MaxFaults
  BY FaultsInRange DEF Start, ClientStep, ClientFails, Timeout, EarlyTimeout
<1>2. CASE Start(r)
  BY <1>2, SendMessage1Inv DEF Start, Undisturbed
<1>3. CASE ClientStep(r)
  <2>1. UNCHANGED <<deviceVars, faults>>
    BY <1>3 DEF ClientStep, Undisturbed
  <2>2. ASSUME NEW m \in toHost[r], RecvMessage2(r, m) PROVE SystemInv'
    BY <2>1, <2>2, RecvMessage2Inv
  <2>3. ASSUME NEW m \in toHost[r], RecvMessage4(r, m) PROVE SystemInv'
    BY <2>1, <2>3, RecvMessage4Inv
  <2>4. ASSUME NEW m \in toHost[r], RecvUnusable(r, m) PROVE SystemInv'
    BY <1>1, <2>4, ExitInv DEF RecvUnusable, Secured
  <2>5. ASSUME NEW m \in toHost[r], RecvResponse(r, m) PROVE SystemInv'
    <3>1. PICK ok \in decrypts(r, m) :
             c_res' = [c_res EXCEPT ![r][c_i[r]] =
                          Outcome(IF Awaited(r, m) THEN "own" ELSE "other",
                                  IF m.type = "answer" THEN m.piv ELSE 0, ok)]
      BY <2>5 DEF RecvResponse
    <3>2. c_pc[r] = "wait_rsp" /\ c_pc' = [c_pc EXCEPT ![r] = "ready"]
          /\ UNCHANGED <<c_y, c_i, c_ssn, toDev>> /\ toHost' = [toHost EXCEPT ![r] = @ \ {m}]
      BY <2>5 DEF RecvResponse, Consumed
    <3>3. PICK o : o = Outcome(IF Awaited(r, m) THEN "own" ELSE "other",
                               IF m.type = "answer" THEN m.piv ELSE 0, ok)
      OBVIOUS
    <3>4. /\ o \in [by : {"none", "own", "other"}, piv : Piv, ok : BOOLEAN]
          /\ o.by = "own" => o.ok
          /\ o.ok => o.piv < c_ssn[r] /\ dispatched[Key(r)][o.piv] = 1
      BY <3>2, <3>3, OutcomeSound
    <3> QED
      BY <1>1, <3>1, <3>2, <3>3, <3>4, WaitOverInv
  <2>6. CASE SendRequest(r)
    BY <2>1, <2>6, SendRequestInv
  <2>7. CASE Finish(r)
    BY <1>1, <2>7, ExitInv DEF Finish
  <2> QED
    BY <1>3, <2>2, <2>3, <2>4, <2>5, <2>6, <2>7 DEF ClientStep, Receive
<1>4. CASE ClientFails(r)
  <2>1. CASE HandshakeFails(r)
    BY <1>1, <2>1, ExitInv DEF HandshakeFails, Secured
  <2>2. CASE SendRequestFails(r)
    BY <1>1, <2>2, SendRequestFailsInv
  <2> QED
    BY <1>4, <2>1, <2>2 DEF ClientFails
<1>5. CASE recv_timeout(r)
  <2>1. CASE c_pc[r] \in {"wait2", "wait4"}
    BY <1>1, <1>5, <2>1, ExitInv DEF recv_timeout, Secured
  <2>2. CASE c_pc[r] = "wait_rsp"
    BY <1>1, <1>5, <2>2, WaitOverInv DEF recv_timeout
  <2> QED
    BY <1>5, <2>1, <2>2 DEF recv_timeout
<1> QED
  BY <1>2, <1>3, <1>4, <1>5 DEF Timeout, EarlyTimeout

\* SystemInv is inductive.
LEMMA SystemStepInv == SystemInv /\ [SystemNext]_systemVars => SystemInv'
<1> SUFFICES ASSUME SystemInv, [SystemNext]_systemVars PROVE SystemInv'
  OBVIOUS
<1>1. ASSUME NEW m \in toDev, Deliver(m) \/ DeliverTwice(m) \/ DeliverFails(m)
      PROVE  SystemInv'
  <2>1. faults' \in 0..MaxFaults /\ UNCHANGED clientVars /\ toDev' \subseteq toDev
    BY <1>1, FaultsInRange DEF Deliver, DeliverTwice, DeliverFails
  <2>2. PICK fail : Handle(m, fail)
    BY <1>1 DEF Deliver, DeliverTwice, DeliverFails
  <2> QED
    BY <2>1, <2>2, HandleInv
<1>2. ASSUME NEW m \in toDev, LoseToDev(m) PROVE SystemInv'
  BY <1>2, FaultsInRange, LossInv DEF LoseToDev
<1>3. ASSUME NEW r \in GX, NEW m \in toHost[r], LoseToHost(r, m) PROVE SystemInv'
  BY <1>3, FaultsInRange, LossInv DEF LoseToHost
<1>4. CASE PowerCycle
  BY <1>4, FaultsInRange, LossInv DEF PowerCycle, linkVars
<1>5. CASE UNCHANGED systemVars
  <2>1. UNCHANGED <<deviceVars, clientVars, toDev, toHost, faults>>
    BY <1>5 DEF systemVars, linkVars
  <2>2. faults \in 0..MaxFaults
    BY DEF SystemInv, SystemTypeOK
  <2> QED
    BY <2>1, <2>2, LossInv
<1> QED
  BY <1>1, <1>2, <1>3, <1>4, <1>5, ClientStepInv DEF SystemNext

\* The inductive invariant of the two programs on the faulty link holds.
THEOREM SystemInvariant == SystemSpec => []SystemInv
<1>1. SystemInit => SystemInv
  BY SystemInitInv
<1>2. SystemInv /\ [SystemNext]_systemVars => SystemInv'
  BY SystemStepInv
<1> QED
  BY <1>1, <1>2, PTL DEF SystemSpec

\* The variables of the client and of the link keep to their ranges: in
\* particular no execution uses more PIVs than its script has requests.
THEOREM SystemTyped == SystemSpec => []SystemTypeOK
<1>1. SystemInv => SystemTypeOK
  BY DEF SystemInv
<1> QED
  BY <1>1, SystemInvariant, PTL

\* Device and client agree on the session (edhoc_post() and run_edhoc()): the
\* one the device serves belongs to an execution that sent its message_3, and
\* an execution goes on to OSCORE only under a session installed exactly once,
\* whatever is lost, repeated, reordered or fails, and over reboots.
THEOREM ClientsAgree == SystemSpec => []Agreement
<1>1. SystemInv => Agreement
  BY DEF SystemInv
<1> QED
  BY <1>1, SystemInvariant, PTL

\* A request of client.cpp that ended with its own response was executed exactly
\* once by the device; a late response that oscore_request() accepts instead is
\* that of an earlier request of the run, which was.
THEOREM AnswersExecuted == SystemSpec => []AnsweredWasDispatched
<1>1. SystemInv => AnsweredWasDispatched
  BY DEF SystemInv
<1> QED
  BY <1>1, SystemInvariant, PTL

\* Every datagram in flight is genuine: edhoc_post() confirms a handshake only
\* once its session is installed, oscore_post() answers only what ran, and a
\* client sends message_3 for one message_2 only.
THEOREM FlightIsSound == SystemSpec => []FlightSound
<1>1. SystemInv => FlightSound
  BY DEF SystemInv
<1> QED
  BY <1>1, SystemInvariant, PTL

-----------------------------------------------------------------------------
(***************************************************************************)
(* Refinement: every step of the system is a step of SecureSession, or     *)
(* none.                                                                   *)
(***************************************************************************)
AbstractStep == Abstract!Next \/ UNCHANGED Abstract!vars

\* The good outcomes of a step that records none are those of before.
LEMMA AnsweredByKept ==
  ASSUME \A r \in GX, i \in Run :
            /\ c_res'[r][i].ok <=> c_res[r][i].ok
            /\ c_res[r][i].ok => c_res'[r][i].piv = c_res[r][i].piv /\ Key(r)' = Key(r)
  PROVE  AnsweredBy' = AnsweredBy
<1> DEFINE Good == {p \in GX \X Run : c_res[p[1]][p[2]].ok}
<1>1. Good' = Good
  OBVIOUS
<1>2. \A q \in Good : <<Key(q[1])', c_res'[q[1]][q[2]].piv>> = <<Key(q[1]), c_res[q[1]][q[2]].piv>>
  OBVIOUS
<1>3. AnsweredBy = {<<Key(q[1]), c_res[q[1]][q[2]].piv>> : q \in Good}
  BY DEF AnsweredBy
<1>4. AnsweredBy' = {<<Key(q[1])', c_res'[q[1]][q[2]].piv>> : q \in Good}
  BY <1>1 DEF AnsweredBy
<1> QED
  BY <1>2, <1>3, <1>4

\* Who shares what with the device does not change while the clients do not.
LEMMA HostKept ==
  ASSUME UNCHANGED clientVars
  PROVE  HostSession' = HostSession /\ AnsweredBy' = AnsweredBy
<1>1. UNCHANGED <<c_pc, c_y, c_res>>
  BY DEF clientVars
<1>2. \A r : Key(r)' = Key(r) /\ Secured(r)' = Secured(r)
  BY <1>1 DEF Key, Secured
<1>3. HostSession' = HostSession
  BY <1>2 DEF HostSession
<1> QED
  BY <1>1, <1>2, <1>3, AnsweredByKept

\* A client's step that neither completes a handshake nor records a good
\* outcome is invisible.
LEMMA ClientStutters ==
  ASSUME UNCHANGED deviceVars,
         \A r \in GX : /\ Secured(r)' = Secured(r)
                       /\ Secured(r) => Key(r)' = Key(r),
         \A r \in GX, i \in Run :
            /\ c_res'[r][i].ok <=> c_res[r][i].ok
            /\ c_res[r][i].ok => c_res'[r][i].piv = c_res[r][i].piv /\ Secured(r)
  PROVE  AbstractStep
<1>1. UNCHANGED <<oscore_ready, oscore_ctx, installed, dispatched>>
  BY DEF deviceVars, oscoreVars
<1>2. DevSession' = DevSession
  BY <1>1 DEF DevSession
<1>3. HostSession' = HostSession
  BY DEF HostSession
<1>4. AnsweredBy' = AnsweredBy
  BY AnsweredByKept
<1> QED
  BY <1>1, <1>2, <1>3, <1>4 DEF AbstractStep, Abstract!vars

\* edhoc_post() drops the session (message_1), installs one (message_3), or
\* changes nothing that shows.
LEMMA EdhocPostRefines ==
  ASSUME DeviceInv, NEW m \in EdhocPost, NEW fail, edhoc_post(m, fail), UNCHANGED clientVars
  PROVE  AbstractStep
<1> USE DEF DeviceInv
<1>1. HostSession' = HostSession /\ AnsweredBy' = AnsweredBy
  BY HostKept
<1>2. CASE edhoc_message_1(m, fail)
  <2>1. DevSession' = NoSession /\ UNCHANGED <<installed, dispatched>>
    BY <1>2 DEF edhoc_message_1, drop_session, DevSession
  <2>2. Abstract!Drop
    BY <1>1, <2>1 DEF Abstract!Drop
  <2> QED
    BY <2>2 DEF AbstractStep, Abstract!Next
<1>3. CASE edhoc_message_3(m, fail)
  <2>1. edhoc_ctx \in Session /\ installed[edhoc_ctx] = 0 /\ ~ oscore_ready
    BY <1>3 DEF edhoc_message_3, FreshKeys, HandshakeExcludesSession
  <2>2. DevSession = NoSession /\ UNCHANGED dispatched
    BY <1>3, <2>1 DEF DevSession, edhoc_message_3
  <2>3. CASE fail \in Message3Stage
    <3>1. UNCHANGED <<oscore_ready, installed>>
      BY <1>3, <2>3 DEF edhoc_message_3, derive_and_init_oscore
    <3>2. DevSession' = DevSession
      BY <2>1, <3>1 DEF DevSession
    <3> QED
      BY <1>1, <2>2, <3>1, <3>2 DEF AbstractStep, Abstract!vars
  <2>4. CASE fail \notin Message3Stage
    <3>1. /\ oscore_ready' = TRUE /\ oscore_ctx' = edhoc_ctx
          /\ installed' = [installed EXCEPT ![edhoc_ctx] = @ + 1]
      BY <1>3, <2>4 DEF edhoc_message_3, derive_and_init_oscore, Message3Stage
    <3>2. DevSession' = edhoc_ctx /\ installed' = [installed EXCEPT ![edhoc_ctx] = 1]
      BY <2>1, <3>1 DEF DevSession
    <3>3. Abstract!Install(edhoc_ctx)
      BY <1>1, <2>1, <2>2, <3>2 DEF Abstract!Install
    <3> QED
      BY <2>1, <3>3 DEF AbstractStep, Abstract!Next
  <2> QED
    BY <2>3, <2>4
<1>4. CASE UNCHANGED <<oscore_ready, oscore_ctx, installed, dispatched>>
  <2>1. DevSession' = DevSession
    BY <1>4 DEF DevSession
  <2> QED
    BY <1>1, <1>4, <2>1 DEF AbstractStep, Abstract!vars
<1> QED
  BY <1>2, <1>3, <1>4
  DEF edhoc_post, edhoc_message_3_refused, edhoc_message_3_unexpected, edhoc_unframed,
      deviceVars, oscoreVars

\* oscore_post() executes a request of the device's session, or nothing.
LEMMA OscorePostRefines ==
  ASSUME DeviceInv, NEW m \in RootPost, NEW fail, oscore_post(m, fail), UNCHANGED clientVars
  PROVE  AbstractStep
<1> USE DEF DeviceInv
<1>1. HostSession' = HostSession /\ AnsweredBy' = AnsweredBy
  BY HostKept
<1>2. UNCHANGED <<oscore_ready, oscore_ctx, installed>>
  BY DEF oscore_post, oscore_post_refused, oscore_post_accepted, deviceVars, oscoreVars
<1>3. DevSession' = DevSession
  BY <1>2 DEF DevSession
<1>4. CASE dispatched' = dispatched
  BY <1>1, <1>2, <1>3, <1>4 DEF AbstractStep, Abstract!vars
<1>5. CASE dispatched' # dispatched
  <2>1. oscore_post_accepted(m, fail) /\ dispatched' = [dispatched EXCEPT ![m.key][m.piv] = @ + 1]
    BY <1>5 DEF oscore_post, oscore_post_refused, oscore_post_accepted, deviceVars
  <2>2. /\ oscore_ready /\ m.key = oscore_ctx /\ m.piv \notin replay
        /\ m.piv \in Piv /\ m.key \in Session
    BY <2>1, RootPostFields DEF oscore_post_accepted, session_usable, oscore2coap_ok
  <2>3. dispatched[m.key][m.piv] = 0
    BY <2>2 DEF WindowCovers, DeviceTypeOK
  <2>4. DevSession = m.key /\ DevSession # NoSession
    BY <2>2, NoSessionAssumption DEF DevSession
  <2>5. dispatched' = [dispatched EXCEPT ![DevSession][m.piv] = 1]
    BY <2>1, <2>2, <2>3, <2>4 DEF DeviceTypeOK
  <2>6. Abstract!Execute(m.piv)
    BY <1>1, <1>2, <1>3, <2>3, <2>4, <2>5 DEF Abstract!Execute
  <2> QED
    BY <2>2, <2>6 DEF AbstractStep, Abstract!Next
<1> QED
  BY <1>4, <1>5

\* A reboot drops the session; a lost datagram does not show.
LEMMA LossRefines ==
  ASSUME Reboot \/ UNCHANGED deviceVars, UNCHANGED clientVars
  PROVE  AbstractStep
<1>1. HostSession' = HostSession /\ AnsweredBy' = AnsweredBy
  BY HostKept
<1>2. CASE Reboot
  <2>1. DevSession' = NoSession /\ UNCHANGED <<installed, dispatched>>
    BY <1>2 DEF Reboot, DevSession
  <2>2. Abstract!Drop
    BY <1>1, <2>1 DEF Abstract!Drop
  <2> QED
    BY <2>2 DEF AbstractStep, Abstract!Next
<1>3. CASE UNCHANGED deviceVars
  <2>1. UNCHANGED <<oscore_ready, oscore_ctx, installed, dispatched>>
    BY <1>3 DEF deviceVars, oscoreVars
  <2>2. DevSession' = DevSession
    BY <2>1 DEF DevSession
  <2> QED
    BY <1>1, <2>1, <2>2 DEF AbstractStep, Abstract!vars
<1> QED
  BY <1>2, <1>3

\* message_4 establishes the session on the host.
LEMMA RecvMessage4Refines ==
  ASSUME SystemInv, UNCHANGED deviceVars, NEW r \in GX, NEW m \in toHost[r],
         RecvMessage4(r, m), SystemInv'
  PROVE  AbstractStep
<1> USE DEF SystemInv
<1>1. /\ c_pc[r] = "wait4" /\ c_pc' = [c_pc EXCEPT ![r] = "ready"] /\ c_pc \in [GX -> Pc]
      /\ UNCHANGED <<c_y, c_res>>
  BY DEF RecvMessage4, SystemTypeOK
<1>2. UNCHANGED <<oscore_ready, oscore_ctx, installed, dispatched>>
  BY DEF deviceVars, oscoreVars
<1>3. \A q : Key(q)' = Key(q)
  BY <1>1 DEF Key
<1>4. Secured(r)' /\ ~ Secured(r) /\ \A q \in GX : q # r => Secured(q)' = Secured(q)
  BY <1>1 DEF Secured
<1>5. Key(r) \in Session /\ Key(r)[1] = r
  BY <1>1, KeyInSession DEF ClientSound, Key
<1>6. installed[Key(r)] = 1
  BY <1>2, <1>3, <1>4 DEF Agreement
<1>7. HostSession[r] = NoSession /\ HostSession' = [HostSession EXCEPT ![r] = Key(r)]
  BY <1>3, <1>4 DEF HostSession
<1>8. AnsweredBy' = AnsweredBy /\ DevSession' = DevSession
  BY <1>1, <1>2, <1>3, AnsweredByKept DEF DevSession
<1>9. Abstract!Establish(Key(r))
  BY <1>2, <1>5, <1>6, <1>7, <1>8 DEF Abstract!Establish
<1> QED
  BY <1>5, <1>9 DEF AbstractStep, Abstract!Next

\* A response that decrypts is accepted; any other leaves no trace, since no
\* good outcome of the awaited request was recorded before.
LEMMA RecvResponseRefines ==
  ASSUME SystemInv, UNCHANGED deviceVars, NEW r \in GX, NEW m \in toHost[r],
         RecvResponse(r, m)
  PROVE  AbstractStep
<1> USE DEF SystemInv
<1>1. /\ c_pc[r] = "wait_rsp" /\ c_pc' = [c_pc EXCEPT ![r] = "ready"] /\ c_pc \in [GX -> Pc]
      /\ UNCHANGED c_y
      /\ c_res \in [GX -> [Run -> [by : {"none", "own", "other"}, piv : Piv, ok : BOOLEAN]]]
  BY DEF RecvResponse, SystemTypeOK
<1>2. PICK ok \in decrypts(r, m) :
         c_res' = [c_res EXCEPT ![r][c_i[r]] =
                      Outcome(IF Awaited(r, m) THEN "own" ELSE "other",
                              IF m.type = "answer" THEN m.piv ELSE 0, ok)]
  BY DEF RecvResponse
<1>3. PICK o : o = Outcome(IF Awaited(r, m) THEN "own" ELSE "other",
                           IF m.type = "answer" THEN m.piv ELSE 0, ok)
  OBVIOUS
<1>4. /\ o \in [by : {"none", "own", "other"}, piv : Piv, ok : BOOLEAN]
      /\ o.by = "own" => o.ok
      /\ o.ok => o.piv < c_ssn[r] /\ dispatched[Key(r)][o.piv] = 1
  BY <1>1, <1>3, OutcomeSound
<1>5. PICK k \in Run : k = c_i[r] /\ ~ c_res[r][k].ok
  <2>1. c_i[r] \in Run /\ c_i[r] \in Nat
    BY <1>1, SsnNat DEF ClientSound
  <2>2. ~ c_res[r][c_i[r]].ok
    BY <1>1, <2>1 DEF ClientSound
  <2> QED
    BY <2>1, <2>2
<1>6. /\ c_res'[r][k] = o
      /\ \A q \in GX, i \in Run : q # r \/ i # k => c_res'[q][i] = c_res[q][i]
  BY <1>1, <1>2, <1>3, <1>5
<1>7. /\ \A q : Key(q)' = Key(q)
      /\ \A q \in GX : Secured(q)' = Secured(q)
      /\ Secured(r)
  BY <1>1 DEF Key, Secured
<1>8. \A q \in GX, i \in Run : c_res[q][i].ok => Secured(q)
  BY DEF ClientSound
<1>9. CASE ~ o.ok
  BY <1>5, <1>6, <1>7, <1>8, <1>9, ClientStutters
<1>10. CASE o.ok
  <2> DEFINE Good == {p \in GX \X Run : c_res[p[1]][p[2]].ok}
  <2>1. UNCHANGED <<oscore_ready, oscore_ctx, installed, dispatched>>
    BY DEF deviceVars, oscoreVars
  <2>2. HostSession' = HostSession /\ DevSession' = DevSession
    BY <1>7, <2>1 DEF HostSession, DevSession
  <2>3. HostSession[r] = Key(r) /\ Key(r) \in Session /\ Key(r) # NoSession
    BY <1>7, KeyInSession, NoSessionAssumption DEF HostSession, ClientSound
  <2>4. Good' = Good \cup {<<r, k>>}
    BY <1>5, <1>6, <1>10
  <2>5. \A q \in Good : /\ q \in GX \X Run /\ q # <<r, k>>
                        /\ c_res'[q[1]][q[2]] = c_res[q[1]][q[2]]
    BY <1>5, <1>6
  <2>6. AnsweredBy = {<<Key(q[1]), c_res[q[1]][q[2]].piv>> : q \in Good}
    BY DEF AnsweredBy
  <2>7. AnsweredBy' = {<<Key(q[1]), c_res'[q[1]][q[2]].piv>> : q \in Good'}
    BY <1>7 DEF AnsweredBy
  <2>8. AnsweredBy' = AnsweredBy \cup {<<Key(r), o.piv>>}
    <3> DEFINE q0 == <<r, k>>
    <3>1. q0[1] = r /\ q0[2] = k /\ <<Key(q0[1]), c_res'[q0[1]][q0[2]].piv>> = <<Key(r), o.piv>>
      BY <1>6
    <3>2. \A q \in Good : <<Key(q[1]), c_res'[q[1]][q[2]].piv>> = <<Key(q[1]), c_res[q[1]][q[2]].piv>>
      BY <2>5
    <3>3. {<<Key(q[1]), c_res'[q[1]][q[2]].piv>> : q \in Good} = AnsweredBy
      BY <2>6, <3>2
    <3> HIDE DEF Good, q0
    <3>4. Good' = Good \cup {q0}
      BY <2>4 DEF q0
    <3>5. AnsweredBy' = {<<Key(q[1]), c_res'[q[1]][q[2]].piv>> : q \in Good}
                          \cup {<<Key(q0[1]), c_res'[q0[1]][q0[2]].piv>>}
      BY <2>7, <3>4
    <3> QED
      BY <3>1, <3>3, <3>5
  <2>9. o.piv \in Piv
    BY <1>4
  <2>10. Abstract!Accept(r, o.piv)
    BY <1>4, <1>10, <2>1, <2>2, <2>3, <2>8 DEF Abstract!Accept
  <2> QED
    BY <2>9, <2>10 DEF AbstractStep, Abstract!Next
<1> QED
  BY <1>9, <1>10

\* The other steps of a client do not show.
LEMMA ClientStepRefines ==
  ASSUME SystemInv, SystemInv', NEW r \in GX,
         Start(r) \/ ClientStep(r) \/ ClientFails(r) \/ Timeout(r) \/ EarlyTimeout(r)
  PROVE  AbstractStep
<1> USE DEF SystemInv
<1>1. UNCHANGED deviceVars
  BY DEF Start, ClientStep, ClientFails, Timeout, EarlyTimeout
<1>2. \A q \in GX, i \in Run : c_res[q][i].ok => Secured(q)
  BY DEF ClientSound
<1>3. c_pc \in [GX -> Pc] /\ c_y \in [GX -> 0..MaxDraws]
  BY DEF SystemTypeOK
<1>4. CASE SendMessage1(r)
  BY <1>1, <1>2, <1>3, <1>4, ClientStutters DEF SendMessage1, Secured, Key
<1>5. ASSUME NEW m \in toHost[r], RecvMessage2(r, m) PROVE AbstractStep
  BY <1>1, <1>2, <1>3, <1>5, ClientStutters DEF RecvMessage2, Secured, Key
<1>6. ASSUME NEW m \in toHost[r], RecvUnusable(r, m) PROVE AbstractStep
  BY <1>1, <1>2, <1>3, <1>6, ClientStutters DEF RecvUnusable, Exit, Secured, Key
<1>7. CASE SendRequest(r) \/ SendRequestFails(r)
  BY <1>1, <1>2, <1>3, <1>7, ClientStutters DEF SendRequest, SendRequestFails, Secured, Key
<1>8. CASE HandshakeFails(r) \/ Finish(r)
  BY <1>1, <1>2, <1>3, <1>8, ClientStutters DEF HandshakeFails, Finish, Exit, Secured, Key
<1>9. CASE recv_timeout(r)
  BY <1>1, <1>2, <1>3, <1>9, ClientStutters DEF recv_timeout, Exit, Secured, Key
<1> QED
  BY <1>1, <1>4, <1>5, <1>6, <1>7, <1>8, <1>9, RecvMessage4Refines, RecvResponseRefines
  DEF Start, ClientStep, Receive, ClientFails, Timeout, EarlyTimeout

\* The device of edhoc_oscore.c and the clients of client.cpp together, over a
\* link that loses, duplicates and reorders, implement SecureSession: sessions
\* are made once, used by the run they were made with, and each request runs
\* at most once, while its session is the device's.
THEOREM SystemImplements == SystemSpec => ImplementsSecureSession
<1>1. SystemInit => Abstract!Init
  <2> SUFFICES ASSUME SystemInit PROVE Abstract!Init
    OBVIOUS
  <2>1. /\ c_pc = [r \in GX |-> "idle"] /\ oscore_ready = FALSE
        /\ c_res = [r \in GX |-> [i \in Run |-> Unanswered]]
        /\ installed = [s \in Session |-> 0]
        /\ dispatched = [s \in Session |-> [p \in Piv |-> 0]]
    BY DEF SystemInit, DeviceInit, PowerOn, ClientInit
  <2>2. DevSession = NoSession
    BY <2>1 DEF DevSession
  <2>3. HostSession = [r \in GX |-> NoSession]
    BY <2>1 DEF HostSession, Secured
  <2>4. AnsweredBy = {}
    <3>1. \A r \in GX, i \in Run : ~ c_res[r][i].ok
      BY <2>1 DEF Unanswered, Outcome
    <3> QED
      BY <3>1 DEF AnsweredBy
  <2> QED
    BY <2>1, <2>2, <2>3, <2>4 DEF Abstract!Init
<1>2. SystemInv /\ SystemInv' /\ [SystemNext]_systemVars => AbstractStep
  <2> SUFFICES ASSUME SystemInv, SystemInv', [SystemNext]_systemVars PROVE AbstractStep
    OBVIOUS
  <2>1. ASSUME NEW m \in toDev, Deliver(m) \/ DeliverTwice(m) \/ DeliverFails(m)
        PROVE  AbstractStep
    <3>1. PICK fail : Handle(m, fail) /\ UNCHANGED clientVars
      BY <2>1 DEF Deliver, DeliverTwice, DeliverFails
    <3>2. CASE m.type \in {"message_1", "message_3"}
      <4>1. edhoc_post(m, fail) /\ m \in EdhocPost /\ DeviceInv
        BY <3>1, <3>2, ToDevFields DEF Handle, SystemInv
      <4> QED
        BY <3>1, <4>1, EdhocPostRefines
    <3>3. CASE m.type = "protected"
      <4>1. oscore_post(m, fail) /\ m \in RootPost /\ DeviceInv
        BY <3>1, <3>3, ToDevFields DEF Handle, SystemInv
      <4> QED
        BY <3>1, <4>1, OscorePostRefines
    <3> QED
      BY <3>1, <3>2, <3>3 DEF Handle
  <2>2. ASSUME NEW m \in toDev, LoseToDev(m) PROVE AbstractStep
    BY <2>2, LossRefines DEF LoseToDev
  <2>3. ASSUME NEW r \in GX, NEW m \in toHost[r], LoseToHost(r, m) PROVE AbstractStep
    BY <2>3, LossRefines DEF LoseToHost
  <2>4. CASE PowerCycle
    BY <2>4, LossRefines DEF PowerCycle
  <2>5. CASE UNCHANGED systemVars
    BY <2>5, LossRefines DEF systemVars
  <2> QED
    BY <2>1, <2>2, <2>3, <2>4, <2>5, ClientStepRefines DEF SystemNext
<1>3. SystemInv /\ SystemInv' /\ [SystemNext]_systemVars => [Abstract!Next]_(Abstract!vars)
  BY <1>2 DEF AbstractStep
<1> QED
  BY <1>1, <1>3, SystemInvariant, PTL DEF SystemSpec, ImplementsSecureSession, Abstract!Spec

-----------------------------------------------------------------------------
\* A delivery is a request that DeviceSpec allows, whatever stage fails.
LEMMA HandleIsDeviceStep ==
  ASSUME SystemInv, NEW m \in toDev, NEW fail, Handle(m, fail)
  PROVE  DeviceNext
<1>1. CASE m.type \in {"message_1", "message_3"}
  <2>1. edhoc_post(m, fail) /\ m \in EdhocPost
    BY <1>1, ToDevFields DEF Handle
  <2>2. PICK f \in Stage1 \cup Stage3 : edhoc_post(m, f)
    <3>1. CASE fail \in Stage1 \cup Stage3
      BY <2>1, <3>1
    <3>2. CASE fail \notin Stage1 \cup Stage3
      <4>1. edhoc_post(m, "none")
        BY <2>1, <3>2 DEF edhoc_post, edhoc_message_1, edhoc_message_3_unexpected,
           edhoc_message_3_refused, edhoc_message_3, edhoc_unframed, Stage1, Stage3,
           Message1Stage, Message3Stage
      <4> QED
        BY <4>1 DEF Stage1
    <3> QED
      BY <3>1, <3>2
  <2> QED
    BY <2>1, <2>2 DEF DeviceNext
<1>2. CASE m.type = "protected"
  <2>1. oscore_post(m, fail) /\ m \in RootPost
    BY <1>2, ToDevFields DEF Handle
  <2>2. PICK f \in RootStage : oscore_post(m, f)
    BY <2>1 DEF oscore_post, oscore_post_accepted, RootStage
  <2> QED
    BY <2>1, <2>2 DEF DeviceNext
<1> QED
  BY <1>1, <1>2 DEF Handle

\* The clients and the link are an environment that DeviceSpec allows, so every
\* theorem about edhoc_oscore.c alone (no session swap, readable responses,
\* keys installed once) is one about the device on the link.
THEOREM SystemImplementsDevice == SystemSpec => DeviceSpec
<1>1. SystemInit => DeviceInit
  BY DEF SystemInit
<1>2. SystemInv /\ [SystemNext]_systemVars => [DeviceNext]_deviceVars
  <2> SUFFICES ASSUME SystemInv, [SystemNext]_systemVars
               PROVE  DeviceNext \/ UNCHANGED deviceVars
    OBVIOUS
  <2>1. ASSUME NEW m \in toDev, Deliver(m) \/ DeliverTwice(m) \/ DeliverFails(m)
        PROVE  DeviceNext
    <3>1. PICK fail : Handle(m, fail)
      BY <2>1 DEF Deliver, DeliverTwice, DeliverFails
    <3> QED
      BY <3>1, HandleIsDeviceStep
  <2>2. CASE PowerCycle
    BY <2>2 DEF PowerCycle, DeviceNext
  <2>3. CASE UNCHANGED systemVars
    BY <2>3 DEF systemVars
  <2> QED
    BY <2>1, <2>2, <2>3
    DEF SystemNext, LoseToDev, LoseToHost, Start, ClientStep, ClientFails, Timeout, EarlyTimeout
<1> QED
  BY <1>1, <1>2, SystemInvariant, PTL DEF SystemSpec, DeviceSpec

=============================================================================
