----------------------------- MODULE BootProofs -----------------------------
(***************************************************************************)
(* Proofs about bring-up, for every set of builds and controllers and any  *)
(* number of cable changes and power cycles: BootInv is inductive.  main() *)
(* and the CoAP thread leave the queue alone once usbd_init() has put the  *)
(* first report into it; the cable appends a report, usbd_msg_cb() takes   *)
(* one from the front.                                                     *)
(***************************************************************************)
EXTENDS Boot, TLAPS

BusMessage == {"VBUS_READY", "VBUS_REMOVED", "CONFIGURATION"}

\* The report that the present state of the cable calls for.
CableReport == IF vbus THEN "VBUS_READY" ELSE "VBUS_REMOVED"

-----------------------------------------------------------------------------
\* A message behind the others: the reports before it stay where they are.
LEMMA ReportAppend ==
  ASSUME msgs \in Seq(BusMessage), NEW type \in BusMessage, msgs' = Append(msgs, type)
  PROVE  /\ Len(msgs) \in Nat
         /\ Report \subseteq 1..Len(msgs)
         /\ \A k \in Report : msgs'[k] = msgs[k]
         /\ msgs'[Len(msgs) + 1] = type
         /\ Report' = IF type = "CONFIGURATION" THEN Report ELSE Report \cup {Len(msgs) + 1}
<1>1. Len(msgs) \in Nat /\ Report \subseteq 1..Len(msgs)
  BY DEF Report
<1>2. Len(msgs') = Len(msgs) + 1 /\ msgs'[Len(msgs) + 1] = type
  BY <1>1
<1>3. \A k \in 1..Len(msgs) : msgs'[k] = msgs[k]
  BY <1>1
<1>4. 1..Len(msgs') = 1..Len(msgs) \cup {Len(msgs) + 1}
  BY <1>1, <1>2
<1>5. Report' = IF type = "CONFIGURATION" THEN Report ELSE Report \cup {Len(msgs) + 1}
  <2> SUFFICES ASSUME NEW k
               PROVE  k \in Report' <=> k \in IF type = "CONFIGURATION" THEN Report
                                              ELSE Report \cup {Len(msgs) + 1}
    OBVIOUS
  <2> QED
    BY <1>1, <1>2, <1>3, <1>4 DEF Report
<1> QED
  BY <1>1, <1>2, <1>3, <1>5

\* The first message is taken: the others move up by one.
LEMMA ReportTail ==
  ASSUME msgs \in Seq(BusMessage), msgs # <<>>, msgs' = Tail(msgs)
  PROVE  /\ msgs' \in Seq(BusMessage) /\ Head(msgs) \in BusMessage
         /\ \A k : k \in Report' <=> k \in Nat \ {0} /\ k + 1 \in Report
         /\ \A k \in Report' : msgs'[k] = msgs[k + 1]
         /\ \A k \in Report : k \in Nat \ {0} /\ (k = 1 \/ k - 1 \in Report')
         /\ 1 \in Report <=> Head(msgs) # "CONFIGURATION"
         /\ Head(msgs) = msgs[1]
<1>1. Len(msgs) \in Nat \ {0} /\ Head(msgs) = msgs[1] /\ msgs[1] \in BusMessage
  OBVIOUS
<1>2. /\ msgs' \in Seq(BusMessage) /\ Len(msgs') = Len(msgs) - 1
      /\ \A k \in 1..(Len(msgs) - 1) : msgs'[k] = msgs[k + 1]
  BY <1>1
<1>3. \A k : k \in Report' <=> k \in Nat \ {0} /\ k + 1 \in Report
  <2> TAKE k
  <2>1. k \in 1..Len(msgs') <=> k \in Nat \ {0} /\ k + 1 \in 1..Len(msgs)
    BY <1>1, <1>2
  <2> QED
    BY <1>1, <1>2, <2>1 DEF Report
<1>4. \A k \in Report' : msgs'[k] = msgs[k + 1]
  BY <1>1, <1>2 DEF Report
<1>5. \A k \in Report : k \in Nat \ {0} /\ (k = 1 \/ k - 1 \in Report')
  <2> TAKE k \in Report
  <2>1. k \in 1..Len(msgs)
    BY DEF Report
  <2>2. k \in Nat \ {0}
    BY <1>1, <2>1
  <2>3. k # 1 => k - 1 \in Nat \ {0} /\ (k - 1) + 1 = k
    BY <2>2
  <2> QED
    BY <1>3, <2>2, <2>3
<1>6. 1 \in Report <=> Head(msgs) # "CONFIGURATION"
  BY <1>1 DEF Report
<1> QED
  BY <1>1, <1>2, <1>3, <1>4, <1>5, <1>6

\* Steps that do not touch USB, nor fail to enable or disable it.
LEMMA UsbKept ==
  ASSUME UsbFollowsVbus, UNCHANGED <<board, usbd, msgs, vbus>>,
         failed' \cap {"VBUS_READY", "VBUS_REMOVED"} = failed \cap {"VBUS_READY", "VBUS_REMOVED"}
  PROVE  UsbFollowsVbus'
<1>1. Report' = Report
  BY DEF Report
<1>2. \A k : Last(k)' = Last(k)
  BY <1>1 DEF Last
<1> QED
  BY <1>1, <1>2 DEF UsbFollowsVbus

\* The reports that are queued after the cable changed end with that change.
LEMMA UsbReported ==
  ASSUME msgs \in Seq(BusMessage), msgs' = Append(msgs, CableReport')
  PROVE  UsbFollowsVbus'
<1> DEFINE n == Len(msgs) + 1
<1>1. CableReport' \in BusMessage /\ CableReport' # "CONFIGURATION"
  BY DEF CableReport, BusMessage
<1>2. PICK t \in BusMessage : t = CableReport'
  BY <1>1
<1>3. /\ Len(msgs) \in Nat /\ Report \subseteq 1..Len(msgs) /\ msgs'[n] = t
      /\ Report' = Report \cup {n}
  BY <1>1, <1>2, ReportAppend
<1>4. \A k \in Report' : Last(k)' => k = n
  BY <1>3 DEF Last
<1> QED
  BY <1>2, <1>3, <1>4 DEF UsbFollowsVbus, CableReport

-----------------------------------------------------------------------------
\* At power-on.
LEMMA BootInitInv == BootInit => BootInv
<1> SUFFICES ASSUME BootInit PROVE BootInv
  OBVIOUS
<1>1. /\ board \in Board /\ vbus \in BOOLEAN /\ events = 0 /\ failed = {} /\ usbd = "none"
      /\ main_pc = "add_descriptors" /\ msgs = <<>> /\ creds = {} /\ service = "stopped"
      /\ ipv4 = FALSE /\ psa = FALSE /\ logged = FALSE /\ msg_cb = FALSE
  BY DEF BootInit
<1>2. msgs \in Seq(BusMessage)
  BY <1>1
<1>3. BootTypeOK
  <2>1. ipv4 \in BOOLEAN /\ psa \in BOOLEAN /\ logged \in BOOLEAN /\ msg_cb \in BOOLEAN
    BY <1>1
  <2>2. 0 \in 0..MaxEvents
    BY EventsAssumption
  <2> QED
    BY <1>1, <1>2, <2>1, <2>2 DEF BootTypeOK, Pc, BusMessage
<1> QED
  BY <1>1, <1>3 DEF BootInv, BringUpOrder, CredentialsFirst, UsbFollowsVbus

\* main() in ncm_usbd_init(): the first report is that of the VBUS it finds.
LEMMA UsbInitInv ==
  ASSUME BootInv, NEW ok \in BOOLEAN, ncm_usbd_init(ok)
  PROVE  BootInv'
<1> USE DEF BootInv
<1>1. UNCHANGED <<board, vbus, events, ipv4, psa, creds, service, logged>>
  BY DEF ncm_usbd_init, add_descriptors, register_cb, usbd_init, Call, netVars, envVars
<1>2. usbd = "none" /\ msgs = <<>>
  BY DEF ncm_usbd_init, add_descriptors, register_cb, usbd_init, Call, BringUpOrder
<1>3. CASE add_descriptors(ok) \/ register_cb(ok)
  <2>1. UNCHANGED <<usbd, msgs>>
    BY <1>3 DEF add_descriptors, register_cb, usbVars
  <2>2. UsbFollowsVbus'
    BY <1>2, <2>1 DEF UsbFollowsVbus
  <2>3. BootTypeOK'
    BY <1>1, <1>3, <2>1 DEF BootTypeOK, add_descriptors, register_cb, Call, Pc, usbVars
  <2>4. BringUpOrder'
    BY <1>1, <1>2, <1>3, <2>1 DEF BringUpOrder, add_descriptors, register_cb, Call, usbVars
  <2> QED
    BY <1>1, <2>2, <2>3, <2>4 DEF CredentialsFirst
<1>4. CASE usbd_init(ok)
  <2>1. /\ main_pc = "usbd_init" /\ main_pc' = (IF ok THEN "enable" ELSE "returned")
        /\ failed' \in {failed, failed \cup {"usbd_init"}} /\ msg_cb /\ msg_cb'
        /\ usbd' = IF ok THEN "disabled" ELSE "none"
        /\ msgs' = IF ok /\ board.can_detect_vbus /\ vbus THEN Append(msgs, "VBUS_READY") ELSE msgs
    BY <1>2, <1>4 DEF usbd_init, Call, BringUpOrder, Posted
  <2>2. UsbFollowsVbus'
    <3>1. CASE ok /\ board.can_detect_vbus /\ vbus
      BY <1>1, <2>1, <3>1, UsbReported DEF CableReport, BootTypeOK, BusMessage
    <3>2. CASE ~ (ok /\ board.can_detect_vbus /\ vbus)
      <4>1. msgs' = <<>>
        BY <1>2, <2>1, <3>2
      <4>2. Report' = {}
        BY <4>1 DEF Report
      <4> QED
        BY <1>1, <2>1, <3>2, <4>2 DEF UsbFollowsVbus
    <3> QED
      BY <3>1, <3>2
  <2>3. BootTypeOK'
    <3>1. msgs \in Seq(BusMessage) /\ "VBUS_READY" \in BusMessage
      BY DEF BootTypeOK, BusMessage
    <3>2. msgs' \in Seq(BusMessage)
      BY <2>1, <3>1
    <3> QED
      BY <1>1, <1>2, <2>1, <3>2 DEF BootTypeOK, Pc, BusMessage
  <2>4. BringUpOrder'
    BY <1>1, <1>2, <2>1 DEF BringUpOrder
  <2> QED
    BY <1>1, <2>2, <2>3, <2>4 DEF CredentialsFirst
<1> QED
  BY <1>3, <1>4 DEF ncm_usbd_init

\* main() enables the device itself only where VBUS is not reported.
LEMMA EnableInv ==
  ASSUME BootInv, NEW ok \in BOOLEAN, enable(ok) \/ (ok /\ leave_to_msg_cb)
  PROVE  BootInv'
<1> USE DEF BootInv
<1>1. /\ UNCHANGED <<board, vbus, events, ipv4, psa, creds, service, logged, msg_cb, msgs>>
      /\ main_pc = "enable" /\ main_pc' \in {"ipv4", "returned"}
      /\ failed' \in {failed, failed \cup {"enable"}}
      /\ usbd' = usbd \/ (usbd' = "enabled" /\ ~ board.can_detect_vbus)
  BY DEF enable, leave_to_msg_cb, enable_here, Call, netVars, envVars, usbVars
<1>2. UsbFollowsVbus'
  <2>1. CASE usbd' = usbd
    BY <1>1, <2>1, UsbKept
  <2>2. CASE ~ board.can_detect_vbus
    BY <1>1, <2>2 DEF UsbFollowsVbus
  <2> QED
    BY <1>1, <2>1, <2>2
<1>3. BootTypeOK'
  BY <1>1 DEF BootTypeOK, Pc
<1>4. BringUpOrder'
  BY <1>1 DEF BringUpOrder, enable, Call, leave_to_msg_cb
<1> QED
  BY <1>1, <1>2, <1>3, <1>4 DEF CredentialsFirst

\* main() from the address on: nothing of USB.
LEMMA NetInv ==
  ASSUME BootInv, NEW ok \in BOOLEAN,
         \/ assign_static_ipv4(ok) \/ psa_crypto_init(ok)
         \/ coap_server_start(ok) \/ log_up
  PROVE  BootInv'
<1> USE DEF BootInv
<1>1. /\ UNCHANGED <<board, vbus, events, usbd, msg_cb, msgs>>
      /\ main_pc \in Pc \ {"add_descriptors", "register_cb", "usbd_init", "enable"}
      /\ failed' \in {failed, failed \cup {main_pc}}
  BY DEF assign_static_ipv4, psa_crypto_init, coap_server_start, plain_server_start, add_psk,
         add_psk_id, coap_service_start, log_up, Call, envVars, usbVars, Pc
<1>2. UsbFollowsVbus'
  BY <1>1, UsbKept DEF Pc
<1>3. CASE assign_static_ipv4(ok)
  BY <1>1, <1>2, <1>3
  DEF assign_static_ipv4, Call, after_ipv4, BootTypeOK, Pc, BringUpOrder, CredentialsFirst
<1>4. CASE psa_crypto_init(ok)
  BY <1>1, <1>2, <1>4
  DEF psa_crypto_init, Call, BootTypeOK, Pc, BringUpOrder, CredentialsFirst
<1>5. CASE plain_server_start
  BY <1>1, <1>2, <1>5
  DEF plain_server_start, Call, netVars, BootTypeOK, Pc, BringUpOrder, CredentialsFirst
<1>6. CASE add_psk(ok)
  BY <1>1, <1>2, <1>6
  DEF add_psk, Call, BootTypeOK, Pc, BringUpOrder, CredentialsFirst
<1>7. CASE add_psk_id(ok)
  <2>1. /\ main_pc = "psk_id" /\ main_pc' = IF ok THEN "service" ELSE "log"
        /\ creds' = IF ok THEN creds \cup {"PSK_ID"} ELSE creds
        /\ UNCHANGED <<ipv4, psa, service, logged>>
    BY <1>7 DEF add_psk_id, Call
  <2>2. "PSK" \in creds /\ creds \subseteq {"PSK", "PSK_ID"} /\ board.build = "dtls"
    BY <2>1 DEF BringUpOrder, BootTypeOK
  <2>3. creds' = creds \/ creds' = {"PSK", "PSK_ID"}
    BY <2>1, <2>2
  <2>4. ok => creds' = {"PSK", "PSK_ID"}
    BY <2>1, <2>2
  <2> QED
    BY <1>1, <1>2, <2>1, <2>2, <2>3, <2>4 DEF BootTypeOK, Pc, BringUpOrder, CredentialsFirst
<1>8. CASE coap_service_start(ok)
  BY <1>1, <1>2, <1>8
  DEF coap_service_start, Call, BootTypeOK, Pc, BringUpOrder, CredentialsFirst
<1>9. CASE log_up
  BY <1>1, <1>2, <1>9
  DEF log_up, Call, BootTypeOK, Pc, BringUpOrder, CredentialsFirst
<1> QED
  BY <1>3, <1>4, <1>5, <1>6, <1>7, <1>8, <1>9 DEF coap_server_start

-----------------------------------------------------------------------------
\* The USB message thread: whatever it takes, what is left still ends with the
\* state of the cable, and after the last report the device is in that state.
LEMMA MsgThreadInv ==
  ASSUME BootInv, MsgThread
  PROVE  BootInv'
<1> USE DEF BootInv
<1>1. /\ UNCHANGED <<board, vbus, events, msg_cb, main_pc, ipv4, psa, creds, service, logged>>
      /\ msgs # <<>> /\ msgs' = Tail(msgs)
  BY DEF MsgThread, usbd_msg_cb, usbd_msg_cb_ignores, netVars, mainVars, envVars
<1>2. /\ msgs \in Seq(BusMessage) /\ msgs' \in Seq(BusMessage) /\ Head(msgs) \in BusMessage
      /\ \A k : k \in Report' <=> k \in Nat \ {0} /\ k + 1 \in Report
      /\ \A k \in Report' : msgs'[k] = msgs[k + 1]
      /\ \A k \in Report : k \in Nat \ {0} /\ (k = 1 \/ k - 1 \in Report')
      /\ 1 \in Report <=> Head(msgs) # "CONFIGURATION"
      /\ Head(msgs) = msgs[1]
  <2>1. msgs \in Seq(BusMessage)
    BY DEF BootTypeOK, BusMessage
  <2> QED
    BY <1>1, <2>1, ReportTail
<1>3. /\ usbd # "none" /\ usbd' # "none"
      /\ usbd' \in {"none", "disabled", "enabled"}
      /\ failed' \in {failed, failed \cup {Head(msgs)}}
      /\ Head(msgs) = "CONFIGURATION" => failed' = failed
  BY <1>1 DEF MsgThread, usbd_msg_cb, usbd_msg_cb_ignores, BringUpOrder, ActedOn, BootTypeOK,
              mainVars
<1>4. ASSUME board.can_detect_vbus, NEW k \in Report', Last(k)' PROVE msgs'[k] = CableReport
  <2>1. k \in Nat /\ k + 1 \in Report
    BY <1>2
  <2>2. \A j \in Report : j <= k + 1
    <3> TAKE j \in Report
    <3>1. j \in Nat \ {0} /\ (j = 1 \/ j - 1 \in Report')
      BY <1>2
    <3>2. CASE j = 1
      BY <2>1, <3>2
    <3>3. CASE j - 1 \in Report'
      <4>1. j - 1 <= k
        BY <1>4, <3>3 DEF Last
      <4> QED
        BY <2>1, <3>1, <4>1
    <3> QED
      BY <3>1, <3>2, <3>3
  <2>3. Last(k + 1)
    BY <2>1, <2>2 DEF Last
  <2> QED
    BY <1>2, <1>3, <1>4, <2>1, <2>3 DEF UsbFollowsVbus, CableReport
<1>5. ASSUME board.can_detect_vbus, Report' = {},
             failed' \cap {"VBUS_READY", "VBUS_REMOVED"} = {}
      PROVE  usbd' = "enabled" <=> vbus
  <2>1. \A k \in Report : k = 1
    BY <1>2, <1>5
  <2>2. CASE Head(msgs) = "CONFIGURATION"
    <3>1. Report = {}
      BY <1>2, <2>1, <2>2
    <3>2. UNCHANGED <<usbd, failed>>
      BY <2>2 DEF MsgThread, usbd_msg_cb, usbd_msg_cb_ignores, ActedOn, mainVars
    <3> QED
      BY <1>3, <1>5, <3>1, <3>2 DEF UsbFollowsVbus
  <2>3. CASE Head(msgs) # "CONFIGURATION"
    <3>1. Last(1)
      BY <1>2, <2>1, <2>3 DEF Last
    <3>2. Head(msgs) = CableReport
      BY <1>2, <1>3, <1>5, <3>1 DEF UsbFollowsVbus, CableReport, Last
    <3>3. Head(msgs) \in {"VBUS_READY", "VBUS_REMOVED"}
      BY <3>2 DEF CableReport
    <3>4. PICK ok \in BOOLEAN : usbd_msg_cb(ok)
      BY <1>5, <3>3 DEF MsgThread, usbd_msg_cb_ignores, ActedOn
    <3>5. ok
      BY <1>5, <3>3, <3>4 DEF usbd_msg_cb
    <3> QED
      BY <3>2, <3>4, <3>5 DEF usbd_msg_cb, CableReport
  <2> QED
    BY <2>2, <2>3
<1>6. UsbFollowsVbus'
  BY <1>1, <1>4, <1>5 DEF UsbFollowsVbus, CableReport
<1>7. BootTypeOK'
  BY <1>1, <1>2, <1>3 DEF BootTypeOK, BusMessage
<1>8. BringUpOrder'
  BY <1>1, <1>3 DEF BringUpOrder
<1> QED
  BY <1>1, <1>6, <1>7, <1>8 DEF CredentialsFirst

\* The CoAP thread starts the plaintext service only.
LEMMA CoapThreadInv ==
  ASSUME BootInv, CoapThread
  PROVE  BootInv'
<1> USE DEF BootInv
<1>1. /\ UNCHANGED <<board, vbus, events, msg_cb, main_pc, ipv4, psa, creds, logged, usbd, msgs>>
      /\ board.build # "dtls" /\ service' \in {"bound", "failed"}
      /\ failed' \in {failed, failed \cup {"autostart"}}
  BY DEF CoapThread, Autostart, envVars, usbVars
<1>2. UsbFollowsVbus'
  BY <1>1, UsbKept
<1>3. BootTypeOK'
  BY <1>1 DEF BootTypeOK
<1> QED
  BY <1>1, <1>2, <1>3 DEF BringUpOrder, CredentialsFirst

-----------------------------------------------------------------------------
\* The cable is moved: the controller reports it, if it can.
LEMMA SetVbusInv ==
  ASSUME BootInv, NEW present \in BOOLEAN, SetVbus(present)
  PROVE  BootInv'
<1> USE DEF BootInv
<1>1. /\ UNCHANGED <<board, msg_cb, main_pc, failed, ipv4, psa, creds, service, logged, usbd>>
      /\ vbus' = present /\ events' \in 0..MaxEvents
  BY EventsAssumption DEF SetVbus, Event, netVars, mainVars, BootTypeOK
<1>2. msgs \in Seq(BusMessage) /\ CableReport' \in BusMessage
  BY DEF BootTypeOK, BusMessage, CableReport
<1>3. CASE board.can_detect_vbus /\ usbd # "none"
  <2>1. msgs' = Append(msgs, CableReport')
    BY <1>1, <1>3 DEF SetVbus, Posted, BringUpOrder, CableReport
  <2>2. UsbFollowsVbus'
    BY <1>2, <2>1, UsbReported
  <2>3. msgs' \in Seq(BusMessage)
    BY <1>2, <2>1
  <2> QED
    BY <1>1, <1>3, <2>2, <2>3 DEF BootTypeOK, BusMessage, BringUpOrder, CredentialsFirst
<1>4. CASE ~ (board.can_detect_vbus /\ usbd # "none")
  <2>1. msgs' = msgs
    BY <1>4 DEF SetVbus
  <2> QED
    BY <1>1, <1>4, <2>1 DEF BootTypeOK, BringUpOrder, CredentialsFirst, UsbFollowsVbus
<1> QED
  BY <1>3, <1>4

\* A bus event is queued like a report, and is none.
LEMMA BusEventInv ==
  ASSUME BootInv, BusEvent
  PROVE  BootInv'
<1> USE DEF BootInv
<1>1. /\ UNCHANGED <<board, msg_cb, main_pc, failed, ipv4, psa, creds, service, logged, usbd, vbus>>
      /\ usbd = "enabled" /\ events' \in 0..MaxEvents
  BY EventsAssumption DEF BusEvent, Event, netVars, mainVars, BootTypeOK
<1>2. msgs \in Seq(BusMessage) /\ "CONFIGURATION" \in BusMessage
  BY DEF BootTypeOK, BusMessage
<1>3. msgs' = Append(msgs, "CONFIGURATION")
  BY <1>1 DEF BusEvent, Posted, BringUpOrder
<1>4. Report' = Report /\ \A k \in Report : msgs'[k] = msgs[k]
  BY <1>2, <1>3, ReportAppend
<1>5. \A k : Last(k)' = Last(k)
  BY <1>4 DEF Last
<1>6. UsbFollowsVbus'
  BY <1>1, <1>4, <1>5 DEF UsbFollowsVbus
<1>7. msgs' \in Seq(BusMessage)
  BY <1>2, <1>3
<1> QED
  BY <1>1, <1>6, <1>7 DEF BootTypeOK, BusMessage, BringUpOrder, CredentialsFirst

\* Power off and on.
LEMMA PowerCycleInv ==
  ASSUME BootInv, PowerCycle
  PROVE  BootInv'
<1>1. events' \in 0..MaxEvents
  BY EventsAssumption DEF PowerCycle, Event, BootInv, BootTypeOK
<1>2. msgs' \in Seq(BusMessage)
  BY DEF PowerCycle
<1>3. BootTypeOK'
  BY <1>1, <1>2 DEF PowerCycle, BootInv, BootTypeOK, Pc, BusMessage
<1> QED
  BY <1>3 DEF PowerCycle, BootInv, BringUpOrder, CredentialsFirst, UsbFollowsVbus

\* Nothing happens.
LEMMA BootStutterInv ==
  ASSUME BootInv, UNCHANGED bootVars
  PROVE  BootInv'
<1>1. /\ UNCHANGED <<board, msg_cb, main_pc, failed, ipv4, psa, creds, service, logged, usbd>>
      /\ UNCHANGED <<msgs, vbus, events>>
  BY DEF bootVars, mainVars, netVars, usbVars, envVars
<1>2. UsbFollowsVbus'
  BY <1>1, UsbKept DEF BootInv
<1> QED
  BY <1>1, <1>2 DEF BootInv, BootTypeOK, BringUpOrder, CredentialsFirst

\* BootInv is inductive.
LEMMA BootStepInv == BootInv /\ [BootNext]_bootVars => BootInv'
<1> SUFFICES ASSUME BootInv, [BootNext]_bootVars PROVE BootInv'
  OBVIOUS
<1>1. CASE Main
  BY <1>1, UsbInitInv, EnableInv, NetInv DEF Main
<1>2. CASE MsgThread \/ CoapThread
  BY <1>2, MsgThreadInv, CoapThreadInv
<1>3. CASE Environment
  BY <1>3, SetVbusInv, BusEventInv, PowerCycleInv DEF Environment
<1>4. CASE UNCHANGED bootVars
  BY <1>4, BootStutterInv
<1> QED
  BY <1>1, <1>2, <1>3, <1>4 DEF BootNext

\* The inductive invariant of bring-up holds.
THEOREM BootInvariant == BootSpec => []BootInv
<1>1. BootInit => BootInv
  BY BootInitInv
<1>2. BootInv /\ [BootNext]_bootVars => BootInv'
  BY BootStepInv
<1> QED
  BY <1>1, <1>2, PTL DEF BootSpec

\* The state of bring-up keeps to its ranges, and what belongs to one build
\* (PSA, TLS credentials) to that build.
THEOREM BootTyped == BootSpec => []BootTypeOK
<1>1. BootInv => BootTypeOK
  BY DEF BootInv
<1> QED
  BY <1>1, BootInvariant, PTL

\* coap_server_start() creates the CoAPS socket only with both credentials
\* registered, whichever of its calls fail and wherever power is cut.
THEOREM SocketAfterCredentials == BootSpec => []CredentialsFirst
<1>1. BootInv => CredentialsFirst
  BY DEF BootInv
<1> QED
  BY <1>1, BootInvariant, PTL

\* However cable changes, bus events, main() and usbd_msg_cb() interleave, the
\* queue of reports ends with the state of the cable, and once it is empty the
\* device is enabled exactly while VBUS is there.
THEOREM UsbNeverLags == BootSpec => []UsbFollowsVbus
<1>1. BootInv => UsbFollowsVbus
  BY DEF BootInv
<1> QED
  BY <1>1, BootInvariant, PTL

=============================================================================
