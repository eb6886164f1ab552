-------------------------------- MODULE Boot --------------------------------
(***************************************************************************)
(* Bring-up of the board: main(), with ncm_usbd_init() and                 *)
(* coap_server_start() inlined call by call, the USB message thread that   *)
(* runs usbd_msg_cb(), and the CoAP server thread that autostarts the      *)
(* plaintext service.  Every call that can fail does, in some behaviour.   *)
(* The cable is plugged and unplugged and the board power-cycled at any    *)
(* moment.                                                                 *)
(***************************************************************************)
EXTENDS Naturals, Sequences

CONSTANTS
    Board,          \* the builds and controllers considered
    MaxEvents       \* bound: cable changes, bus events and power cycles

ASSUME BoardAssumption ==
    Board \subseteq [build : {"base", "dtls", "oscore"}, can_detect_vbus : BOOLEAN]
ASSUME EventsAssumption == MaxEvents \in Nat

VARIABLES
    board,          \* the firmware that runs, on which controller
    main_pc,        \* the call main() makes next
    usbd,           \* the USB device context
    msg_cb,         \* usbd_msg_cb() is registered
    msgs,           \* messages queued for usbd_msg_cb()
    ipv4,           \* the static address is assigned
    psa,            \* psa_crypto_init() succeeded
    creds,          \* TLS credentials registered under PSK_TAG
    service,        \* the CoAP or CoAPS service
    logged,         \* "USB-NCM up" was logged
    vbus,           \* the cable is plugged
    \* History: not in the code.
    failed,         \* calls that failed since power-on
    events

mainVars == <<main_pc, failed>>
netVars  == <<ipv4, psa, creds, service, logged>>
usbVars  == <<usbd, msg_cb, msgs>>
envVars  == <<board, vbus, events>>
bootVars == <<mainVars, netVars, usbVars, envVars>>

-----------------------------------------------------------------------------
(***************************************************************************)
(* main().                                                                 *)
(***************************************************************************)

\* main() returns from the call it is at and goes on, or not, as it does there.
Call(at, ok, next, onError) ==
    /\ main_pc = at
    /\ main_pc' = IF ok THEN next ELSE onError
    /\ failed' = IF ok THEN failed ELSE failed \cup {at}
    /\ UNCHANGED envVars

\* A message is queued if somebody listens; the stack drops it otherwise.
Posted(type) == IF msg_cb THEN Append(msgs, type) ELSE msgs

\* ncm_usbd_init(): descriptors, the configuration and the classes.
add_descriptors(ok) ==
    /\ Call("add_descriptors", ok, "register_cb", "returned")
    /\ UNCHANGED <<netVars, usbVars>>

register_cb(ok) ==
    /\ Call("register_cb", ok, "usbd_init", "returned")
    /\ msg_cb' = ok
    /\ UNCHANGED <<netVars, usbd, msgs>>

\* From here on the controller reports VBUS, first of all the VBUS it finds.
usbd_init(ok) ==
    /\ Call("usbd_init", ok, "enable", "returned")
    /\ usbd' = IF ok THEN "disabled" ELSE usbd
    /\ msgs' = IF ok /\ board.can_detect_vbus /\ vbus THEN Posted("VBUS_READY") ELSE msgs
    /\ UNCHANGED <<netVars, msg_cb>>

\* Mutant: ncm_usbd_init() registers the callback behind usbd_init().
usb_setup_cb_last(ok) ==
    \/ add_descriptors(ok)
    \/ /\ Call("register_cb", ok, "usbd_init", "returned")
       /\ usbd' = IF ok THEN "disabled" ELSE usbd
       /\ UNCHANGED <<netVars, msg_cb, msgs>>
    \/ /\ Call("usbd_init", ok, "enable", "returned")
       /\ msg_cb' = ok
       /\ UNCHANGED <<netVars, usbd, msgs>>

ncm_usbd_init(ok) == add_descriptors(ok) \/ register_cb(ok) \/ usbd_init(ok)

\* Mutant: main() enables the device on every controller.
enable_here_always == TRUE

\* Controllers with VBUS detection are enabled by usbd_msg_cb().
enable_here == ~ board.can_detect_vbus

enable(ok) ==
    /\ enable_here
    /\ Call("enable", ok, "ipv4", "returned")
    /\ usbd' = IF ok THEN "enabled" ELSE usbd
    /\ UNCHANGED <<netVars, msg_cb, msgs>>

leave_to_msg_cb ==
    /\ ~ enable_here
    /\ Call("enable", TRUE, "ipv4", "returned")
    /\ UNCHANGED <<netVars, usbVars>>

\* Mutant: PSA is initialised whatever the build.
after_ipv4_always == "psa"

\* psa_crypto_init() is compiled with CONFIG_LIBEDHOC_ENABLE only.
after_ipv4 == IF board.build = "oscore" THEN "psa" ELSE "server_start"

\* The result is discarded.
assign_static_ipv4(ok) ==
    /\ Call("ipv4", ok, after_ipv4, after_ipv4)
    /\ ipv4' = ok
    /\ UNCHANGED <<psa, creds, service, logged, usbVars>>

\* A failure is logged, and main() goes on.
psa_crypto_init(ok) ==
    /\ Call("psa", ok, "server_start", "server_start")
    /\ psa' = ok
    /\ UNCHANGED <<ipv4, creds, service, logged, usbVars>>

\* The plaintext coap_server_start() only logs.
plain_server_start ==
    /\ board.build # "dtls"
    /\ Call("server_start", TRUE, "log", "log")
    /\ UNCHANGED <<netVars, usbVars>>

add_psk(ok) ==
    /\ board.build = "dtls"
    /\ Call("server_start", ok, "psk_id", "log")
    /\ creds' = IF ok THEN creds \cup {"PSK"} ELSE creds
    /\ UNCHANGED <<ipv4, psa, service, logged, usbVars>>

\* Mutant: the CoAPS service is started between the two credentials.
coap_server_start_early(ok) ==
    \/ plain_server_start
    \/ add_psk(ok)
    \/ /\ Call("psk_id", ok, "service", "log")
       /\ service' = IF ok THEN "bound" ELSE "failed"
       /\ UNCHANGED <<ipv4, psa, creds, logged, usbVars>>
    \/ /\ Call("service", ok, "log", "log")
       /\ creds' = IF ok THEN creds \cup {"PSK_ID"} ELSE creds
       /\ UNCHANGED <<ipv4, psa, service, logged, usbVars>>

add_psk_id(ok) ==
    /\ Call("psk_id", ok, "service", "log")
    /\ creds' = IF ok THEN creds \cup {"PSK_ID"} ELSE creds
    /\ UNCHANGED <<ipv4, psa, service, logged, usbVars>>

coap_service_start(ok) ==
    /\ Call("service", ok, "log", "log")
    /\ service' = IF ok THEN "bound" ELSE "failed"
    /\ UNCHANGED <<ipv4, psa, creds, logged, usbVars>>

coap_server_start(ok) ==
    plain_server_start \/ add_psk(ok) \/ add_psk_id(ok) \/ coap_service_start(ok)

log_up ==
    /\ Call("log", TRUE, "returned", "returned")
    /\ logged' = TRUE
    /\ UNCHANGED <<ipv4, psa, creds, service, usbVars>>

Main ==
    \E ok \in BOOLEAN :
        \/ ncm_usbd_init(ok)
        \/ enable(ok)
        \/ assign_static_ipv4(ok)
        \/ psa_crypto_init(ok)
        \/ coap_server_start(ok)
        \/ ok /\ (leave_to_msg_cb \/ log_up)

-----------------------------------------------------------------------------
(***************************************************************************)
(* The USB message thread and the CoAP server thread.                      *)
(***************************************************************************)

\* The messages usbd_msg_cb() acts on.
ActedOn(msg) == msg \in {"VBUS_READY", "VBUS_REMOVED"}

usbd_msg_cb_ignores ==
    /\ msgs # <<>>
    /\ ~ board.can_detect_vbus \/ ~ ActedOn(Head(msgs))
    /\ msgs' = Tail(msgs)
    /\ UNCHANGED <<mainVars, netVars, usbd, msg_cb, envVars>>

usbd_msg_cb(ok) ==
    /\ msgs # <<>>
    /\ board.can_detect_vbus
    /\ ActedOn(Head(msgs))
    /\ msgs' = Tail(msgs)
    /\ usbd' = IF ~ ok THEN usbd
               ELSE IF Head(msgs) = "VBUS_READY" THEN "enabled" ELSE "disabled"
    /\ failed' = IF ok THEN failed ELSE failed \cup {Head(msgs)}
    /\ UNCHANGED <<main_pc, netVars, msg_cb, envVars>>

\* COAP_SERVICE_AUTOSTART: tried once, as soon as the thread runs.
Autostart(ok) ==
    /\ board.build # "dtls"
    /\ service = "stopped"
    /\ service' = IF ok THEN "bound" ELSE "failed"
    /\ failed' = IF ok THEN failed ELSE failed \cup {"autostart"}
    /\ UNCHANGED <<main_pc, ipv4, psa, creds, logged, usbVars, envVars>>

MsgThread  == usbd_msg_cb_ignores \/ \E ok \in BOOLEAN : usbd_msg_cb(ok)
CoapThread == \E ok \in BOOLEAN : Autostart(ok)

-----------------------------------------------------------------------------
(***************************************************************************)
(* The environment.                                                        *)
(***************************************************************************)
Event == events < MaxEvents /\ events' = events + 1

\* The cable: a controller that can tell reports the change.
SetVbus(present) ==
    /\ Event
    /\ vbus # present
    /\ vbus' = present
    /\ msgs' = IF board.can_detect_vbus /\ usbd # "none"
                 THEN Posted(IF present THEN "VBUS_READY" ELSE "VBUS_REMOVED")
                 ELSE msgs
    /\ UNCHANGED <<mainVars, netVars, usbd, msg_cb, board>>

\* The host resets or configures the device: messages the callback ignores.
BusEvent ==
    /\ Event
    /\ usbd = "enabled" /\ vbus
    /\ msgs' = Posted("CONFIGURATION")
    /\ UNCHANGED <<mainVars, netVars, usbd, msg_cb, board, vbus>>

PowerCycle ==
    /\ Event
    /\ main_pc' = "add_descriptors" /\ failed' = {}
    /\ usbd' = "none" /\ msg_cb' = FALSE /\ msgs' = <<>>
    /\ ipv4' = FALSE /\ psa' = FALSE /\ creds' = {} /\ service' = "stopped" /\ logged' = FALSE
    /\ UNCHANGED <<board, vbus>>

Environment == (\E present \in BOOLEAN : SetVbus(present)) \/ BusEvent \/ PowerCycle

BootInit ==
    /\ board \in Board
    /\ main_pc = "add_descriptors" /\ failed = {}
    /\ usbd = "none" /\ msg_cb = FALSE /\ msgs = <<>>
    /\ ipv4 = FALSE /\ psa = FALSE /\ creds = {} /\ service = "stopped" /\ logged = FALSE
    /\ vbus \in BOOLEAN
    /\ events = 0

BootNext == Main \/ MsgThread \/ CoapThread \/ Environment

\* The three threads run; nothing is assumed of the environment.
BootFairness == WF_bootVars(Main) /\ WF_bootVars(MsgThread) /\ WF_bootVars(CoapThread)

BootSpec == BootInit /\ [][BootNext]_bootVars /\ BootFairness

-----------------------------------------------------------------------------
(***************************************************************************)
(* Properties.                                                             *)
(***************************************************************************)
Pc == {"add_descriptors", "register_cb", "usbd_init", "enable", "ipv4", "psa", "server_start",
       "psk_id", "service", "log", "returned"}

\* The values the state of bring-up ranges over, and the state that exists in
\* one build only.
BootTypeOK ==
    /\ board \in Board
    /\ main_pc \in Pc
    /\ usbd \in {"none", "disabled", "enabled"}
    /\ msg_cb \in BOOLEAN
    /\ msgs \in Seq({"VBUS_READY", "VBUS_REMOVED", "CONFIGURATION"})
    /\ ipv4 \in BOOLEAN /\ psa \in BOOLEAN /\ logged \in BOOLEAN /\ vbus \in BOOLEAN
    /\ creds \subseteq {"PSK", "PSK_ID"}
    /\ service \in {"stopped", "bound", "failed"}
    /\ failed \subseteq Pc \cup {"VBUS_READY", "VBUS_REMOVED", "autostart"}
    /\ events \in 0..MaxEvents
    /\ main_pc = "psa" \/ psa => board.build = "oscore"
    /\ main_pc \in {"psk_id", "service"} \/ creds # {} => board.build = "dtls"

\* The CoAPS socket is created only once both credentials are registered
\* ("the credentials must be registered before the socket is created").
CredentialsFirst ==
    board.build = "dtls" /\ service = "bound" => creds = {"PSK", "PSK_ID"}

\* The cable reports in the queue, on which usbd_msg_cb() has still to act, and
\* the last of them.
Report == {k \in 1..Len(msgs) : msgs[k] # "CONFIGURATION"}
Last(k) == k \in Report /\ \A j \in Report : j <= k

\* The controller's state never lags the cable for good: what is still queued
\* ends with the present state of the cable, and with nothing queued the device
\* is enabled exactly while VBUS is there, unless enabling or disabling failed.
UsbFollowsVbus ==
    board.can_detect_vbus /\ usbd # "none" =>
        /\ \A k \in Report :
              Last(k) => msgs[k] = IF vbus THEN "VBUS_READY" ELSE "VBUS_REMOVED"
        /\ Report = {} /\ failed \cap {"VBUS_READY", "VBUS_REMOVED"} = {} =>
              (usbd = "enabled" <=> vbus)

\* How far bring-up got: nothing is queued before usbd_init() succeeded, and by
\* then the callback listens; a credential is there once main() is past it.
BringUpOrder ==
    /\ main_pc \in {"add_descriptors", "register_cb", "usbd_init"} => usbd = "none"
    /\ main_pc = "enable" => usbd # "none"
    /\ main_pc = "usbd_init" \/ usbd # "none" => msg_cb
    /\ usbd = "none" => msgs = <<>>
    /\ main_pc = "psk_id" => "PSK" \in creds
    /\ main_pc = "service" => creds = {"PSK", "PSK_ID"}

\* The inductive invariant of bring-up.
BootInv == BootTypeOK /\ BringUpOrder /\ CredentialsFirst /\ UsbFollowsVbus

\* The host reaches the server at the board's address.
Reachable == vbus /\ usbd = "enabled" /\ ipv4 /\ service = "bound"

\* However the cable was moved during bring-up, once it stays in and the calls
\* of the last power-on succeed, the server becomes and stays reachable.
BootServes == <>[](vbus /\ failed \subseteq {"psa"}) => <>[]Reachable

\* main() on psa_crypto_init(): "Safe to call once here before any crypto runs."
\* Any request that reaches the server runs crypto, so that no host may reach the
\* secure build before main() is past the call.
PsaBeforeCrypto ==
    board.build = "oscore" /\ Reachable => main_pc \in {"server_start", "log", "returned"}

\* The line main() logs last, "USB-NCM up (board 192.0.2.1)".
LoggedUpIsUp == logged => ipv4

=============================================================================
