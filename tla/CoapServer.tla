----------------------------- MODULE CoapServer -----------------------------
(***************************************************************************)
(* The hello and led resources of coap_server.c.  coap_server_dispatch_    *)
(* inner() builds the response to a request, for the plaintext handlers    *)
(* (app_request) and for the OSCORE intercept (EdhocOscore) alike, so it   *)
(* is an operator here: the response and the LED value a request leaves    *)
(* behind, given the LED value it finds.                                   *)
(***************************************************************************)
EXTENDS Encoding

CONSTANTS
    Payload,        \* payloads of a request, as sequences of characters
    LedReady        \* whether led_init() found the GPIO port ready

ASSUME LedReadyAssumption == LedReady \in BOOLEAN

VARIABLES
    led_state,      \* the file-scope bool, 0 or 1
    led_pin         \* the level of the led0 pin

ledVars == <<led_state, led_pin>>

Method == {"GET", "POST", "PUT", "DELETE"}
Path   == {"hello", "led", "none"}          \* "none": any other Uri-Path
Request == [code : Method, path : Path, payload : Payload]

\* A response: its code and, for 2.05 Content, the value it carries.
Rsp(code, value) == [code |-> code, value |-> value]

-----------------------------------------------------------------------------
build_hello == Rsp("2.05", "greeting")

build_led_get(led) == Rsp("2.05", led)

build_led_put(req) ==
    Rsp(IF parse_onoff(req.payload) < 0 THEN "4.00" ELSE "2.04", "none")

\* Mutant: every request for the led resource is taken for a valid PUT.
SetsLed_unchecked(req) == req.path = "led"

\* The requests that reach the GPIO assignment of build_led_put().
SetsLed(req) == /\ req.code = "PUT"
                /\ req.path = "led"
                /\ parse_onoff(req.payload) >= 0

coap_server_dispatch_inner(req, led) ==
    CASE req.code = "GET" /\ req.path = "hello" -> build_hello
      [] req.code = "GET" /\ req.path = "led"   -> build_led_get(led)
      [] req.code = "PUT" /\ req.path = "led"   -> build_led_put(req)
      [] OTHER                                  -> Rsp("4.04", "none")

\* Mutant: the shadow copy of the LED value is not updated.
drive_led_no_shadow(req) ==
    /\ led_pin' = IF SetsLed(req) /\ LedReady THEN parse_onoff(req.payload) ELSE led_pin
    /\ UNCHANGED led_state

\* The two assignments of build_led_put(); gpio_pin_set_dt()'s result is ignored.
drive_led(req) ==
    /\ led_state' = IF SetsLed(req) THEN parse_onoff(req.payload) ELSE led_state
    /\ led_pin' = IF SetsLed(req) /\ LedReady THEN parse_onoff(req.payload) ELSE led_pin

-----------------------------------------------------------------------------
(***************************************************************************)
(* The plaintext service: the stack matches the path, then the method.     *)
(***************************************************************************)
\* Mutant: a handler is registered for POST /led.
Registered_post(path) == CASE path = "hello" -> {"GET"}
                           [] path = "led"   -> {"GET", "PUT", "POST"}
                           [] OTHER          -> {}

\* The methods each COAP_RESOURCE_DEFINE gives a handler for.
Registered(path) == CASE path = "hello" -> {"GET"}
                      [] path = "led"   -> {"GET", "PUT"}
                      [] OTHER          -> {}

\* The response on the wire: app_request()'s, or the stack's error.
service_reply(req) ==
    IF req.code \in Registered(req.path)
      THEN coap_server_dispatch_inner(req, led_state)
      ELSE Rsp(IF Registered(req.path) = {} THEN "4.04" ELSE "4.05", "none")

app_request(req) ==
    /\ req.code \in Registered(req.path)
    /\ drive_led(req)

\* A request no handler is registered for.
service_reject(req) ==
    /\ req.code \notin Registered(req.path)
    /\ UNCHANGED ledVars

\* led_init() configures the pin inactive; led_state is zero-initialised.
led_init == led_state = 0 /\ led_pin = 0

CoapNext == \E req \in Request : app_request(req) \/ service_reject(req)

CoapSpec == led_init /\ [][CoapNext]_ledVars

CoapTypeOK == led_state \in {0, 1} /\ led_pin \in {0, 1}

=============================================================================
