-------------------------- MODULE CoapServerProofs --------------------------
(***************************************************************************)
(* Proofs about the resources, for every set of payloads.  The inductive   *)
(* invariant ties the shadow copy led_state and, where the GPIO port is    *)
(* ready, the pin to the last acknowledged PUT, and the last response to   *)
(* the request it answers.                                                 *)
(***************************************************************************)
EXTENDS MCCoapServer, TLAPS

\* The value GET /led reports is the last one acknowledged.
ShadowInv == led_state = acked /\ (LedReady => led_pin = acked)

\* The last exchange, as the state it left behind shows it.
LastInv ==
    /\ last.req.code = "GET" /\ last.req.path = "led" => last.rsp = Rsp("2.05", led_state)
    /\ RoutesAgree

ServerInv == CoapTypeOK /\ ShadowInv /\ LastInv

-----------------------------------------------------------------------------
\* parse_onoff() returns 1, 0 or -1.
LEMMA OnOffRange ==
  ASSUME NEW w
  PROVE  parse_onoff(w) \in {-1, 0, 1}
  BY DEF parse_onoff

\* What drive_led() does to the shadow copy and the pin, by whether the request
\* reaches the GPIO assignment.
LEMMA DriveLed ==
  ASSUME CoapTypeOK, NEW req \in Request, drive_led(req)
  PROVE  /\ CoapTypeOK'
         /\ SetsLed(req) => /\ led_state' = parse_onoff(req.payload)
                            /\ LedReady => led_pin' = parse_onoff(req.payload)
         /\ ~ SetsLed(req) => UNCHANGED <<led_state, led_pin>>
<1>1. SetsLed(req) => parse_onoff(req.payload) \in {0, 1}
  BY OnOffRange DEF SetsLed
<1> QED
  BY <1>1 DEF drive_led, CoapTypeOK

\* Of the responses, 2.04 is the one to the requests that drive the LED, and
\* 4.04 the one to a path that has no handler.
LEMMA ReplyCodes ==
  ASSUME NEW req \in Request
  PROVE  /\ service_reply(req).code = "2.04" <=> SetsLed(req)
         /\ SetsLed(req) => req.code \in Registered(req.path)
         /\ service_reply(req).code = "4.04" => Registered(req.path) = {}
         /\ req.code = "GET" /\ req.path = "led" => service_reply(req) = Rsp("2.05", led_state)
<1>1. parse_onoff(req.payload) \in {-1, 0, 1}
  BY OnOffRange
<1>2. req.code \in Method /\ req.path \in Path
  BY DEF Request
<1>3. CASE req.path = "hello"
  BY <1>1, <1>2, <1>3 DEF service_reply, Registered, coap_server_dispatch_inner,
     build_hello, build_led_get, build_led_put, Rsp, SetsLed, Method
<1>4. CASE req.path = "led"
  BY <1>1, <1>2, <1>4 DEF service_reply, Registered, coap_server_dispatch_inner,
     build_hello, build_led_get, build_led_put, Rsp, SetsLed, Method
<1>5. CASE req.path = "none"
  BY <1>1, <1>2, <1>5 DEF service_reply, Registered, coap_server_dispatch_inner,
     build_hello, build_led_get, build_led_put, Rsp, SetsLed, Method
<1> QED
  BY <1>2, <1>3, <1>4, <1>5 DEF Path

\* Neither app_request() nor a rejection breaks the invariant.
LEMMA ServerStep ==
  ASSUME ServerInv, Serve \/ Reject
  PROVE  ServerInv'
<1>1. PICK req \in Request : /\ app_request(req) \/ service_reject(req)
                             /\ Exchange(req)
  BY DEF Serve, Reject
<1>2. /\ CoapTypeOK'
      /\ SetsLed(req) => /\ led_state' = parse_onoff(req.payload)
                         /\ LedReady => led_pin' = parse_onoff(req.payload)
      /\ ~ SetsLed(req) => UNCHANGED <<led_state, led_pin>>
  <2>1. CASE app_request(req)
    BY <2>1, DriveLed DEF app_request, ServerInv
  <2>2. CASE service_reject(req)
    <3>1. ~ SetsLed(req) /\ UNCHANGED <<led_state, led_pin>>
      BY <2>2, ReplyCodes DEF service_reject, ledVars
    <3> QED
      BY <3>1 DEF ServerInv, CoapTypeOK
  <2> QED
    BY <1>1, <2>1, <2>2
<1>3. acked' = IF SetsLed(req) THEN parse_onoff(req.payload) ELSE acked
  BY <1>1, ReplyCodes DEF Exchange
<1>4. ShadowInv'
  BY <1>2, <1>3 DEF ServerInv, ShadowInv
<1>5. last'.req = req /\ last'.rsp = service_reply(req)
  BY <1>1 DEF Exchange
<1>6. LastInv'
  <2>1. req.code = "GET" => ~ SetsLed(req)
    BY DEF SetsLed
  <2>2. (last.req.code = "GET" /\ last.req.path = "led" => last.rsp = Rsp("2.05", led_state))'
    BY <1>2, <1>5, <2>1, ReplyCodes
  <2>3. RoutesAgree'
    BY <1>5, ReplyCodes DEF RoutesAgree
  <2> QED
    BY <2>2, <2>3 DEF LastInv
<1> QED
  BY <1>2, <1>4, <1>6 DEF ServerInv

\* The invariant of the resources: the shadow copy and the pin follow the
\* acknowledged PUTs, whatever the payloads and whether or not the port is ready.
THEOREM ServerInvariant == MCSpec => []ServerInv
<1>1. MCInit => ServerInv
  BY DEF MCInit, led_init, NoExchange, Rsp, ServerInv, CoapTypeOK, ShadowInv, LastInv,
     RoutesAgree
<1>2. ServerInv /\ [Serve \/ Reject]_<<ledVars, last, acked>> => ServerInv'
  <2> SUFFICES ASSUME ServerInv, [Serve \/ Reject]_<<ledVars, last, acked>>
               PROVE  ServerInv'
    OBVIOUS
  <2>1. CASE Serve \/ Reject
    BY <2>1, ServerStep
  <2>2. CASE UNCHANGED <<ledVars, last, acked>>
    BY <2>2 DEF ledVars, ServerInv, CoapTypeOK, ShadowInv, LastInv, RoutesAgree
  <2> QED
    BY <2>1, <2>2
<1> QED
  BY <1>1, <1>2, PTL DEF MCSpec

\* led_state and the pin hold 0 or 1: parse_onoff()'s -1 never reaches them.
THEOREM ServerTyped == MCSpec => []CoapTypeOK
<1>1. ServerInv => CoapTypeOK
  BY DEF ServerInv
<1> QED
  BY <1>1, ServerInvariant, PTL

\* app_request() is never called for a request that the dispatcher answers 4.04.
THEOREM RoutesAlwaysAgree == MCSpec => []RoutesAgree
<1>1. ServerInv => RoutesAgree
  BY DEF ServerInv, LastInv
<1> QED
  BY <1>1, ServerInvariant, PTL

\* GET /led reports the pin and the last acknowledged PUT, on a board whose GPIO
\* port is ready; without the port led_init() leaves no pin to report.
THEOREM LedReported ==
  ASSUME LedReady
  PROVE  MCSpec => []GetReportsPin
<1>1. ServerInv => GetReportsPin
  BY DEF ServerInv, ShadowInv, LastInv, GetReportsPin
<1> QED
  BY <1>1, ServerInvariant, PTL

=============================================================================
