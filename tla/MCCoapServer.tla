---------------------------- MODULE MCCoapServer ----------------------------
(***************************************************************************)
(* CoapServer with the exchange each request completes: last is the most   *)
(* recent request with its response, acked the value of the last PUT /led  *)
(* that was answered 2.04 (0 before any).                                  *)
(***************************************************************************)
EXTENDS CoapServer

VARIABLES last, acked

Word == {<<>>, <<"1">>, <<"0">>, <<"o", "n">>, <<"o", "f", "f">>, <<"o", "f">>, <<"x">>}

NoExchange == [req |-> [code |-> "none", path |-> "none", payload |-> <<>>],
               rsp |-> Rsp("none", "none")]

MCInit == led_init /\ last = NoExchange /\ acked = 0

Exchange(req) ==
    /\ last' = [req |-> req, rsp |-> service_reply(req)]
    /\ acked' = IF service_reply(req).code = "2.04" THEN parse_onoff(req.payload) ELSE acked

Serve  == \E req \in Request : app_request(req) /\ Exchange(req)
Reject == \E req \in Request : service_reject(req) /\ Exchange(req)

MCSpec == MCInit /\ [][Serve \/ Reject]_<<ledVars, last, acked>>

-----------------------------------------------------------------------------
\* GET /led answers with the level of the LED pin, which is the value of the
\* last PUT that was acknowledged with 2.04: no request of another kind, no
\* refused payload and no request to another path moves it.
GetReportsPin ==
    last.req.code = "GET" /\ last.req.path = "led" =>
        last.rsp = Rsp("2.05", led_pin) /\ led_pin = acked

\* Every method registered for a resource is one that the shared dispatcher
\* knows: app_request() is never called for a request it answers 4.04.
RoutesAgree ==
    last.rsp.code = "4.04" => Registered(last.req.path) = {}

\* README.md: "GET returns the board LED state".
LedStateIsBoardLed == led_state = led_pin

=============================================================================
