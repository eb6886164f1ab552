# usb_ncm_net in TLA+

TLA+ modules of the firmware and host tools in this repository, the TLC
configurations that check them, and TLAPS proofs of every safety property the
runs check. Source paths
below are relative to the repository root (`src/edhoc_oscore.c` and so on).

## The system

| Part | State | Operations | Talks to |
|---|---|---|---|
| CoAP resources, `src/coap_server.c` | `led_state`, the LED pin | `app_request`, `coap_server_dispatch_inner`, `led_init` | the Zephyr CoAP server thread calls it; `oscore_post` calls the dispatcher |
| EDHOC responder, `src/edhoc_oscore.c` | one EDHOC context, `edhoc_ctx_active`, exported key and id buffers | `edhoc_post` (message_1, message_3), `cred_fetch`, `cred_verify`, `derive_and_init_oscore` | client over UDP; libedhoc |
| OSCORE intercept, `src/edhoc_oscore.c` | one OSCORE context with its replay window, `oscore_ready` | `oscore_post` | client over UDP; uoscore; the dispatcher |
| Host client, `host_client/src/client.cpp` | EDHOC context, OSCORE context (sender sequence number), socket | the handshake in `main`, `oscore_request`, `bench_endpoint` | the device |
| Key generator, `scripts/edhoc_keys.py` | none | `kid_wire_int`, header generation | both ends, at build time |
| SHA-256 hook, `src/edhoc_oscore.c` | a session of the accelerator's driver | `edhoc_hash_hw` | libedhoc calls it; the Zephyr crypto driver |
| Boot, `src/main.c`, `src/usbd_setup.c`, `src/coap_server.c` | USB device, address, PSA, credentials, service | `main`, `usbd_msg_cb`, `ncm_usbd_init`, `coap_server_start` | Zephyr USB, net and CoAP threads |
| Latency probe, `scripts/coap_latency.py` (and `--bench` of the client) | message id, samples, losses | `measure`, `report`, `bench_endpoint` | the plaintext server, the device |
| Command line, `scripts/coap_cli.py` | attempt, DTLS session | `open_transport`, `close_quietly` | the DTLS build's context pool |

What is hard. The Zephyr CoAP server runs its handlers on one thread, so two
handlers never interleave; what interleaves are the *datagrams* of overlapping
client runs, and each may be lost, doubled, delayed or reordered. The device has
one EDHOC context and one OSCORE context for everybody: a message_1 from anyone
discards both. A handler can fail at any of its stages, half of its state
written, and says nothing when it does. The OSCORE context keeps the sender id
by reference to buffers that the next handshake overwrites. The client sends each
message once, takes the next datagram for the answer, and gives up after 5 s.
During bring-up three threads run: `main`, the USB message thread with
`usbd_msg_cb`, and the CoAP server thread, which serves requests as soon as the
board is reachable, whatever `main` still has to do. Most failures of bring-up are
logged and passed over.

What makes each part correct:

- *resources*: GET reports what the last acknowledged PUT set; the registered
  methods are those the dispatcher serves.
- *responder*: keys are used for one session only; a handshake in flight and a
  usable session exclude each other; whatever was abandoned, the next handshake works.
- *intercept*: a request runs at most once; its response is readable by who asked.
- *client*: it goes on to OSCORE only on a session the device installed; it ends.
- *bring-up*: credentials come before the CoAPS socket; the USB device follows the
  cable; a clean bring-up ends with a reachable server.
- *hash hook*: no failure it hears of keeps the driver's only session.
- *probes*: a sample times a request to its own response; samples and losses add up;
  the printed positions are those of the percentiles.
- *command line*: its retries do not exhaust the board's contexts by themselves.
- *encodings*: framing and one-byte integers are read as they were written.

## Modules

| Module | Models |
|---|---|
| `Encoding` | pure operators: `cbor_item_len`, the framing of `edhoc_post`, `cid_to_cbor`, `kid_wire_int`, `cred_verify`, `parse_onoff` |
| `Messages` | sessions and datagrams, with symbolic cryptography |
| `CoapServer` | the resources and the shared dispatcher |
| `EdhocOscore` | the device: `edhoc_post`, `oscore_post`, plaintext requests, reboot, with an environment that sends anything (extends `CoapServer`, `Messages`) |
| `HostClient` | one execution of `client.cpp` per member of `GX`, and its sockets (extends `Messages`) |
| `HandshakeSystem` | `EdhocOscore` and `HostClient` on a faulty link |
| `SecureSession` | abstract specification: what the two programs promise together |
| `Boot` | `main`, `ncm_usbd_init`, `coap_server_start`, `usbd_msg_cb` and the autostart, for every build and kind of controller |
| `Sha256Hw` | pure operators: `edhoc_hash_hw` as a function of its arguments, the driver's session and the driver calls that fail |
| `Probe` | `measure` and `bench_endpoint` on one socket over a faulty link |
| `Statistics` | pure operators: the order statistics of `report` and `bench_endpoint` |
| `CoapCli` | executions of `coap_cli.py --dtls` against the context pool |
| `MCEncoding`, `MCCoapServer`, `MCEdhocOscore`, `MCHandshakeSystem`, `MCBoot`, `MCProbe`, `MCCoapCli` | instances for TLC |
| `EdhocOscoreProofs`, `HandshakeSystemProofs`, `BootProofs`, `ProbeProofs`, `CoapCliProofs` | theorems about the component of that name |
| `CoapServerProofs`, `EncodingProofs` | theorems about `MCCoapServer` (the resources with the exchange they complete) and about `MCEncoding` and the pure operators it draws inputs for |

### How state and actions correspond to the code

*Cryptography.* An EDHOC run is the pair `<<x, y>>` of ephemeral keys that went
into it; so are the OSCORE keys derived from it. A message carries the run or
session it was made for and is accepted only there. `x` identifies a run of the
client; `y` is a counter, since the responder draws a fresh key for every
message_1. `on_wire` (RFC 9528 3.3.2), `oscore2coap_ok`, `slide_window`
(uoscore) and `service_reply` (Zephyr) stand for code outside the repository and
are marked external.

*The device.* `edhoc_ctx`, `edhoc_ctx_active`, `oscore_ctx`, `oscore_ready`,
`led_state` are the statics of those names; `exported` is the run to which the
four `oscore_*` key and id buffers belong; `replay` is the set of PIVs that the
replay window refuses. A handler is one action with a parameter `fail`, the stage
at which it fails (`"none"` if it does not); `edhoc_reply` and `oscore_reply` give
what it sends, the empty set for silence. `edhoc_mtx` is not modelled: one
thread runs all handlers. `drawn`, `installed`, `dispatched` and `held` are history
variables; `held` counts the EDHOC contexts with key material that were not yet given
to `edhoc_context_deinit`. A setup that fails half way is not given to it either: its
context is initialised but has no keys (they are drawn and imported when message_2 is
composed), and the next message_1 initialises it anew.

*The client.* `c_pc` is where `main` blocks (`wait2`, `wait4`, `wait_rsp`) or
stands; `c_i` is the position in the script of requests and `c_ssn` the OSCORE
sequence number, apart because a request that fails locally may or may not use
one up. A recv() takes any datagram the socket holds. A late response to an
earlier request may or may not decrypt, so `decrypts` allows both. Exit closes
the socket: what it held, and replies still to come, are gone.

*The link.* `toDev` and `toHost` are sets, so order is lost; `DeliverTwice`
leaves a copy behind. Loss, duplication, failing stages, reboots and premature
timeouts count as `faults`, at most `MaxFaults` of them. A timeout with nothing
left in flight is free.

*Bring-up.* `main_pc` is the call `main` makes next, the calls of
`ncm_usbd_init` and `coap_server_start` included; each takes a parameter `ok`, and
`failed` collects the calls that failed since power-on. `usbd` is the state of the
USB context and `msgs` the queue of the message thread; a message posted while no
callback is registered is dropped, one posted later is delivered in order (Zephyr's
side, external). `board` is chosen once: the build, and whether the controller
detects VBUS. `Reachable` is when a host gets a datagram to the server, whatever
`main` still has to do. Default thread priorities and the time USB enumeration takes
make a request that early unlikely; nothing in the code excludes it. What the
cryptography does before, or without, `psa_crypto_init` is the library's: in
`EdhocOscore` a handshake may fail at every stage at any time, which covers it.

*Hash hook.* `fails` is the set of driver calls that fail. The result of
`hash_free_session` is discarded: if it fails, the session stays taken and the next
call is refused, so `AcceleratorFree` makes an exception of this one failure.

*Probes.* `tool` says which of the two loops runs. A datagram carries, as history,
the request it belongs to. `measure` looks at the message id only; `bench_endpoint`
takes the next datagram, and one that belongs to another request may or may not
decrypt, as in `HostClient`. A response has the type that the server gives it. The time itself is not modelled: a timeout may come at
any moment of a wait, so late responses are among the behaviours.

*Command line.* `pool` holds a context per handshake the board took part in. It
shrinks by a `close_notify` that arrives, or by the DTLS timeout once the client no
longer uses the session. A failed attempt leaves a context behind or not; its
`close_quietly` is one of the reasons why not. An exception that is no `OSError` ends
the execution without one. This is the pool as `dtls.conf` and the comments of
`coap_cli.py` describe it; it is Zephyr code.

## Runs

| Run | Instance | Checks |
|---|---|---|
| `encoding` | C_R as an integer of each of the five widths (all one-byte values) and as byte strings of up to 511 bytes with one-, two- and three-byte headers, ten payload lengths up to 256, all kid pairs; hash calls with lengths around their limits, missing arguments and every set of failing driver calls; 1 to 1000 samples | `FramingExact`, `KidVerified`, `WireIntInverse`, `AcceleratorFree`, `PercentilesSound`, `FiguresOrdered` |
| `resources` | all methods and paths, seven payloads | `GetReportsPin`, `RoutesAgree` |
| `device` | 2 client keys, 2 responder keys, 3 PIVs with a window of 2, 2 kids, every stage failing, reboots | `KeysReleased`, `KeysInstalledOnce`, `DispatchedAtMostOnce`, `NoSessionSwap`, `ConsistentContext`, `AnswersReadable`, `HandshakeExcludesSession`, `FreshKeys`, `WindowCovers` |
| `system` | 2 overlapping client runs, 2 requests each, 2 faults, 4 responder keys | `Agreement`, `AnsweredWasDispatched`, `FlightSound`, refinement `ImplementsSecureSession`, liveness `EveryRunEnds` and `NeverWedged` |
| `board` | three builds on two controllers, six cable changes, bus events or resets, every call failing | `CredentialsFirst`, `UsbFollowsVbus`, liveness `BootServes` |
| `probe` | either tool, two calls of three requests, three message ids, one duplication | `OwnWithinCall`, `SamplesAddUp`, liveness `ProbeEnds` |
| `cli_pool` | three executions, three attempts, three contexts | `RetryFindsRoom`, liveness `PoolDrains` |

Five runs show a disagreement between the code and what is written about it:

- `led_not_ready`: with the GPIO port not ready, PUT is acknowledged and GET
  reports a value the LED does not have (`gpio_pin_set_dt`'s result is discarded).
- `own_response`: after one timeout in the OSCORE client the late response ends
  the next request's round trip, unlike in `coap_latency.py`, which matches ids.
- `logged_up`: `main` discards the result of `assign_static_ipv4` and logs that the
  board is up at its address.
- `psa_order`: a comment in `main` says that `psa_crypto_init` is called before any
  crypto runs; the USB device, the address and the autostarted server are up before
  it, so a handshake can be under way.
- `non_response`: the server answers every request with an ACK; the docstring of
  `coap_latency.py` says that a NON request is answered by a NON response.

Three more places were met where only the wording is out of date, and which no run is
about: `parse_onoff` accepts any payload that *begins* with one of its words, where its
comment lists the words and says "else -1"; a comment in `edhoc_post` says that
message_3 gets an empty reply, where the code sends message_4 (and the repository's
README says so); `include/coap_server.h` and `main.c` speak of X.509 credentials, where
the DTLS build registers a pre-shared key.

*Bounds.* `MaxDraws` is the number of responder keys: client runs plus faults, so
that it never blocks a message_1 in the system runs. Two client runs are the
least for interleaved handshakes; two requests the least for a late response; two
faults allow, for example, a duplicated message_1 and a lost reply. In `device`
the environment replays anything for ever, so two responder keys give every
pattern of old and new session. The script is the PUT and GET of the client's
demo; `bench_endpoint` sends more of the same. The replay window is 32 in the
system runs (never reached) and 2 in `device`, where it slides.

In `board` six events allow a cable that is moved while its last message is still
queued, followed by a reset. In `probe` a call has exactly as many requests as
there are ids, the most for which an id does not return within the call (65536 in
the code, where a call has 1050 by default), and the first id is arbitrary, so it
wraps. In `cli_pool` the pool is as small as the property allows; the board has
four contexts for three attempts.

*Deadlock* is not checked in `encoding`, where a behaviour draws one input, and in
the system, board, probe and command line runs, where everything ends: clients exit,
`main` returns.

*Fairness.* Weak fairness of delivery (the link and the server thread go on while
datagrams are pending), of each started client's own steps (it is a sequential
program that blocks only in recv()), and of its timeout when nothing is in
flight (`SO_RCVTIMEO`). Starting a client, and every fault, has no fairness.
Bring-up: weak fairness of `main`, of the message thread and of the CoAP thread,
each of which the kernel runs when it is ready; none of the cable, the host or
resets. `BootServes` therefore promises nothing unless the cable stays in and no
call but `psa_crypto_init` failed since the last power-on. Probes and command line:
weak fairness of the sequential program, whose every wait has a timeout, and of the
DTLS session timeout.

## Proofs

Every invariant, action property and refinement that a passing run checks is also a
theorem, for every value of the constants that the named assumptions of the modules
allow: any number of client runs, requests, responder keys, faults, cable events,
message ids, attempts, contexts, samples. Each specification has one inductive
invariant, and each proof one lemma per action or handler. What is proved, and along
which argument:

**The device** (`EdhocOscoreProofs`, over `DeviceSpec`, invariant `DeviceInv`):
`NoKeyLeak`, `InstalledOnce`, `DispatchedOnce`, `ContextSound`, `HandshakeAlone`,
`PendingKeysFresh`, `WindowSound`, `ResponsesReadable`, `DeviceTyped` and the action
property `SessionsNeverSwap`. None of the properties is inductive alone. A request
runs at most once because the window of the usable session refuses what ran under it
(`WindowCovers`); the window starts empty, which is sound only if nothing ran under
the keys it is created for; that follows from `FreshKeys`: a pending handshake has
the newest responder key, no session was made from it, and nothing runs under a
session never installed. Installation happens only from a pending handshake, which
every message_3 closes and which never coexists with a usable session.

**Device and clients on the link** (`HandshakeSystemProofs`, over `SystemSpec`,
invariant `SystemInv`): `ClientsAgree`, `AnswersExecuted`, `FlightIsSound`,
`SystemTyped`. `Agreement` speaks of the end of an exchange of four datagrams, so
its proof needs what each datagram in flight shows (`FlightSound`): a message_3 is
the one for the only message_2 its sender accepted, a message_4 exists only for a
session that was installed, an answer only to a request that ran. With `DeviceInv`,
which says that the device installs a session once, and `ClientSound`, which says
what an execution knows at each blocking call, these are closed under every step of
either program and of the link. `AnswersExecuted` says of a request that ended with its
own response that it ran exactly once; of a request that a late response ended it says
nothing, only that the request which that response answers ran (the run `own_response`
shows the difference). Two refinements rest on the invariant:

- `SystemImplements`: `SystemSpec` implements `SecureSession` under the mapping
  `DevSession`, `HostSession`, `AnsweredBy`. Every step of the system is one step of
  the abstract session or none.
- `SystemImplementsDevice`: `SystemSpec` implements `DeviceSpec`; the environment of
  the device, which sends anything, includes the clients on their link. Every theorem
  about the device therefore holds in the system.

**Bring-up** (`BootProofs`, over `BootSpec`, invariant `BootInv`):
`SocketAfterCredentials`, `UsbNeverLags`, `BootTyped`. `UsbFollowsVbus` holds for
queues of every length because only the *last* cable report in the queue matters: a
change of the cable appends the new last one, and `usbd_msg_cb` takes the first.
`BringUpOrder` says what each call of `main` can rely on (the callback is registered
and the queue empty before `usbd_init`, the first credential before the second).

**The probes** (`ProbeProofs`, invariant `ProbeInv`): `OwnResponseWithinCall`,
`EveryRequestCounted` and `ProbeTyped`. The id of every datagram of the running call lies as far behind the
current id, modulo the id space, as its request lies behind the current one
(`IdsInStep`); with no more requests than ids, equal ids mean equal requests.

**The command line** (`CoapCliProofs`, invariant `CliInv`): `RetryHasRoom`,
`CliTyped`. An execution in its k-th attempt has left at most k - 1 contexts.

**The resources** (`CoapServerProofs`, invariant `ServerInv`): `LedReported`,
`RoutesAlwaysAgree`, `ServerTyped`, for any set of payloads. `LedReported` assumes
`LedReady`; without it the property is false, which is the run `led_not_ready`.

**The pure functions** (`EncodingProofs`): `UnframeExact` (payloads of every length),
`KidExact`, `CidRoundTrip`, `SessionFreed` (every call of the hash hook),
`NearestSample` and `Ordered` (every number of samples), and from them the six
invariants of the run `encoding`. The number of samples enters `NearestSample`
through two roundings that stay within half a step of the percentile's position.

Assumptions: those named next to the constants of each module, all evaluated by TLC
in the runs. Bounds and counts are natural numbers, with at least one attempt, one
message id and a window of at least one; PIVs are natural numbers, kids are bytes and
the client's kid is among those the environment uses; `NoSession` is no session; the
script's requests are requests of the resources and each has a PIV; the command line
has finitely many executions. No assumption speaks of states.

Only model-checked: liveness (`EveryRunEnds`, `NeverWedged`, `BootServes`,
`ProbeEnds`, `PoolDrains`), which needs fairness and ENABLED and is out of this
prover's reach, and the counterexamples of the five runs that show a disagreement.

## Not modelled

- A late response across two calls of `measure`: each call draws a new random id on
  the same socket, so a response that outlived a timeout may, with luck, have the id
  of a request of the next call. The model contains it; `OwnWithinCall` is stated for
  one call.
- Cryptography: symbolic; a failure is a failing stage, or a failing driver call.
- Buffer sizes of responses: every response is far below its buffer; a failing
  `coap_packet_*` call is a failing stage (`send`).
- Means and standard deviations, printing, argument parsing. A negative `--count`
  ends the client in `reserve()` before it sends anything.
- Key generation and the files `edhoc_keys.py` writes: random bytes and output. What
  both ends must agree on, the kid encoding, is in `Encoding`.
- Order of protected requests: OSCORE's window promises freshness, and two PUTs that
  overtake each other both run. Nothing in the repository promises more.
- `parse_response` and the plaintext transport of `coap_cli.py`: they keep no state.
- Zephyr's own limits below the code's: the number of USB messages it can queue, packet
  buffers, thread priorities.
- Kconfig, CMake and devicetree input; limits appear as constants. The headers under
  `include/` and `host_client/edhoc_config.h` hold declarations and such limits.

## Plan

The model is complete as far as the code carries state, and the safety properties of
the passing runs are proved. What may be added:

1. Consequences of the refinements stated for the composed specification, such as
   the device's properties over `SystemSpec`.
2. Properties of `SecureSession` itself, which `SystemImplements` then carries over
   to the two programs.
