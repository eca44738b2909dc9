# Verification of peck

peck lets a browser reach an HTTP service behind a home connection: a *daemon*
(`daemon/daemon.py`, Python, asyncio) and a *client* (`browser/`, JavaScript) find each
other through Nostr relays, exchange encrypted direct messages, set up a WebRTC
connection, and multiplex HTTP requests over its data channel. This directory holds
TLA+ specifications of the parts where order, interleaving and failure matter, TLC
configurations that check them on small instances, and theorems checked by TLAPS.

Paths below are relative to `src/`.

## 1. The system

| Component | State it keeps | Operations | Talks to |
|---|---|---|---|
| PeerSession life cycle (`daemon/daemon.py:101-741`) | `state`, two timers, peer connection, channel, `streams` | `setup`, `create_offer`, `receive_answer`, `_touch`, `close` | the registry (dispose callback), aiortc, relays |
| Registry, PeckDaemon (`daemon/daemon.py:744-1213`) | `peers`, `_seen_event_ids`, `bridges`, `pending_requests`, `_gather_lock` | `handle_dm`, `handle_announce`, `handle_terms_accept`, `handle_signal`, `_on_session_dispose` | sessions, policy, rate limiter, relays |
| Rate limiter (`daemon/rate_limiter.py`) | announce times per key and global, session counters | `check_announce`, `check_session`, `on_session_open/close` | called by the registry |
| Policy (`daemon/policy.py`) | ordered rules, default effect | `decide`, `reload` | called by `handle_announce` and by the ICE second filter |
| Stream proxy, daemon side (`daemon/daemon.py:506-674`) | `streams` of a session | OPEN, DATA, CLOSE, RST frames, one task per request | data channel, backend HTTP |
| Stream multiplexer, client side (`browser/src/protocol.js`, `client.js:646`) | `_nextStreamId`, `_streams`, per-request timer | `request`, `handleFrame` | data channel |
| Framing and HTTP codec (`protocol.js`, `client.js:222-344`, `daemon/protocol.py`) | none | encode and decode frames, requests, responses | both ends of the channel |
| Client connect (`browser/src/client.js:508`, `native-transport.js`) | `settled`, connect timer, sockets, peer connection | `connect`, offer, terms challenge, deny, request-ip, `close` | relays, daemon |
| Client page (`browser/client.html`) | reconnect counter, tunnel, mode, known addresses | `startConnection`, `handleDisconnect`, `attemptReconnect`, `handleDeny` | client library |
| Service worker (`browser/sw.js`) | `tunnelPort`, `pendingRequests` | REGISTER, UNREGISTER, fetch, tunnel replies, cookie filter | page |
| Relay subscriptions (`daemon/daemon.py:1215-1356`) | sockets, `last_msg_at`, `_seen_event_ids` | listen, keepalive, reconnect | Nostr relays |
| Relay bridge (`daemon/daemon.py:1015-1138`) | `bridges`, `pending_requests`, `relay_partner` | relay-request, timeout, bridge, teardown | sessions |
| Port routing (`daemon/ports.py`, `client.html:1930-2000`) | the ports map, `currentPort` of the page | `parse_path_prefix`, `_resolve_port_and_path`, `navigate`, redirects | stream proxy |
| Encrypted messages and identifiers (`nip44*.{py,js}`, `client.js:60-200`) | none | encrypt, decrypt, encode, decode | signaling |
| Diagnostics and countries (`client.js:366-475`, `wg-country-codes.js`) | what is shown; a table loaded once | `parseStats`, `lookup` | page |
| Check sums (`browser/src/ip-checksum.js`) | none | IP, TCP, UDP check sums | test tunnel |

### What is hard

The daemon is one event loop, so code between two `await`s is atomic; but nearly every
handler awaits a socket in the middle, and then any other task runs. In particular

* an announce of a client that has a session *replaces* it: the old session's `close()`
  is only scheduled, so both are alive for a while and both are driven by tasks, timers
  and connection events that started earlier;
* `close()` is called by six different tasks, awaits the peer connection for up to two
  seconds, and *cancels the timers*, the calling one included, so the call of a timer
  never gets past its own first await;
* the terms timer remembers a key and not a session, and the rate limiter counts
  sessions in a counter that three places have to keep in step;
* ICE gathering reads a module-global of a library that each session patches;
* messages come through several relays: offers are lost, answers arrive late and belong
  to an offer of an earlier session.

What makes it correct: one active session per client, no session without something
that will end it, no leaked session outside the registry, no offer before the terms
were accepted, addresses of the right tunnel only, a session counter that means
something, and that everything that was begun is finished.

`PROJECT.json` lists every such hazard under `hazards`, at its line, with the
properties that cover it.

## 2. Modules

### PeckSessions

The registry and the session life cycle in serve mode. An element of `Sessions` is an
announce that got past `check_announce`: it stands for the task `handle_announce`, for
the `PeerSession` the task creates and for the task of `handle_terms_accept` that may
take the session over. Exactly one of them drives a session at any time, and `job[s]`
says where it is suspended:

    idle -> [challenge -> gate ->] setup -> lock -> gather -> signal -> done
                                              \-------\-> failed

| Variable | Code |
|---|---|
| `peers`, `openCount` | `PeckDaemon.peers`, `RateLimiter._global_session_count` |
| `state`, `pc`, `note` | `PeerSession.state`, `pc.connectionState`, an `on_state` task that was scheduled and has not run |
| `terms`, `awaiting`, `termsTimer` | `terms_version_expected`, `awaiting_terms`, a sleeping `_terms_timeout` |
| `connectTimer`, `idleTimer` | the sleeping timer tasks of a session |
| `doomed`, `closers` | `close()` tasks that a replacement scheduled; calls of `close()` suspended in `pc.close()` |
| `lock`, `hostAddrs`, `cands` | `_gather_lock`, `aioice.ice.get_host_addresses`, the addresses in a session's candidates |
| `offered`, `answered`, `vetting` | offers a relay took, whose offer the applied answer belongs to, `receive_answer` before the ICE filter |
| `heard`, `elders`, `replaced` | history variables, read by properties and by the guard of `OfferSent` only |

Every action is a piece of a coroutine between two awaits, named for it. Points that
need a word:

* **`close()` and timers.** `BeginClose` runs up to the first suspension. Its `callers`
  parameter is the caller, or empty for a timer: `_cancel_timers` cancels the task that
  is running, whose next await (inside `pc.close()`) raises. The state stays `closing`
  until the `on_state("closed")` task, which `pc.close()` provoked, calls `close()` again
  and gets through. `ClosingEnds` says that this suffices; without `"closed"` among the
  states `on_state` handles it would not, which is the mutant of that property.
* **`on_state`** reads the connection state when it runs and not when it was scheduled, so
  `OnConnected` and `OnDisconnected` look at `pc[s]`.
* **Wrong terms version.** `handle_terms_accept` reads `session.terms_text`, which no
  session has, so a wrong version ends the task with an `AttributeError` and nothing is
  sent. In the model the message is only recorded.
* **`OfferSent`** has the guard `elders[s] \cap doomed = {}`: the task has been through
  several network round trips since the session was created, and asyncio starts a
  scheduled task in the next turn of its loop. Without this fact the property
  `OneActivePerClient` would depend on an unbounded delay of a ready task.
* **Late answers.** `Answer(o)` is the answer to the offer of `o`, applied to the session
  that is registered now, whichever that is.
* **`setup`** is always modelled with its awaits (the IPv6 STUN lookup), which a daemon
  without IPv6 tunnels does not have: more interleavings, none fewer.

Left out: relay mode, the frames themselves (an inbound frame is `Touch`), trickled
candidates (they change nothing here), announces that are refused, the per-key session
counter (it is maintained and never refuses anything), shutdown.

### SessionSlots

The abstract specification: what the daemon promises one client key. A slot is `free`,
`gated` (waits for terms), `pending`, `up` or `ending`. `PeckSessions!ImplementsSlots`
is the refinement, with `SlotOf` reading the registry. It shows that no task or timer of
an earlier session of a client ever moves the slot in a way the document does not allow,
for instance that nothing but an accept leads from `gated` to `pending`.

### StreamMux

The requests of one tunnel: `StreamManager` and `request()` of the browser library, the data
channel, `_handle_frame` and `_proxy_request` of the daemon. An element of `Requests` is a call
of `request()`, and stands for its promise, its timer and the task that serves it.

| Variable | Code |
|---|---|
| `nextId`, `streams`, `closed` | `_nextStreamId`, `_streams` (the handlers under an id are those of one request), `closed` of the tunnel |
| `status`, `idOf`, `chunks` | the promise, `streamId` and `responseChunks` of a request |
| `channel`, `toDaemon`, `toClient` | the data channel and the frames in flight, in order |
| `dstreams`, `task` | `PeerSession.streams`; the `_proxy_request` task of a request |
| `clean` | history: no id was given out that some earlier request still used |

* **Settling.** `SettleRequest` is the callback (`onClose` or the timer), the removal from the
  map, and the `finally` block of `request()`, which runs before the browser handles another
  frame and always sends `CLOSE`.
* **The request in the frames.** A frame names the request it belongs to, which the code
  cannot see: the code finds the receiver by the stream id, the properties ask whether it found
  the right one.
* **Silent loss.** `Sent` drops frames unless the channel is open. `connect()` returns when
  the peer connection is up, so a request may come before the channel opens (`channel =
  "opening"`); a lost or closed channel leaves the requests to their timers. `Oversize` are
  requests whose DATA frame exceeds what the channel takes, so only OPEN is sent.
* **Tasks outlive streams.** CLOSE removes the daemon's entry and nothing else: the task goes on,
  answers, and removes the entry of its id once more (`TaskEnds` is a step of its own because
  leaving aiohttp's context manager may suspend).
* **Fresh ids.** Ids wrap without a look at what is in use. `OwnResponse`, `StreamsArePending`
  and `NeverReset` hold as long as every id was free when it was given out, counting the browser,
  the wire and the daemon's tasks (`InUse`), so also after a wrap. `StreamsHaveOwner` and
  `DaemonStreamsDrain` do not need that.

Left out: ports (both ends echo them; the index of `StreamManager` by port is never read), the text
of requests and responses, a request that does not parse (the library does not produce one), the
choice of the backend, relay mode.

### TunnelRequests

The abstract specification of `request()`: every request is settled once, by its own response
or by an error, and none waits for ever. It promises the right response while it is `exact`, which
`StreamMux` maps to `clean`.

### ClientConnect

One call of `connect()` with its relays, its signals and the peer connection.

| Variable | Code |
|---|---|
| `promise`, `settled`, `timer`, `modal` | the promise of `connect()`, its flag, `connectTimer`, the terms dialog of the page |
| `closed`, `told` | `close()` of the tunnel; how often `onDisconnect` of the page was called |
| `relay`, `stage` | the sockets, and where `_openRelays` and the announce are suspended |
| `announces`, `asked`, `admitted`, `denied` | what is on its way to and from the daemon |
| `handler`, `made` | each call of `_handleSignal` with an offer, suspended at each of its awaits, and what its answer was made for |
| `pc`, `signaling`, `remote`, `local`, `answers` | the `RTCPeerConnection`, and the answers that were sent |

Several offers arrive (the same one through two relays, or offers of two sessions), and each
handler goes on after its await with whatever description the connection has by then. The flag
`settled` is not set by the timer, as in the code, so a connection that comes up after the timeout
still calls the page; `LossIsTold` says what the page can rely on regardless. `RTCPeerConnection` is
external: an operation that its signaling state does not allow rejects.

### ClientPage

Which tunnel the page keeps. An attempt is a call of `connect()` (ClientConnect) with the tunnel it
returns; an attempt that the page has forgotten goes on and calls the page. `timers` and `probes`
count the `setTimeout`s and the address probes that were started and never cancelled, since the code
keeps no handle of them; `count` is `reconnectAttempts`. `denied` says that the daemon has denied some attempt
since the user last pressed the button, a history variable read by properties only.

`handleTermsChallenge` runs for every copy of a challenge and for every attempt whose sockets are open, the ones
that have failed or are up included, and writes the status each time. `dialogs` counts the open dialogs of an attempt; the
first one stops the timer of `connect()`, which is then `"paused"`, and accepting starts it again (`Accepted`). Accepting
for an attempt that is not pending any more shows "connecting" although nothing need be under way: the status is then
`"late"`, a value of its own, which the page cannot tell from "connecting". `NotStranded` makes no claim about `"late"`;
that is the one way in which the code strands the user, and no document says that it does not.

### ServiceWorker

`tunnelPort` with its owner, the pending fetches and their timers, and the pages with their messages
in order. `BodyRead` is a step of its own: the worker checks `tunnelPort` before it awaits the body
and uses it after. A reply that arrives (`Hear`) cancels the timer and then throws, as `resolve` is not
in its scope; the fetch is then `abandoned` and never settles. A page may disappear without a word
(`Crash`). That browsers stop idle workers is left out.

### Cookies

The header loop of the reply handler and `sanitizeSetCookie`, header by header. It is what the
handler would do after the line where it throws. A cookie is its pair and its attributes as they
stand between semicolons; what a browser makes of them (the last attribute of a name counts) is
`Understood`. An attribute may have white space before its `=` (`gap`): `sw.js:229` does not recognise such a `Domain`, and a browser does.
`Filter` is `Array.filter` as a loop over the attributes.

### RelayBridge

Relay mode. A session is reduced to what the bridge looks at. `doomed` are the sessions whose `close()` a
replacement or a teardown has only scheduled (`create_task`): until it begins (`CloseBegins`) they are active to everybody
else. `check[s]` is the task `_check_bridge` that the creation of `s` scheduled: it begins in a later turn of the loop
(`CheckBegins`), finds a pair, sleeps, links them or goes on to the next pair, and sends two messages. `teardown[s]` is the
task that the end of `s` started; it looks up the partner by public key when it runs. `Activate` waits for the
scheduled tasks of the same client, since a connection takes several messages and a scheduled task one turn of the loop.

### RelayFeed

Events on their way from relays to `handle_dm`: sockets that break or fall silent, the keepalive
round that probes and reconnects, relays that send everything they store on every subscription, and a
daemon that restarts with an empty memory. `others[e]` is history: the ids that were recorded since
that of `e`, which is what "remembered" can mean with a memory of `MaxSeen`. `NothingLost` is the safety
side of `EventsArrive`: what a relay has stored is handled or on its way as long as its socket works.

### Admission

`check_announce` with its sliding windows, a clock, the policy rules with the question for the
address (`request-ip`), and SIGHUP with files that are broken or missing (`BadFiles`). The lists of times are sets of
announces (whose, when, the how manieth at that time), since the code only ever counts them and drops the
old ones. `log` and `last` are history. The cap on sessions is in PeckSessions.

### PortRouting

The page, the frame and the daemon together: the prefix in a path, the port in the frame,
`currentPort` of the page, redirects of each form, and a reload of the ports file. Navigations overlap at their
awaits, the run has two, and one that has ended makes room for another. Page and daemon each take one prefix from a path
and judge its number by themselves, so `PrefixDecides` has a case for every kind of path: one prefix, two, one of an
unconfigured port, one followed by a broken one, and a number that is no port. `FetchPort` is the port that a script asks.

### HttpExchange, Nip44, Bech32, Checksums, CountryFlags, Diagnostics

Conversions, each from end to end. What one side writes the other side of the *code* reads, so that
the properties do not depend on a reference of our own where the code has two ends:
`HttpExchange` sends a request and a response through both codecs as tokens, a header line being one
token with its name, spelling and value. The backend's `Content-Length` is any number (`Lengths`), as the daemon's HTTP client
decompresses bodies and forwards the length that was told, and as answers to HEAD and of status 304 have none of that length; the claim
is that one length arrives, the one the backend told or else that of the body. `Nip44` pads byte for
byte, with the two- and six-byte prefixes and the shift of `IntBits` bits, and encrypts symbolically: its
constant `Texts` is any set of texts of 1 to `MaxPlaintextSize` bytes; `Bech32` computes the real check sum (`Bitwise`); `Checksums`
adds the words of a packet and their carries with bytes of any size (4 values in the run), for headers of even
length and segments of any; `CountryFlags` has the binary search step by step, compares it with the definition of
a block, and models the lazy table (its assumption, that the table is sorted, disjoint and aligned to its prefixes,
was checked for all 563706 entries of `browser/src/geoip-data.js` with a script); `Diagnostics` lets the browser check, select and lose pairs in any order while the page polls, the pair in use included, with
candidates of all four types.

### Modules for TLC

`MCSessions`, `MCStreams`, `MCConnect`, `MCPage`, `MCWorker`, `MCBridge`, `MCFeed` define constants of
one component each. `MCParts` runs the small components in one instance: a behaviour
is a behaviour of one of them (`part`), and the slots `v1`, `v2`, ... stand for its variables, substituted
by `INSTANCE ... WITH`. These components share no state. Their assumptions are plain definitions
(`ExchangeAssumption`, ...), assumed by `MCParts` for the values it gives.

Definitions that begin a comment with "Fault:" are variants of the one below them with a
plausible mistake; no specification uses them. With a fault in place of the original, TLC finds the
property violated that `PROJECT.json` names with it.

## 3. Runs

| Run | Instance | What it shows |
|---|---|---|
| `sessions_pair` | one client, two announces, two terms versions or none, faults | no orphan, no session without an end, terms before the offer, the refinement of `SessionSlots` |
| `sessions_two` | two clients, three announces, `MaxSessions = 2`, faults | one active session per client; gather exclusion; the cap holds when no rule has terms |
| `sessions_live` | one client, two announces, with and without terms, faults of the first, fairness | connecting, replaced and closing sessions end; the gather lock is served |
| `streams_live` | three requests over two ids, one request oversized, fairness | who gets which response, whose streams the daemon keeps, that answers are on their way and streams drain; the refinement of `TunnelRequests`, liveness included |
| `connect_live` | two relays, three offers of two sessions, address asked for, fairness | who watches the promise, what the page is told, that `connect()` settles and an offer is answered |
| `page_live` | three attempts, one address, reconnects off or smart, one reconnect in a row, one terms dialog at a time for each of the first two attempts, fairness | what the page shows and holds; that a loss is answered and a denial schedules nothing |
| `worker_live` | two page loads, three ports, fetches with and without a body, fairness | who owns the port; that a fetch nobody answers fails |
| `worker_settles` | violation | a fetch that the page answers never settles |
| `bridge_once` | three clients, alice asks for bob and may reconnect, carol's session searches too, fairness | links are mutual, and none is to a session whose end may be over; the loss of one end ends both as long as neither of the two reconnects |
| `bridge_chain` | violation: alice asks for bob and bob for carol | bob's end leaves alice alone |
| `feed_arrive` | three events, two relays, a memory of two, one failure, fairness | what is remembered; that every event arrives |
| `parts` | slots, see `MCParts`; two navigations; fairness of the table of countries | HTTP, cookies, encrypted messages, identifiers and check sums arrive as they were sent; limits and policy, ports, the shown path, the shown countries |

**Bounds.** *Sessions* bound the number of admitted announces, `Faulty` which of them may see a
failed connection or a rejected answer. Two announces of one client show every pair of old and new
session; the second client adds competition for the lock and the limit; what holds for more is in the
proofs. `Versions` has two elements where a wrong version matters. *Requests* bound the calls of
`request()` and with them the queues. `MaxStreamId` is 65535 in the code; with three requests and two
ids the third allocation wraps, onto an id that is free or still in use at the browser, on the wire
or in a task. Three offers are a repeated one and a competing one. Three *attempts* with
`MaxReconnect = 1` are a start, a reconnect and a restart that meets the remains of both. `Attempts`
being finite, `LossIsAnswered` excuses the case that none is left. A dialog may open again once it was
answered, for an attempt that has failed or is up by then, which is what a late copy of a challenge does; the theorem
`NotStrandedHolds` is about any number of open dialogs. In `bridge_once` one request is made again and again, and every
session starts a search of its own. *Events* are one more than the
memory, so pruning happens; `MaxTroubles` counts failures of sockets, relays and the daemon. In
`parts`, a byte has 4 values (16 in Nip44) so that words and long prefixes come within reach; lengths
are those at the borders of chunks and powers of two. The clock of Admission stops at `MaxNow = 4` with
windows of 2, and `MaxLog` bounds the announces within a window that has no limit; `MaxRedirects` is 1 (5 in the code), so that
the cut is reached, and two navigations give every overlap of two, with more of them one after the other.

**Deadlock** is not checked: after the last announce, request, attempt or event a system is idle,
which is a state with no successors; conversions are finished after one exchange.

**Fairness.** asyncio runs every ready task and every timer that nobody cancels; every await
outside the repository that a handler of the daemon hangs on has a timeout (5 s for STUN, 5 s for
gathering, 2 s per relay, 2 s for closing a connection); `asyncio.Lock` serves its waiters in order, hence
strong fairness of `AcquireLock` and only there. In the browser timers fire, bodies and promises that
the platform resolves are resolved, and messages between pages and workers arrive. Nothing is
assumed of clients, users, backends, relays that hang, pages that answer, or of the idle timer, which
traffic can postpone for ever. `RelayFeed` assumes that a relay comes back some day and then sends
what it has: without that nothing arrives. For `StreamMux`, fairness asks that the timer of a request
fires and that an open channel delivers what the browser sent; neither the backend nor the daemon's
answer has to come.

### Disagreements met on the way

Two have a run of their own, which is named. The others are stated as formulas in
the module that models the code. They are not among the properties of a run; TLC finds each violated when it is
added to the run of its module (for the modules of `MCParts` as `part = ... => ...`, through their instance there), in some cases
with other constants, which are then named.

* **Answered fetches** (`ServiceWorker!FetchSettles`, run `worker_settles`). The handler of a reply calls `resolve` and `reject` where
  they are not in scope, after it cancelled the timer (`sw.js:143`).

* **Session counter** (`PeckSessions!CounterSettles`). `daemon/daemon.py:840` says the old session's close
  decrements and the "Net effect: count stays the same". The dispose callback finds the live successor
  in the registry and does not decrement (`:826`), so each replacement leaves the counter one too high. What the
  counter does count is the theorem `CounterCorrect`.
* **Session limit** (`RegisteredWithinCap`, in `sessions_two` with `Admissions = {v1}` and `MaxSessions = 1`). `:1421` promises a global limit; under a terms rule `check_session`
  comes before the await that sends the challenge and `on_session_open` after it (`:914`). Without terms the limit
  holds (`LiveWithinCap`).
* **Terms timer** (`DiscardedByOwnTimer`). The timer acts on the session registered when it wakes (`:968`), which
  may have been challenged a second ago; `docs/ACCESS_CONTROL.md:204` gives each thirty seconds.
* **Stream ids** (`StreamMux!IdsArePairs`). `docs/PROTOCOL.md:298` calls the id unique for a request and its
  response. It is given out again after a wrap whether or not it is in use (`browser/src/protocol.js:91`): the newer
  request takes over the handlers of the older one and may be given its response.
* **Errors** (`ErrorsAreResets`). `docs/PROTOCOL.md:321` says that the daemon answers errors with `RST`; it sends an
  error page and `CLOSE` (`daemon/daemon.py:600`). `RST` is only sent for a stream the daemon does not know.
* **Denials** (`ClientConnect!DenyRejects`). `browser/src/client.js:538` says that a deny rejects the promise; the handler
  calls the page and leaves the promise to its timer.
* **Relay redundancy** (`OneRelaySuffices`, with `DeadRelays = {r2}`). `README.md:61`; but a socket that hangs keeps the
  announce from the relays that are open (`native-transport.js:303` awaits all).
* **Address** (`PolicyIsReached`). `docs/ACCESS_CONTROL.md:241` has the browser announce again with its address and the
  policy checked then; a client whose address does not resolve announces without it, and is asked again
  (`native-transport.js:487`).
* **Starting again** (`ClientPage!StartAbortsOthers`). `client.html:2643` aborts "any in-flight connection"; it closes
  what is in `tunnel`, which is null while `connect()` is in flight.
* **Denied reconnects** (`DenyStops`). `docs/ACCESS_CONTROL.md:225`: "Client stops reconnecting". A reconnect whose timer
  runs begins all the same (`client.html:2405`); `NoneScheduledAfterDeny` is what holds.
* **Needless reconnects** (`RetriesOnlyAfterDrop`). `docs/PROTOCOL.md:341`; `attemptReconnect` does not look whether the
  page has a tunnel by now (`client.html:2544`).
* **Smart reconnects** (`SmartKeepsAddress`, with `Addresses = {"home", "away"}`). `docs/ACCESS_CONTROL.md:300`: only if the address is unchanged. It is
  compared when the connection drops; the attempt comes seconds later, and retries compare nothing (`client.html:2609`).
* **Answers of the page** (`ServiceWorker!AnswerIsRelayed`). `swPort` is shadowed by a port number inside the `try`
  block (`client.html:1846`), so posting a response throws, and the error is what is posted; `sw.js:6`.
* **Cookie domains** (`Cookies!OwnHostAlone`). `sw.js:197` promises that the `Domain` is stripped; an attribute with
  white space before its `=` is not recognised (`:229`), and browsers take it.
* **Cookies passed "unchanged"** (`Cookies!PassedUnchanged`). `sw.js:198`; a `Domain` without a value is stripped and
  reported as passed (`sw.js:240`).
* **Duplicate headers** (`HttpExchange!DuplicatesSurvive`). `daemon/protocol.py:119` keeps several `Set-Cookie` apart;
  `parseHttpResponse` has one value for each name (`client.js:323`).
* **Padding** (`Nip44!MirrorsDaemon`). `nip44-browser.js:164` mirrors the daemon "exactly"; `1 << k` has 32 bits, so beyond
  2^30 bytes they differ. No message of this program comes near; `IntBits = 9` brings
  the difference within reach of the run.
* **Addresses shown** (`Diagnostics!NeverLan`). `client.js:366`: "never LAN IP"; whatever candidate the pair has is shown (`:443`).
* **Pair shown** (`SelectedPairShown`). `client.html:2711` marks "the currently selected pair"; in a browser without
  the `selected` flag it is the first one that succeeded (`client.js:392`).
* **Bytes shown** (`BytesOfTransport`). `client.js:424` takes them from the transport; the last entry of the report
  wins, which may be a pair (`:426`).
* **Redirects of overlapping navigations** (`PortRouting!PortSurvivesRedirect`). `client.html:1974`; `currentPort`
  is read after the await (`:1991`). What holds is `RedirectKeepsPort`.
* **Scripts during a navigation** (`FetchStaysOnPage`). `client.html:1847`; `currentPort` is set when a navigation begins
  (`:1961`), so scripts of the old page ask the new page's port.
* **Unknown ports** (`UnknownPortIsNotFound`). `daemon/daemon.py:631` promises 404; the page puts the port into the frame,
  where an unknown one means the default (`:570`).
* **The default port** (`DefaultWithoutPrefix`). `daemon/ports.py:10`; the page sends port 80 with every path without a
  prefix, which wins if 80 is configured (`daemon/daemon.py:567`).
* **Bridges that form** (`RelayBridge!BridgeForms`). `daemon/daemon.py:1060`: "bridge should form soon"; it is tried only
  when a session is created (`:868`), and the new session is still connecting then.
* **Bridges are mutual** (`BridgesAreMutual`, with requests `<<alice, bob>>` and
  `<<bob, carol>>` and a fourth client whose session starts the search). `:783`; a later request overwrites one direction (`:1099`).
* **The end of a bridge** (`OtherIsEnding`, run `bridge_chain`). `:1117` closes the other side when one is lost. A later
  bridge of the same client overwrites whom it is bridged to (`:1099`), so that its end reaches only the later partner; and the late end of a
  replaced session is taken for the end of its successor (`:819`), for which one request is enough: the formula fails in `bridge_once`, too. `LossEndsBoth` is what holds: requests come in pairs and neither of the
  two has reconnected.
* **Handled once** (`RelayFeed!HandledOnce`). `docs/PROTOCOL.md:355`; the filter has no `since`, so after every reconnect an
  event that is no longer remembered is handled again (`:1170`), for instance an old announce. `RecentIsRemembered` is what holds.
* **Reloading the policy** (`Admission!ErrorKeepsPolicy`). `daemon/policy.py:361`: "On
  error, keep the old policy"; a missing file puts "allow all" in force (`:345`).
* **The frame of a request.** `docs/PROTOCOL.md:307` and `:314` put the request into the OPEN frame; the client sends an empty OPEN and
  the request in DATA, which is what the daemon reads and what `StreamMux` models. No property is about the words of the document.
* **Reloading the limits** (`ReloadTakesAll`). SIGHUP reloads rules and ports, not the limits of the same file
  (`daemon/daemon.py:1685`).
* **Pruning** (`StaleIsForgotten`). `cleanup` is called by nothing (`daemon/rate_limiter.py:116`), so every key that ever
  announced is kept.

## 4. Proofs

`PeckSessionsProofs` proves, for any finite set of clients, any sessions, owners, terms
versions, policy answers and limit (assumptions `SessionsAssumption`, `TermsAssumption`,
`CapAssumption`), that every behaviour of `Spec` satisfies the properties listed under
`theorems` in `PROJECT.json`.

The argument has one inductive invariant, `TypeOK /\ IInv`. The properties are not
inductive by themselves:

* `OneActivePerClient` follows from *history*: sessions of one client are born one after
  the other (`EldersInv`), an active session has offered (`PcInv`, `JobInv`: it is connected
  by the answer to its own offer), the scheduled close of every elder had started by then,
  and a session whose close has started is never active again.
* `EverySessionHasAnEnd` and `OrphansAreBeingClosed` need `JobInv` and `PcInv` to know that
  the `on_state` handler is attached and that a closing session has a closed connection.
* `GathersOwnAddresses` needs that a session past the gather section holds candidates of its
  own (`GatherInv`).
* `TermsBeforeOffer` needs that a session that waits for terms has no connection (`JobInv`).
* `CounterCountsReplaced` needs that a replaced session has lost its entry (`ReplacedInv`), and
  the cardinality of the registry after one entry changes.

`close()` has many callers, so its effect is stated once (`ClosedEffect`, `BeginCloseEffect`,
`CloseStepShape`), and the step lemma of each conjunct treats "some close step" and "a timer
passes" as two cases besides the actions that do not close.

`LiveWithinCap` has its own invariant (`CapInv`): without terms the check and the count are one
step, so the counter never exceeds the limit, and the registry never exceeds the counter by
`CounterInv`.

The same module proves from the same invariant that a registry entry changes only as
`RegistryStep` allows and that `Spec` implements `SessionSlots`. A slot moves only by a step of the
session the registry holds (`OthersStay`), and each action that moves it is one move of
the abstract specification (`CreateMoves`, `AcceptMoves`, `ConnectedMoves`, `CloseMoves`,
`FinishMoves`).

`ClientConnectProofs` proves `PendingIsWatched` and `LossIsTold` for any relays and offers. The
strengthening is what the promise and its flag know of each other (`PromiseInv`): the flag follows the
promise except after a timeout, and that is where both properties could break. `TypeOK` needs
`HandlersCarry`: an offer handler that goes on after an await has a description to go on with.

`ClientPageProofs` proves `ReadyIsUp` and `NotStranded` for any number of attempts, addresses and
reconnects. The strengthening is that the page never holds an attempt that has not returned
(`TunnelReturned`). That accepted terms strand nobody who waits is `AcceptedEffect`: accepting for a pending attempt starts its
timer, and everything else is shown as `"late"`, which `NotStranded` excepts. Its `TypeOK` bounds the count of reconnects by `max_attempts`. `NoneScheduledAfterDeny`
follows because a denial spends the count, and scheduling with a spent count sets no timer.

`StreamMuxProofs` is about any requests, any largest stream id and any set of requests too big for
the channel. It has two layers:

* `BasicInv` holds whether or not an id is given out while it is still in use: types, an empty channel
  before it opens and after it closes, ids that frames, handlers and tasks agree on (`IdsKnown`), and an owner
  behind every OPEN on the way (`OpensHaveOwner`). `TypeOK` and `StreamsHaveOwner` follow.
* `CleanInv` holds as long as ids were fresh (`clean`). Its centre is `IdsTell`: no two requests with
  something underway share an id. From it a frame reaches only the handler of its own request (`Held`,
  `ReceiverFacts`), a request on the way finds its stream although tasks and CLOSEs of others remove streams
  (`DataFindsStream`), a response is sent once and received at most once (`OneResponse`), and the
  end of a stream whose task is over is on the way (`EndUnderway`). `OwnResponse`, `AnswersUnderway`,
  `StreamsArePending` and `NeverReset` follow.

From both, `TunnelStepsCorrect` shows that each step is a step of `TunnelRequests` or none: the safety
part of `ImplementsTunnel`.

`ServiceWorkerProofs` proves `Inv` and `PortTakenBackByOwner` for any pages, ports and requests. What the
worker knows of its port comes from messages that may be old when they are read, so the strengthening is about
those under way (`MailTrue`): a page registers only ports it has made, and an `UNREGISTER` is only sent by a
page that unloads for good.

`RelayFeedProofs` proves `MemoryHolds` for any relays, events, failures and limits. That pruning forgets nothing
recent is a fact about the whole list: behind an id stand only ids recorded after it (`BehindIsLater`), and
an id is dropped only when `KeepSeen` different ones stand behind it (`ForgottenIsOld`, with the pigeonhole
principle). `NothingLost` needs that only handled ids are remembered (`SeenHandled`): a copy that is dropped as
seen has been handled before.

`RelayBridgeProofs` proves `TypeOK` and `LinksRegistered` for any clients, sessions and requests. `_check_bridge`
reads the registry, sleeps, and then looks only at the states of the two sessions; that is enough because a
session that connects or is active is the registered one of its client or has its `close()` scheduled, which replacement keeps true
by scheduling it in the same step (`LiveRegistered`; `SuccessorWaits` says that it runs before the successor is active). A session of the second kind can be linked, in the turn in which its replacement comes;
the claim is then that its close, and with it a teardown, is still ahead. `BridgeInv` (both directions agree) has the hypothesis `InPairs`:
every client is requested together with one other client at most. Without it the property is false, as
a third client takes over a peer that is already bridged (see *Bridges are mutual*). With it, partners are always the two
clients of one request, and a reconnected client is only linked by entering both directions. It is about sessions that stay, those without
a scheduled `close()`: only for them is the registered session of the other client the one that was linked.

`PartsProofs` has the parts that share no state, each through its own `INSTANCE`.

* *Routing.* `PrefixDecidesHolds` for any paths, prefixes, ports files and reloads: a path that
  is built from a prefix and a rest is parsed into the same two (`BuiltIsRead`), and the port in the frame of a
  navigation is the one that the page parsed (`SentAsParsed`); paths with two prefixes, broken ones and unconfigured ports are
  cases of the statement. `RedirectKeepsPortHolds` for any number of overlapping navigations: a redirect is followed on the port
  that answered unless another navigation has taken the page elsewhere, in which case it need not be (see *Redirects of overlapping navigations*).
* *Diagnostics.* `FlaggedIsShownHolds` and `NatIsTrueHolds` for any candidates, of all four types, and any order of the
  report. The first pair of a kind exists because sets of numbers have a least element (`LeastNumber`).
* *Policy.* `HidingGainsNothingHolds` for any rules, however they are reloaded and whatever becomes of the file. That a reload keeps the rules is
  not proved, as it is not so (see *Reloading the policy*).
* *Limits.* `LimitsHold` for any clients, limits and windows. The centre of the invariant is `Counted`: what
  the limiter keeps of a window is what passed in that window, for each client and for all. That is why it lets
  no announce pass too many, and refuses none for announces that were refused or are old.
* *NIP-44.* `TextIsReadHolds`: for every text, whatever its length, who has the conversation key reads exactly
  the bytes that were sent, everybody else gets an error, and padding adds less than a quarter. Its lemmas say
  that the prefixes are read back as written, for any base (`Uint16Facts`, `Uint32Facts`), and that a padded
  length is a multiple of its chunk that is no shorter than the text. `MessagesAreReadHolds`: for texts up to
  `2^(IntBits-2)` bytes (a gigabyte, with 32 bits) all of that, and the browser pads as the daemon does, and longer
  texts are not padded to less; beyond it the two differ (see *Padding*). Of powers of two the provers know nothing
  but that `2^n` is the number of subsets of a set of `n` elements; that they double, grow and exceed their
  exponent is proved from it.
* *Countries.* `ShownIsTrueHolds`, `LoadedOnceHolds` and `NoGapIsLeftHolds` for any table that is sorted, disjoint
  and aligned. The binary search calls itself on the rest of an interval, so its value is shown to exist and to be
  the last entry at or below the address, by induction on the length of the interval; that comparing two masked
  addresses decides whether one lies in the block of the other is arithmetic with powers of two. The invariant
  says of a list that what it shows is true and that gaps are there only while the scheduled render is
  waiting or after the load has failed.
* *HTTP.* `HttpArrivesHolds` for any callers, backends, headers and bodies, with bodies that begin with an empty
  line or hold several. Its centre is that the first empty line of a composed message is the one behind its headers,
  as a header line and a line break alternate before it; the headers read between are then those that were
  written, and a frame gives back id and port (digits of a base). For the response the strengthening says what
  the wire holds after `Reply`: the sanitized headers, one length (the backend's or else that of the body), and the body.
* *Check sums.* `PacketsAreCheckedHolds` for packets of any length, words of any size and any pseudo header. Folding
  the carries keeps a sum modulo `Byte^2 - 1` and ends within 16 bits (`Carried`, by induction on the sum), so the
  complement that is written makes the total a multiple of it; a byte that changes moves the total by less than
  `Byte^2 - 1` and never by 0, in a high or a low place, also in the odd last word.
* *Cookies.* `CookiesKeepMeaningHolds` for any attributes in any order and spelling, with and without a gap before the `=`. What a browser understands is the last
  attribute of each name, and filtering keeps the last one of every kind that it keeps at all (`FilterFacts`); of
  what is left none is a domain, so it passes again as it is. The invariant says how far the two loops have got.

Four of these rest on recursive functions (`Filter`, `Sanitize`, `Sum`, `Carried`), about which the provers know nothing. `UpTo`
is induction over an interval of numbers as a statement about a set, and `PrefixRecursion` says that a loop over the
prefixes of a sequence has values; each function is then shown to be such a loop.

The theorems of `PartsProofs` are about each component by its own specification. `GateHolds`, `PathIsTrue`,
`HttpArrives`, `CookiesKeepMeaning`, `MessagesAreRead` and `PacketsAreChecked` are stated in the component's module, proved there
for all constants, and checked by `MCParts` for the instances that it puts side by side. (`GateHolds` and
`PathIsTrue` are written out again in `MCParts`, since TLC has no implication between a state and a temporal
formula.) `PortsHold` is proved as the two theorems on routing; `CountriesHold` joins proved safety properties with liveness, which is not proved.

Only model-checked: liveness everywhere, the fairness part of `ImplementsTunnel` included, and ENABLED; `KeysAreRead`, as
`Bech32` computes with `Bitwise`, which no module with theorems may reach and whose exclusive or is recursive;
and the suite `MCParts` itself. The liveness properties are `ConnectingEnds`, `ReplacedEnds`, `GatherServed`,
`DaemonStreamsDrain`, `ConnectSettles`, `OfferIsAnswered`, `LossIsAnswered`, `SettledUnlessAnswered`, `LossEndsBoth`,
`EventsArrive` and the last part of `CountriesHold`.

## 5. Not modelled

* WireGuard address selection (`daemon/wg_manager.py`), the daemon's command line and the command line
  client: input and output without a state of their own.
* Curves, HKDF, ChaCha20 and HMAC: third-party arithmetic; `Nip44` takes keys as symbols.
* The page's navigation history, rendering, vault and settings; the text of messages, error pages, reason
  phrases and logs; drawing of flags.
* Relay mode of frames (`RelayBridge` models who is linked, not what passes), trickled candidates, the
  shutdown of the daemon, the rotation of relays for outgoing messages.
* How policy rules are parsed and how networks, countries and regions are compared; the audit log.
* `daemon/route_table.py`: a lookup in a dictionary that never changes, which `main` never combines with a
  ports file.
* Browsers that stop an idle service worker.
* Vendored and generated code, the test site, build scripts, WireGuard scripts.
