# Verification of the DatumBridge MCP WebSocket hub

The hub (Go, `src/`) lets HTTP callers send JSON-RPC requests to devices behind
firewalls: a device keeps one WebSocket to the hub, a caller's POST is put on
that socket, and the device's answer, found by its JSON-RPC id, is the POST's
response. This directory holds TLA+ models of the hub, the TLC configurations
that check them, and proofs that TLAPS checks.

    tlc  -config hub_safety.cfg MCHub.tla      # each run: see "Runs"
    tlapm Hub_proofs.tla                       # each *_proofs module

## 1. The system

| part | source | state | operations |
|---|---|---|---|
| connection table and sockets | `hub.go`, `ws.go` | `h.conns` under `h.mu`; per socket the buffered channel `Send`, a reader (the HTTP handler) and a writer goroutine | `HandleWS`, `Register`, `Unregister`, `RevokeDevice` |
| pending requests | `hub.go` | `h.pending` under `pendingMu`; per request a one-slot channel and a timer | filing, two cleanups, timer callback, `DeliverResponse`, the cancellation in `Unregister` |
| forwarding | `hub.go`, `forward_retry.go` | where each caller stands | `ForwardRequestWithOpts`, `forwardTrySend` |
| correlation keys | `hub.go` | none | `idToString`, `deviceID|rpcID`, the prefix test |
| credentials | `auth.go` | `s.devices` under `s.mu`; the JSON file | `load`, `save`, `RegisterDevice`, `AddCredential`, `RevokeDevice`, `ValidateToken` |
| pairing codes | `auth.go`, `http.go` | `p.store` under `p.mu` | `StartPairing`/`Add`, `List`, `Consume` |
| device hello | `edge_hello.go`, `edge_capabilities.go` | version and capabilities on the connection's entry | `HandleDeviceWSInbound`, `tryConsumeEdgeHello`, `queueHubHandshake` |
| deadlines of a socket | `ws.go` | ticker, write and read deadlines | ping, pong, the two ways a goroutine gives up |
| MCP endpoint | `mcp_http.go`, `mcp_session.go` | sessions with a sliding expiry | `initialize`, `tools/list`, `tools/call` |
| REST handlers | `http.go` | none of their own | `HandleDeviceMCP`, registration, pairing, revocation, lists |
| tool catalog | `dtbclaw_catalog.go` | the embedded manifest, loaded once | what is listed, relayed and posted |
| registry synchronisation | `registry_sync.go` | none | one loop with retries |
| middleware | `middleware.go`, `correlation.go` | none | headers of one request |
| process | `cmd/api/main.go` | | server timeouts, signal, shutdown |

How they interact. A caller files its request (`pendingMu`), looks the
connection up (`h.mu`), and sends on that connection's `Send` without any lock;
the writer puts it on the wire; the reader hands the device's answer to
`DeliverResponse` (`pendingMu`), which closes the caller's channel. A second
socket of a device replaces the first by closing its `Send`; the writer then
sends a close frame, the peer closes, the reader returns, and its deferred
`Unregister` runs. `Unregister` is the only place where one lock is taken
inside another: `pendingMu` inside `h.mu`. `HandleWS` validates a token under
`s.mu` and registers the socket under `h.mu`; `RevokeDevice` does the reverse
order under the same two locks; nothing spans both. Every change of the
credentials copies the map under `s.mu` and writes the file without a lock.
The MCP endpoint checks and extends a session, then makes an ordinary call of
`ForwardRequestWithOpts`; the handler watches neither its request's context nor
the server's `WriteTimeout`. `main` starts the synchronisation as a goroutine of
its own and does not wait for it.

What is hard: channels may be closed once only, and are closed in many places;
callbacks find their entry by key, not by identity; connections are looked up
and used later; several deadlines watch one socket, and others one call; timers fire while answers arrive; handlers unregister by device
id; saves overlap; the process may die with the file half written. The full
list, with lines and the properties that watch each, is under `hazards` in
`PROJECT.json`.

What makes each part correct:

* connections: no `Send` is closed twice, none is left open outside the table,
  every socket that is cut off ends;
* pending requests: no channel is closed twice, every open one can be found and
  is timed, a closed one is final;
* forwarding: a call ends; it gets an answer to its own name and from its own
  device; no answer is lost or taken from its caller; nobody waits for a device
  that has gone;
* credentials and pairing: the file agrees with memory, a code gives one token,
  a device's credential was registered or confirmed for it, a revoked device is
  out;
* deadlines: a peer that answers pings stays, a socket that cannot be written to
  any more is given up, unless its peer pongs unasked;
* endpoint: sessions in use are accepted and others refused, a session outlives
  its calls, every caller is told how the call ended;
* registry: what is reported as synced is stored and can be called.

## 2. The modules

| module | models | correspondence |
|---|---|---|
| `RpcKey` | the names of requests | `KeyOf` is the key `deviceID|rpcID` built in `ForwardRequestWithOpts`, `OwnedBy` the prefix test of `Unregister`. Texts are sequences of characters so that prefixes and separators inside ids are what they are in the code |
| `ConnTable` | table, readers, writers | `Register` = `HandleWS` from `Register` to the start of the writer. `Unregister` is two steps with `h.mu` held between them (`hmu`), because it takes `pendingMu` inside. `WriterTakes/Ends/Fails` are the arms of the writer's `select`, `ReadFails` any error of `ReadMessage` (peer, network, missed pong) |
| `DeviceLinks` | what the table promises devices and those who send to them, without the table, its lock, readers and writers | abstract specification, implemented by `ConnTable` (`ImplementsLinks`): `LinkState` reads a socket's handler and `Send` as a link that is new, live, cut or over; the two steps of `Unregister` are one cut and the end of a handler |
| `EdgeHello` | hellos, what entries report, handshakes; composed with the table | one action per step of the reader between locks: three lookups by device id, `Apply` (`edgeMu`), `Report` (`edgeSnapshot`), the non-blocking send. A reader that panics unwinds into its deferred `Unregister`, and `net/http` recovers |
| `PendingTable` | the table of requests and the timers | one action per critical section of `pendingMu`. `TimerFires` is the runtime starting the callback's goroutine, `TimerCallback` its critical section; between them `Stop` comes too late |
| `Hub` | callers and devices, composed with both tables | one action per step of `ForwardRequestWithOpts` between locks. `DeviceAnswer` is a device's answer arriving on any of its sockets |
| `ForwardSpec` | what a caller is promised, without tables, sockets, timers or locks | abstract specification, implemented by `Hub` (`ImplementsCalls`) |
| `Credentials` | credentials, file, pairing codes, crash and restart | a call changes the map, copies it, truncates the file, writes it: four steps, of which only the first two are under the lock |
| `Access` | admission and revocation | `ConnTable` and `Credentials` composed: `Validate` then `RegisterSocket` in `HandleWS`; `Cut`, `CutEnds`, `Remove` in `RevokeDevice` |
| `Heartbeat` | `ConnTable` in time | every action is one of `ConnTable` with what it does to the clocks, or a step the table does not see: the ticker, a write that takes time, `Pong`. Every written ping may be answered by a pong of its own (`owed` counts them), pongs may come unasked, and each moves the read deadline, whatever became of the writer. `peer` says what is known of a socket's peer: it answers in time (`prompt`), it pongs only in answer to pings (`asked`), or nothing. `Tick` advances time when nobody has anything to do and no deadline is overdue |
| `Endpoint` | `POST /mcp` with its sessions, `POST /api/v1/devices/{id}/mcp`, and the server that drains, dies and starts again | one action per outcome of a handler: `Initialize`, `Plain`, `Local`, `CallTool`, `Reject`, `DevicePost`, `Reply`. The call in the middle is an instance of `ForwardSpec` (`Fwd`), the abstract specification that `Hub` implements, so only what is promised about calls is used |
| `RegistrySync` | catalog and synchronisation | `Bodies`, `Listed`, `IsEdgeRelayTool` are the three selections of the catalog; the loop posts, waits, backs off; `LateStore` is the registry storing an old post; `Exit` and `Restart` the process |
| `MC*` | instances for TLC | |
| `*_proofs` | theorems | extend the module they are about |

Each call of `HandleWS`, of `ForwardRequestWithOpts` or of an HTTP handler is an
element of a constant set and is used once; "again" is another element. An
answer is named by the request the device answered, a credential by the call
that drew its token, so "whose answer", "whose token" can be said. The
operators named *Mutant* in comments are wrong versions of the action below
them; the specifications do not use them. They are there to show that each
property notices a plausible slip.

Left out of these modules: message contents (a hello is one value), metadata of
connections and devices, JSON and HTTP status codes, the
25 ms between send attempts, `ListDeviceInfos` and the other readers that change
nothing, an empty credentials path (no persistence), tokens that bcrypt refuses
to hash. The close frame of a writer is taken to need no time: it is written under
the deadline of the write before it. Time is a quantity in `Heartbeat` and `Endpoint` only; elsewhere a timer
fires, a deadline passes and a code expires at any moment.

## 3. Runs

| run | question | result |
|---|---|---|
| `hub_safety` | two calls of one name, two sockets of one device: `PendingIsOpen`, `OpenIsPendingAndTimed`, `NoWaitOnOffline`, `NoTheft`, `ClosedIsFinal`, and `Hub` implements `ForwardSpec` (`ImplementsCalls`) | hold |
| `hub_devices` | devices `a` and `ab`, ids `0`, `1` and none, room for two messages: a request goes to its own device, once (`SentToItsDevice`); answers match names and devices (`AnswersMatch`, `AnswersFromOwnDevice`) and reach a call that is open (`AnswerReachesCaller`); nobody is cut short on behalf of somebody else (`ClosedForAReason`) | hold |
| `hub_liveness` | nobody on the way to a call's end is stuck (`StepsEnabled`), and every call ends (`EveryCallEnds`) | hold |
| `edge_hello` | two sockets of one device, two hellos: `ListedIsOpen`, `OpenIsListed` of the table, which implements `DeviceLinks` (`ImplementsLinks`); `StrangersAreCutOff`, `LatestIsShown`, `HandshakeEchoes`, `LiveReadersSurvive` of the hellos; nobody on the way to a socket's end is stuck (`StepsEnabled`), and a socket that is cut off ends (`EverySocketEnds`) | hold |
| `credentials` | two devices, a registration, a pairing, two confirmations, a revocation, refused writes, crashes: `SavedUnlessSuspect`, `CodeUsedOnce`, `OnlyConfirmedAdmitted` | hold |
| `access` | two sockets, two revocations, a registration: `OnlyLateSocketsStay` | holds |
| `heartbeat` | one socket, peers that answer pings in time, late or unasked: `PromptPeerStays`, `ZombieIsBrief`, `DrainIsBrief`, and the end of sockets from deadlines alone (`EndsUnlessPonged`) | hold |
| `endpoint` | three posts, timeouts, shutdown, crash, restart: `SessionOutlivesCall`, `ActiveIsServed`, `StaleIsRefused`, `EveryPostEnds` | hold |
| `registry_sync` | five tools, two of them incomplete, a registry that answers, refuses, is silent or stores late, restarts: `SyncedIsStored`, `StoredIsPrefix`, the loop always has a next step (`SyncStepsEnabled`), and it ends (`SyncEnds`) | hold |
| `stale_unregister` | does a connection leave the table only when replaced or revoked? | no: the replaced handler's deferred `Unregister` removes the replacement (`ws.go:114`) |
| `send_panic` | does a call return? | no: it may send on a channel closed since the lookup (`hub.go:336`) and panic; its entry stays until the timer |
| `late_reply` | is every caller told how the call ended? | no: `WriteTimeout` (120 s, `main.go:74`) ends before `requestTimeout` (5 min): a later reply cannot be written. (A call that panics is told nothing either, and ends `dropped`; that is `send_panic`'s) |

The two kinds belong together: the passing properties say exactly how far the
promise goes, the others show that it goes no further. Four further
disagreements between code and comment are stated in `findings` without a run
of their own, because a passing property or a theorem already draws the line:

* a registered device may be missing from the file (`auth.go:174`).
  `SavedUnlessSuspect` says that overlap, failure and crash are the only ways
  for file and memory to part, that changes of the map need not be serialised
  with saves, and that one undisturbed save repairs everything;
* a revoked device may stay connected (`hub.go:120`, `ws.go:89-113`).
  `OnlyLateSocketsStay` gives the whole window: a socket validated before the
  revocation and registered after the disconnect;
* an answer to a request without an id does not reach its caller: it is filed
  under `0` and looked up under the empty text (`hub.go:268`, `361`).
  `AnswerReachesCaller` says that this is all: in `hub_devices`, where missing ids
  meet the id `0` whose name they share, every other answer in time arrives;
* `Unregister` of `a` cancels the requests of `a|b` (`hub.go:135`).
  `ClosedForAReason` holds in `hub_devices`, where one id is a prefix of the
  other but has no separator in it, and is a theorem for such ids
  (`BarFreeDevices`); the code tests neither assumption.

`ClosedForAReason` allows a timer of the *same* name on purpose: a timer whose
callback comes late deletes whatever is filed under its key, a newer call of the
same id included (`hub.go:283-291`). It says that the call whose timer it is has
ended then: no call is hit by the timer of one that is still open. `NoTheft` is what remains true of answers
that come late: a newer call of the same id may get them, but only when the call
they belong to has ended. The hello of a socket that has been replaced does
describe its replacement until the replacement says hello again, and its reader
may panic on a channel closed between lookup and send; `StrangersAreCutOff` and
`LiveReadersSurvive` say that this is all: another device's socket never does
the first, a live socket's reader never the second. `PromptPeerStays` is as
narrow as the code: a peer that answers each ping at once is still timed out if
a ping waited too long behind a slow write, which may take 10 s where 6 s are
left (`held`). `ZombieIsBrief` bounds the
time in which a socket whose writer died is still listed: what is left of the read
deadline, and one `pongWait` for each ping that is out, since each may be answered
in the last moment. It holds of peers that pong only in answer to pings; unasked
pongs, which RFC 6455 permits, move the deadline as well and keep a dead
socket listed for as long as they come, so `EndsUnlessPonged` gives a cut-off socket
that one way out. `DrainIsBrief` bounds the time before: a writer whose `Send` was closed
first writes what is queued, and each write may take until its deadline while the
ticker adds pings. It is through within a time `t` with `(P - W) * t <= W * P *
(SendCap + 2) + W * (P - 1)`, for a ping period `P` and a write deadline `W`: 233 s with
the code's 54 s, 10 s and 16 messages. `StoredIsPrefix` is the good and the bad of the synchronisation's
early return: nothing is stored before its predecessors, and nothing after the
first tool that cannot be (README.md:65 of the source promises each entry).

Bounds. Two calls of one name are what duplicates, late answers, late timers and
thefts need: one to leave a trace, one to be hit by it. Two sockets of one
device are a replacement: the old reader, alive or leaving, meets the new entry.
Two hellos let a reader's second meet its first, and a replaced reader's meet
the replacement's. `SendCap` is 1 instead of 16, so that the channel is full as
soon as a message waits (that messages keep their order, and that another device's link
stays when one is cut, is then left to the proof of `ImplementsLinks`; that a hello on
an entry is of the same device, where one device is in the run, to that of
`StrangersAreCutOff`). It is 2 in `hub_devices`, so that two requests, or one request
twice, could meet in a channel, on a socket that may be of either device; full channels
are the other runs'. `MaxAttempts` is 2 instead of 4, the least with a retry. `hub_liveness` has one socket, as a call's end does not depend on which
socket carried it; `edge_hello` covers the ends of several.
Two savers suffice for a race of copies; `credentials` has five (the loader
included). A second pairing in that run is out of reach (more than six million
states): that a code drawn twice still gives each device only what was confirmed
for it is left to the proof of `OnlyConfirmedAdmitted`, which has no bound.
`heartbeat` has `PongWait` 12, `WriteWait` 2, hence a ping period of 10 as the
code computes it: one unit is 5 s, and the limits are the code's. `Hold` 1 and `Lag` 0
use up the room between ping and deadline, as `Hold + Lag` must be less than 2 there: a
write may hold a ping up for longer than `Hold`, and does. `MaxOwed` is 2, the least with
a pong that is not the last (an RFC 6455 peer may forget all pings but the latest), and a
peer with both outstanding is read for the whole of what `ZombieIsBrief` allows; the theorem is for any `MaxOwed`.
`SendCap` is 1; there `DrainIsBrief` promises 9 units, and a drain of 8 does occur.
One socket is enough there, as clocks of different sockets do not meet; the table between several is `edge_hello`'s.
`endpoint` keeps the order of the code's limits (`ShutdownTimeout` and
`WriteTimeout` below `RequestTimeout` below `SessionTTL`) with 1, 1, 2, 3. Of its three
posts one opens a session, one calls in it and one comes after, or two calls of
one name meet. `registry_sync` has the code's own five attempts, and a
catalog in which an entry without a native name and one without a registry id
stand between complete ones.
The largest runs have 1,105,000 (`hub_devices`), 849,000 (`access`), 585,000
(`heartbeat`), 547,000 (`hub_safety`), 466,000 (`endpoint`), 264,000
(`credentials`) and 148,000 (`edge_hello`) distinct states.
Sets of interchangeable calls and sockets are symmetric where no
liveness is checked. Deadlock is not checked: calls and sockets are used once,
so the modelled system really comes to an end. No state constraint is used; the
state spaces are finite and explored completely.

Fairness (`Fairness` in `Hub`, `EdgeHello`, `Heartbeat`, `Endpoint`;
`SyncFairSpec`). Goroutines that can run do,
and armed timers fire: weak fairness for the steps of a call past its first and its
timer (`FairCall`), for writers, and for whoever holds `h.mu` (`FairHolder`).
Taking `h.mu` is strongly
fair: Go's mutexes hand the lock to a waiter that has waited long enough and its
`RWMutex` admits waiting readers when a writer leaves. That concerns a call's
`Lookup`, a reader's lookups (`Proceed` in `FairSocket`) and the beginning of
`Unregister` (in `Depart`). A socket whose writer has
stopped gets no pings; a peer pongs only in answer to pings, so its read
deadline (60 s), which hellos do not move, passes: a read fails. `EdgeHello`
assumes that last step, strongly fair: between two reads the reader handles a hello,
and with hellos for ever weak fairness would let it read for ever.
That peers pong only when asked is not the code's doing: a peer that pongs unasked,
more often than once a minute, and says nothing else keeps such a socket.
`Heartbeat` does not assume the step, and derives it for such peers as for those whose
pongs come to an end (`ZombieIsBrief`, `EndsUnlessPonged`): there, time passes (strongly fair, since
what happens in no time may hold it up for a moment again and again), a `select`
that finds a tick ready again and again takes it, because Go chooses at random,
a write that has reached its deadline returns and a read that has reached its own
fails. In `Endpoint` time passes, handlers and timers run, and a `Shutdown` that
has returned ends `main`; in `RegistrySync` the HTTP client returns, after
its timeout if not before. Nothing need ever be done by devices, networks, the
registry, callers that have not started, revocations, signals or restarts, with
the exceptions named: prompt peers in `Heartbeat` do pong.

What is assumed of devices, and the code does not enforce: a device answers only
requests it has received, and each once (`DeviceAnswer`; `DeliverResponse` would hand a
second or an invented answer to whatever call has its name, and "no answer ends
two calls" in `AnswersMatch` and `ImplementsCalls` rests on this); in `EdgeHello` and for
`asked` peers of `Heartbeat`, that a peer pongs only in answer to pings.

## 4. Proofs

All for any sets of devices, sockets, calls, codes and messages. Safety is proved
for any capacity and any number of attempts; the three liveness theorems for any
number of devices, sockets and callers, but up to 50 attempts (`CallsEnd`), channels
of up to 16 messages (`SocketsEnd`), a catalog of up to 46 tools and 5 tries of each
(`SyncReturns`); the code has 4, 16, 46 and 5.

* `ConnTable_proofs`: `ConnInv`, that is `ListedIsOpen`, `OpenIsListed`,
  `GoneIsClosed` with two strengthenings: a socket not yet registered has an open,
  empty `Send` and no writer, and whoever is inside `Unregister` has emptied the entry
  (`HolderEmptied`), without which the two-step `Unregister` could let a
  handler be gone with its `Send` open.
  `TableImplementsLinks` is the refinement: the live link of a device is the one the
  table lists (`LiveIsListed`, where `ListedIsOpen` and `OpenIsListed` meet), so what
  `CloseEntry` closes is exactly what `DeviceLinks` cuts (`EntryIsCut`), and what
  `LeaveEnd` ends was cut (`HolderEmptied`).
* `PendingTable_proofs`: `PendingInv`. `PendingIsOpen` and
  `OpenIsPendingAndTimed` need each other: a key's entry and a request's channel
  change together in all five places, and one lemma (`DropPendingInv`) carries
  four of them.
  `ClosedIsFinal` is the action property beside it: nothing reopens a channel or
  changes what it delivered. The module also has the lemmas about keys: the
  prefix test finds every key of its device whatever the id (`KeyIsOwned`), and,
  if device ids have no separator, only those (`OwnedIsOwn`); keys then determine
  device and id (`KeyInjective`).
* `Hub_proofs`: a step of `Hub` is by construction a step of each table (`TablesImplemented`), so
  their theorems hold in the hub, and `DeviceLinks` is kept
  (`HubImplementsLinks`); `HubInv` adds `CallsInStep` (what a call has
  and where its messages are) and gives `NoWaitOffline`: the entry is filed
  before the lookup and `h.mu` is held until the requests are cancelled.
  `SendInv` follows a request on its way: a queued or received one was sent by a
  call that will not send again (`SentOnce`), which gives `SentToItsDevice`.
  `CallInv` adds that what a call got was sent by a device (`AnswersSent`) and
  gives `AnswersMatch`, `NoTheft` and `AnswersFromOwnDevice`; its one hard step
  is that `Unregister` cancels what has its prefix, which for device ids without
  a separator is only its own. From it follow `ClosedForAReason` and
  `CallsImplemented`: every step of the hub is a step of `ForwardSpec` or none.
  `ClosedForAReason` also needs that an open call is the one filed under its key, so
  that a timer or a cleanup that hits another call is one of an ended call.
  `CallsEnd` is the liveness of a call: `FairSpec /\ []StepsEnabled =>
  EveryCallEnds`. One lemma per place where a call may stand (it looks up, it sends,
  it gives up, its timer is armed or fired, it returns), each from one fairness
  condition, then the leads-to chain. The loop of attempts is followed by doubling:
  what one attempt gains gives two, four, ... 64 attempts, more than
  `MaxAttempts` (`AttemptsAssumption`), so no induction over data is needed.
* `EdgeHello_proofs`: `HelloInv`. A reader that looks its device up finds its own
  socket, or has been cut off (`FoundOwnOrCutOff`, from `OpenIsListed`); a closed
  `Send` stays closed, so this may be used long after the unlock. `Shown` follows
  the hello from the entry to the report, `Echo` from there into the channel.
  `SocketsEnd` is the liveness of a socket: `FairSpec /\ []StepsEnabled =>
  EverySocketEnds`. The writer of a closed `Send` writes what is left, nothing can be
  added, and doubling again gives 32 writes, more than fit (`RoomAssumption`), before
  it stops; whoever holds `h.mu` lets go of it; the reader comes back
  from wherever it is with its hello; a read fails; the handler leaves. `LinksAreCutAndEnd` puts the two together:
  `DeviceLinks`, and that a link which is cut is over some time.
* `Credentials_proofs`: `CredInv`. `SavedUnlessSuspect` is not inductive: in the
  middle of a save one has to know that the saver is alone, that the file is
  empty while it writes, and that its copy is the map unless somebody has
  changed the map and is still to save (`CopyIsCurrent`); and that no call is
  under way before the server listens (`CallsNeedServer`). `CodeUsedOnce` rests
  on a pairing being in one place at a time (`PairingInOnePlace`).
  `OnlyConfirmedAdmitted` follows a token from the call that drew it, through the
  pairing, its confirmation and the file, back into memory after a restart.
* `Heartbeat_proofs`: `HbInv`. While a tick has not led to a pong the last
  pong is at most a period and the tick's age ago, unless pings are held up
  (`PongsFollowTicks`), so `PingPeriod + Hold + Lag < PongWait` is what keeps a prompt
  peer; each pong that is still owed when a writer dies pays for the deadline it
  sets (`PongsLeft`).
  `DrainBrief` weighs the time a draining writer has taken and the work it still has
  against the ticker's pings (`DrainBounded`): per ping period at most one ping is added,
  which costs at most one write deadline, so the work shrinks because the
  deadline is shorter than the period.
  `HbImplementsConnTable`: clocks only restrict the table, by construction.
* `Server_proofs`: `EndpointInv` says that the store agrees with the history of
  uses (`StoreIsHistory`) and that a session is no older than the latest call in
  it (`CallHoldsSession`); with `RequestTimeout <= SessionTTL` a session outlives
  its calls. The endpoint moves its calls only as `ForwardSpec` allows, through
  crashes and restarts (`EndpointImplementsForward`; with `CallsImplemented` the
  endpoint relies on no more than the hub gives), and what follows of the callers:
  a post that succeeds has the answer to a request of its own name, which no
  other post has (`PostsGetTheirAnswers`). `SyncInv` says that what is done is a beginning of the catalog
  (`DoneIsPrefix`) and that only what precedes is stored when a tool is posted.
  `SyncReturns` is the end of the synchronisation: `SyncFairSpec /\
  []SyncStepsEnabled => SyncEnds`. How far the loop is, the position of the
  tool at hand times `MaxAttempts` plus its failed tries (`Far`), never becomes less
  while it runs; one more is reached by fairness, doubling gives 256 more, and there are
  at most 46 * 5 + 5 (`SizeAssumption`).
* `Access_proofs`: `AccessInv` joins both invariants with
  `OnlyLateWhileUncovered`, which must already hold between the two halves of
  `RevokeDevice`.

Assumptions: the named `ASSUME`s of the modules (sets that stand for different
things are disjoint, capacities are positive, the limits are in the code's
order: `WriteWait < PingPeriod` for the drain; `AttemptsAssumption`,
`RoomAssumption`, `SizeAssumption` as above); TLC evaluates them in the runs. Two more are in
the statements, because the code does not test them: `BarFreeDevices` (no
device id contains the separator) in `CallInvariant`, `AnswersRight`,
`NothingStolen`, `OwnDeviceAnswers`, `ClosedWithReason` and `CallsImplemented`;
and `AnswerReachesCaller` speaks only of ids that print as something. Both fail exactly
in the findings named in section 3.

`CallsEnd` and `SocketsEnd` have the premise `[]StepsEnabled`, `SyncReturns` the premise
`[]SyncStepsEnabled`. Each is a state predicate: whoever is at one of the places named
there has a step to take. It is spelled with `ENABLED`, about which this prover cannot
reason; TLC checks it as an invariant (`hub_liveness`, `edge_hello`, `registry_sync`).
The division is the useful one. That nobody is stuck is a matter of single states, and a
small instance shows it; that steps which can be taken lead to the end, through the
interleavings of any number of callers and sockets and any replies, is what TLC could
not show in general and the proof does.

Every other invariant and action property of the passing runs is a theorem, and so are
type correctness of every module and the refinements above. `HubTypeOK`,
`GoneIsClosed` (which `ImplementsLinks` contains: only a link that was cut is over) and
`StoredIsCallable` are checked by the proofs only. Only model-checked are the three
predicates about `ENABLED` and two liveness properties, `EndsUnlessPonged`
and `EveryPostEnds`. Both need that time passes. `Tick` waits until nobody
has anything to do at once, which ends in the finite instances TLC checks; for
arbitrarily many sockets and posts that would need an induction over their number,
which the provers cannot instantiate at the level of temporal formulas, and with
infinitely many of them it is false, as there may always be one more that acts in no
time. What time bounds, once it passes, are theorems:
`ZombieIsBrief` and `DrainIsBrief` for `heartbeat`, and in `EndpointInv` that no call
is older than `RequestTimeout`.

## 5. Not modelled

* Middleware and correlation ids (`middleware.go`, `correlation.go`): they
  rewrite headers and payloads of one request and keep no state.
* Drift status and edge capabilities (`edge_capabilities.go`): pure functions of
  one hello. `EdgeHello` takes their results as part of the hello, which is
  replaced as a whole.
* REST handlers that only read (lists, health), the API key and the JSON of
  bodies. The handlers that change state are in `Credentials`, `Access`
  and `Endpoint`.
* Data: what tools return, schemas of the catalog, wording of errors, token
  generation and hashing.
* Lengths of pauses: 25 ms between send attempts, the growing back-off of the
  synchronisation. The context `main` passes is `context.Background()`, so
  the `ctx.Done` arms are never taken.
* The web page, which is a client.

What is left of the plan is larger instances, not parts: two pairings in
`credentials`, several sockets in `heartbeat`, several names in `endpoint`.
