# A TLA+ model of blnk

blnk connects two machines over a WebRTC data channel and lets one of them run
commands and copy files on the other. This directory holds TLA+ modules
translated from the Rust sources under `src/`, TLC configurations that check
them on small instances, and proofs that TLAPS checks for every value of the
constants. File names below are relative to the repository.

## The system and its parts

| part | state | operations | talks to |
|---|---|---|---|
| stream registry (`src/stream/mod.rs`) | `next_id`, the map of active streams, `closed_count` | `open`, `accept`, `close`, `clear` | owned by a session |
| session (`src/session/mod.rs`) | state, expected PIN, failed attempts, instant of the next attempt, registry | `begin_authentication`, `authenticate`, `accept_auth_required`, `accept_auth_result`, `mark_ready`, stream calls, `close` | owned by a runtime |
| session runtime (`src/session/runtime.rs`) | the session, the PINs left to try, flags of the handshake, a peer handle | `handshake`, `run_until_disconnect`, `close`, stream sends and receives | the other runtime, by frames on SWSP stream 0 |
| dispatcher and clients (`src/signaling/orchestration.rs`) | a runtime | `serve_session_collected`, `run_shell_client_collected`, `run_file_client_collected` | each other, by frames on the streams |
| session establishment (same file) | signaling socket, request challenge, peer | `accept_server_session`, `connect_target` | a relay, then a runtime |
| peer (`src/peer/mod.rs`) | event flags, the data channel, a queue of 32 received messages | waits, `send_frame`, `recv_frame`, `close` | the WebRTC library through callbacks on other tasks |
| signaling transport (`src/signaling/transport.rs`, messages in `src/signaling/mod.rs`) | a WebSocket | `connect_with_retry`, `transact_with_retry`, encoding of messages | a relay; a local fixture server |
| file transfer (`src/stream/file.rs`) | the file system under a root | get, put, list, stat, delete | called by the dispatcher |
| shell (`src/stream/shell.rs`) | a child process, two readers, an output budget | `run` | called by the dispatcher |
| proxy (`src/stream/proxy.rs`, `proxy_handler.rs`) | permits and byte budgets | not reached by the dispatcher yet | sockets |
| web control (`src/web/mod.rs`) | a table of browser sessions, creation times | create, read, close, WebSocket tasks | browsers, concurrently |
| pairing (`src/protocol/pairing.rs`) | commitment, nonces | commit, challenge, reveal | the other device |
| SWSP (`src/protocol/swsp.rs`) | none | frame encoding and decoding | everything that sends |
| object store (`src/storage/`), vault (`src/vault.rs`) | SQLite tables | create, update, bind; put, get, delete | other processes on the same database |
| device registry (`src/config/mod.rs`), identity (`src/identity/key.rs`) | files | load, upsert, save | other processes on the same files |
| discovery, telemetry, command line, utilities | none that others read | | |

### What is hard about it

* **Failure in the middle of an exchange.** A handler sends several frames; any
  send can fail, the other end can close between two of them, and a close loses
  the tail of what was under way. Who believes what afterwards decides whether a
  session is usable on one side only, or a cut-off download passes for a whole one.
* **Timers against answers.** The retry delay of the PIN check, the control
  timeout of the handshake, the wait for a disconnect and the first message of a
  browser socket all race with frames that are already on their way.
* **Tasks that share state.** The callbacks of the WebRTC library, the pump of a
  data channel, the task that waits and the task that reads share the flags of a
  peer; concurrent HTTP requests and socket tasks share the session table.
* **Limits.** Stream ids wrap, a counter saturates, PINs are compared in buffers
  of fixed length, attempts, sessions and creations are bounded, the inbound
  queue of a peer is full, output is larger than a frame.
* **Persistent state.** Uploads, the device registry and the identity replace a
  file in several calls, with other operations, other processes, a crash or a loss
  of power in between; object updates read before they write.
* **Futures that are dropped.** A time limit or an owner drops a future at an await:
  permits must come back, and a file operation that already runs on a blocking
  thread still takes effect.
* **A relay nobody trusts.** Offers and answers of several calls travel over one
  relay, which may delay, repeat or mix them up.

### What makes the parts correct

| part | properties |
|---|---|
| stream registry | id 0 is never given out, a live entry is never replaced, an id is not reused before the id space wraps, every stream is counted once |
| session | only the exact PIN opens it, the limit of attempts closes it for good, guesses are spaced by the delay, streams exist only while it is ready, its states follow one lifecycle |
| two runtimes | a server is ready only by the right PIN, a client only after its server, a closed peer has a closed session, nothing of the handshake is left for what comes next, nobody waits for ever, an honest client gets in |
| dispatcher and clients | a success at the client is the result of its own operation, an uploaded file is whole, the streams at the two ends correspond, operations end |
| web control | bounded sessions and creation rate under concurrency, a session's status only advances, it ends with any of its sockets, silent sockets do not stay |
| peer | no lost wakeup, messages of one channel once and in order and the end after them, calls return, a pump ends with its handle |
| session establishment | a device goes on only with the answer to its own offer from the right client with the right PIN; what becomes of the peer on each way out; calls return |
| signaling transport | the caller gets the answer to its own request, at most one copy for each attempt, and comes back when no connect hangs and the server answers or leaves |
| proxy | permits are neither lost nor doubled, only approved addresses are kept and connected, redirects keep scheme and origin, byte limits hold |
| shell | two readers share one output budget without exceeding it, a run ends and leaves no child |
| file transfer | nobody ever finds part of an upload, a path is without a file only for a reason, no operation panics (violated) |
| object store, vault | revisions without gap and each edit on the one it read, the index follows the objects; the last put or nothing |
| device registry, identity | the registry is whole and a save replaces it at once (the latter violated); the identity is whole |

## Plan

Most important behaviour first. A module is written as a set of operators on
records where another module composes it (`StreamRegistry`, `Session`,
`SessionRuntime`, `AddressPolicy`, `SignalingMessages`), and as a machine with
VARIABLES where it is checked or proved by itself.

| step | modules | state |
|---|---|---|
| 1 | `StreamRegistry`, `RegistryMachine` | checked, proved |
| 2 | `Session` (composes the registry), `SessionLifecycle` (abstract), `SessionMachine` | checked, proved, refinement proved |
| 3 | `SessionRuntime`, `Handshake` (two runtimes and a channel) | checked, safety proved |
| 4 | `RemoteStreams` (dispatcher, client, two sessions) | checked, safety proved |
| 5 | `WebControl` | checked, safety proved |
| 6 | `Peer` | checked, safety proved |
| 7 | `Establishment` over a relay | checked, safety proved |
| 8 | `SignalingMessages`, `SignalingTransport` | checked, safety proved |
| 9 | `AddressPolicy`, `Proxy` | checked, proved |
| 10 | `Shell` | checked, safety proved |
| 11 | `FileService`, `StateFiles`, `ObjectStore`, `Vault` | checked, proved |

Every module of the plan has its safety properties checked and proved, but for those
listed at the end of [Proofs](#proofs).

## Modules and the code

`PROJECT.json` gives the source lines of every definition. Definitions named
`Mut...` are defects, used to confirm that a property can fail.

**`StreamRegistry`** (`src/stream/mod.rs`). A registry is a record of `next_id`,
the active streams and `closed_count`. `RegOpen`, `RegAccept`, `RegClose` and
`RegClear` return a record of result and new registry, as the methods return a
`Result` and change `self`. `u32` is `0..MaxId` and `SuccId` wraps there;
`closed_count` saturates at `MaxClosed`. The loop of `allocate_id` is given in
closed form: the first free id from `next_id` on. **`RegistryMachine`** makes a
state machine of it, with the ids handed out since the last wrap and the number
of streams ever registered as history.

**`Session`** (`src/session/mod.rs`). A session is a record that holds a registry.
One operator for each method. PINs are sequences of bytes, so that the
comparison in fixed buffers (`ConstantTimePinEq`) and the trimming of blank PINs
are what the code does; an `Instant` is a number up to `MaxInstant`, past which
`checked_add` fails. **`SessionMachine`** calls the operators in any order;
**`SessionLifecycle`** is the abstract machine it implements: four
phases, the ids of open streams and a count of failures, without PINs, clock or
allocation.

**`SessionRuntime`** (`src/session/runtime.rs`). A runtime is a session, the PINs
left, and the flags of the handshake. Each control message is handled by an
operator that gives the new runtime, the frames to send and the verdict, with
the number of sends that succeed as a parameter: a handler cut off at its second
send has done what precedes it. **`Handshake`** puts two runtimes on a channel
that is reliable until an end closes it and adds the timers, the loop
`run_until_disconnect`, the failure path and the owners in `src/main.rs`. A frame
is handled in one step because the runtime is borrowed mutably until the handler
returns.

**`RemoteStreams`** (`src/signaling/orchestration.rs`). The dispatcher
`serve_session_collected` with its shell and file branches, and a client that runs
`run_shell_client_collected` and `run_file_client_collected` on one session. Every
await of a send or a receive is a step. Content is the number of the operation
it comes from and its size in frames. Of the frames of an upload the dispatcher keeps
their data and whether all were plain DAT frames, which is all that
`collect_data_frames` looks at when it goes over them.

**`WebControl`** (`src/web/mod.rs`). The session table, the creation times, and
tasks that hold the lock for a step at a time. The creations are a list of instants
that only grows; the creation times the code keeps are the places in that list it has
not cleaned up. `CreateArrives` reads the clock
and `CreateServed` uses that reading under the lock, as the code does. A socket
task is waiting for its hello, open, closing or done.

**`Peer`** (`src/peer/mod.rs`). The flags of `PeerEvents` are a set that only grows.
A callback stores and notifies in two steps, except where the code notifies with
the mutex held. A wait is its steps: look, check, register, look again, sleep.
`Notified` fires on a notification from the moment it is made, as tokio
documents. The pump takes a message and then waits for room in the queue.

**`Establishment`** (`src/signaling/orchestration.rs`). Calls of
`accept_server_session` and `connect_target`, several of each. The relay is the set
of all messages ever sent; a call that waits may be handed any of them, at any time
and again, and an answer with the sealed request of another. A description and a
nonce bear the name of the call that made them; sealing is a constructor only the
device opens. Each way out records whether the peer was closed, was dropped without
a close, or was never made. The handshake that follows enters by its outcome, as
`Handshake` establishes it.

**`SignalingMessages`** has one record shape for the kinds of message, their
validation rules and the wire form with its base64 fields; **`SignalingTransport`**
(`src/signaling/transport.rs`) runs `transact_with_retry` against the local fixture
server: a connection for each attempt, its ends in order, size limits, a server
that closes, answers malformed text or is shut down, and sockets that break.
**`AddressPolicy`** is the classification of addresses by octets and words that the
endpoint policy and the proxy share.

**`Proxy`** (`src/stream/proxy.rs`, `proxy_handler.rs`). A stream goes from await to
await: authorisation, permit, lookup, connection attempts over the pinned addresses,
HTTP redirects, which authorise and look up again, frames in both directions. The
owner may drop the future at every await. Octets of bodies are counted only.
**`Shell`** (`src/stream/shell.rs`). The policy, the child, its two readers with the
load and the compare-and-exchange of the output budget as separate steps, exit
against time limit against cancellation, the kill, and the wait for the readers.

**`FileService`** (`src/stream/file.rs`). Operations on one path. A tokio file call is
issued, takes effect on a blocking thread and returns in three steps; the time limit
may drop the operation in between, and the call still takes effect. A name stands
for an inode, so a download can open another file than the one whose size it read.
**`StateFiles`** (`src/config/mod.rs`, `src/identity/key.rs`). Processes that load,
change and save the registry or load or create the identity, a step for each call of
the file system, with what is on the disk beside what the processes see; a process
dies or power is lost between any two calls. **`ObjectStore`** (`src/storage/`). Rows,
revisions and index under the constraints of the schema. `update_object` is two
steps, since its deferred transaction reads first and another process may commit
before it writes; the names of kinds go through the two conversions the code has.
**`Vault`** (`src/vault.rs`). Rows under payload references, with the columns that
`ON CONFLICT` keeps; encryption binds the associated data and the nonce.

`MCSession`, `MCHandlers`, `MCStorage` and `MCSignaling` each check several modules in
one run. The parts share no state and no call of one reaches another, so a behaviour is
about one of them, chosen at the start. A part that is not chosen stays in its initial
state, where none of its fair steps is enabled: the fairness of one part excludes no
behaviour of another.

External parts, modelled from their use: the ordered data channel and its loss at
a close, tokio's `Notify`, the queue's receiver, the file the dispatcher serves, the
relay, name servers and far ends of the proxy, child processes, the file system, SQL
transactions, encryption.

## Runs

| run | shows | bounds, and why they are enough |
|---|---|---|
| `session` | of the registry `FreshUntilWrap` and `AllocatorIsCyclicFirstFit`, that the closed form of the allocator is what its loop computes; of the session `OnlyTheRightPinOpens`, `GuessesAreThrottled`; `ImplementsLifecycle` is the refinement | four ids and seven streams: the space fills, wraps and is refilled; the counter saturates. PINs of zero to three bytes over three byte values where two are right, among them zero bytes and blanks, so padding and cutting both matter; four guesses for a limit of three; instants that overflow |
| `handshake` | `ClientFollowsServer`, `PinsSpent`, `NothingLeftOver`; `HandshakesDecide`: nobody waits for ever, and without a fault the right PIN makes both ready | at most one fault anywhere: a failed send, lost frames, an early timer or any stray control frame; PIN lists with the right one first, late, never, repeated, blank; a delay of one |
| `handshake_idle` | violates `IdleSessionKept` | the same, no faults |
| `streams` | `SuccessIsReal`, `RemoteFileWhole`, `ClientsAreServed`, `OperationsEnd` | two operations on one stream id, so that the second meets what the first left; files of no and two frames, so that a cut falls between; one fault |
| `streams_cut` | violates `DownloadIntact` | the same |
| `streams_large` | violates `CommandsReport` | no faults; output beyond one frame |
| `handlers` | `PermitsAccounted`, `PinsApproved`, `RedirectsStaySafe`, `BudgetsKept` of the proxy; `OutputBounded`, `RunEnds` of the shell; `SessionsBounded`, `RateBounded`, `EndedSocketEndsSession`, `SocketsDecide` of the web surface | two streams for one permit, three policies, an address on both sides of every block border, chains of two redirects, frames at, below and above the limits; a command for every policy rule, six units of output for a budget of four, read two at a time; three ids for a limit of one session and one creation in the window, two requests so that one overtakes the other, a clock that runs past lifetime and window, one socket (that several sockets of a session cannot undo each other is the theorem `SocketsEndSessions`, for any number) |
| `proxy_unpinned` | violates `OnlyPinnedConnections` | the same; among the targets a host with a trailing dot |
| `storage` | `HistoryComplete`, `EditsBuildOnLatest`, `IndexFollowsObjects`; `LastPutOrNothing`; `PublishedWhole`, `GoneOnlyWhenCut`; `IdentityWhole`, `RegistryWhole` | two handles, objects, references and processes, so that each can be overtaken by the other; three revisions and three puts; uploads shorter and longer than the file they replace. Handles, operations and processes are interchangeable, hence the symmetry; the run checks invariants only |
| `storage_panic` | violates `NoPanic` | the same |
| `storage_registry` | violates `SaveIsAtomic` | the same |
| `signaling` | `AnswersItsRequest`; `OnlyOwnAnswers`, `PeersAccounted`; `ConnectedCallsReturn`; of a peer `SleepersAreWoken`, `DeliveredInOrder`, `EndComesLast`; `NobodyHangs`: calls return and pumps end | a message of every kind and one for every rule, one retry and one broken socket, a relay that sends control frames, oversized ones and a valid message nobody asked for; two devices' calls and two clients' calls with equal or different uids and PINs, so that every mix-up of two exchanges occurs. A peer is looked at in two ways: all waits and reports with a channel that carries no messages (`waits`), and two channels and three messages over a queue of two, so that the queue holds several, the pump blocks, and a second channel arrives before and after the handle is closed (`frames`) |

`RateBounded` allows `Requests - 1` creations more than the limit. That is what
the code guarantees: `create_session` reads the clock before it waits for the
lock. A later request that gets the lock first cleans up the creations of the window,
and the requests it overtook are then counted without them.

### Where code and documents differ

* `handshake_idle`: `run_until_disconnect` ends an idle session after the ten
  seconds of `wait_disconnected`.
* `streams_cut`: the FIN a closing server sends on the control stream passes for
  the end of a download; the size announced is not compared.
* `streams_large`: output between the frame limit and the output limit cannot be
  sent, and the dispatcher ends without an answer.
* `proxy_unpinned`: an HTTP request pins the checked addresses under the normalised host
  (`src/stream/proxy_handler.rs:340`) and is sent to the host as the URL spells it. With a
  trailing dot the client finds no pin and resolves the name again, unchecked.
* `storage_panic`: a download slices what it read by a size it looked up before it opened
  the file (`src/stream/file.rs:394`); when the path went to a shorter file in between, the
  task panics, where `STYLE.md` forbids a panic.
* `storage_registry`: a save removes the registry before it renames the new one
  (`src/config/mod.rs:120`), where `CONTEXT.md` calls the write atomic.

### What the models show that a reader of the code may not expect

These are behaviours of the code that the modules contain and the properties are
worded around.

* After a wrong PIN the server asks for the next at once, and its own retry delay
  refuses what comes before the delay has passed with an error that ends the
  handshake (`src/session/runtime.rs:815`, `src/session/mod.rs:311`). So
  `HandshakesDecide` promises readiness only when the right PIN comes first.
* The clients do not compare stream ids (`src/signaling/orchestration.rs:439`). A caller
  that went on after a failed operation would take the rest of it for the answer to
  the next. The command line does not go on, and neither does the client of
  `RemoteStreams`.
* `wait_connected` and `wait_channel_open` (`src/peer/mod.rs:291`) look for a failure
  before they register for the notification and not after, so a failure in between is
  noticed when the wait times out. `NobodyHangs` rests on that time limit.
* An upload that must not overwrite checks before it writes and renames afterwards
  (`src/stream/file.rs:418`): of two such uploads the later rename wins. One that
  overwrites removes the old file first (line 444), and a failure or the time limit
  before its rename leaves the path without a file. `GoneOnlyWhenCut` accepts that
  window and rules out every other loss.
* A registry save does not sync, and two processes that load the same registry lose one
  entry. With the removal above these are the three ways to lose a device, and
  `DevicesLostThreeWays` proves that there is no fourth. `RegistryWhole` is the part of an
  atomic write that the code does keep. The identity is synced before its rename, so
  `IdentityWhole` excepts nothing.
* `object_kind_name` and `parse_object_kind` do not undo each other: a kind comes back
  as unspecified (`src/storage/store.rs`).
* `connect` and `transact` have no time limit of their own and their callers put none
  around them (`src/signaling/transport.rs:568`, `src/signaling/orchestration.rs:78` and
  `:225`): a relay that accepts a connection and says nothing holds the call for ever.
  `ConnectedCallsReturn` is about calls whose attempts to connect end.
* The relay is another machine: a valid message it sends before the answer is what
  `transact` returns (`src/signaling/transport.rs:593`), and `AnswersItsRequest` says so.
* `wait` for the shell's readers has no limit either (`src/stream/shell.rs:304`): `RunEnds`
  assumes that processes the child left behind let go of its pipes, and `OperationsEnd`
  that no command runs for ever.
* Session establishment drops its peer without a close on some error paths
  (`src/signaling/orchestration.rs:187`); `PeersAccounted` says on which and does not claim
  that there are none.
* The WebSocket library resolves the name again after the policy approved the
  addresses of a `wss` endpoint; only the proxy pins them.

### Fairness

`session`, `storage` and the proxy part of `handlers` check safety only. In the others a step is fair when the
code or its runtime brings it about by itself:

* a frame that arrived is handled and a closed channel noticed, since a task that
  can run is scheduled; an owner calls `handshake`, and cleans up after a call
  that returned (`src/main.rs`);
* a timer nothing disarms fires: the control timeout, the time limits of shell and
  file operations, the limit on a socket's first message, `DEFAULT_WAIT_TIMEOUT`.
  A wait of `Peer` can be woken again and again but has one deadline, hence strong
  fairness for it alone;
* the mutex of the session table is tokio's, which is fair;
* the channel of a closed connection reports its end;
* in `Shell` the waiting task, the two readers and the timer make progress, and the
  processes a child left behind exit;
* in `SignalingTransport` client and server tasks make progress, and a server that
  has a request answers, closes or is shut down;
* in `Establishment` every wait for a message and for the peer has a time limit
  (`recv_with_timeout`, `wait_peer_ready`).

Not assumed: that an attempt to connect to a relay ends, or that a command of the shell
returns to the dispatcher: the time limit of the shell covers the child and not the wait
for its readers. `ConnectedCallsReturn` and `OperationsEnd` name these two as conditions.
Neither is it assumed that an owner leaves a session that is up, that a browser sends
anything after its hello, that a reader reads, that a handle is dropped, that a
fault happens or does not.

## Proofs

All proofs hold for every value of the constants under the ASSUMEs of the modules, which
TLC evaluates in every run. Sizes, limits and delays are naturals, not zero where the
code refuses or cannot have zero. PINs are sequences of bytes, and the frames, commands,
edits, policies, addresses and requests that are handed to the code have the shape of
their Rust types. The ids, requests and sockets of `WebControl` are finitely many and
there is a request; the proxy is asked for at least one URL; the kinds of streams include
those of shells and files, and "/" is a path. A marker for "none"
(a channel, a call, a file) names nothing else.

Each module proves an invariant that is inductive and implies the properties:
one lemma for the initial states, one for each action, one for `Next`.

* **`Session_proofs`**: what each method of a registry and of a session returns and
  keeps, as lemmas that the next two modules share: the allocator's result, the
  comparison of PINs, which is proved to be equality of sequences of the right length,
  and `authenticate`. For the registry by itself: `RegistryTypeCorrect`,
  `ControlStreamSafe`, `NoReuseUntilWrap`, `StreamsAccounted`, `EntriesKept`. The
  invariant is types, well-formedness, `Accounted`, and `IssuedBehind`: ids issued since
  the wrap lie behind `next_id`. Freshness by itself is not inductive, since it says
  nothing of where `next_id` will look.
* **`SessionMachine_proofs`**: `TypeCorrect`, `PinSafe`, `LimitSafe`, `ThrottleSafe`,
  `StreamsSafe`, and `LifecycleRefined`, the refinement of `SessionLifecycle`. The
  invariant adds that a session's fields fit its state (`Sound`), that
  `k` failures took `k - 1` delays and the next attempt must wait for the `k`-th
  (`Throttle`), and that only a server counts attempts.
* **`Handshake_proofs`**: `ClientFollows`, `PinsStaySpent`, `NothingStaysOver`, for any
  number of faults. The invariant is what the two ends know of each other through the
  channel: they speak in turn (`InTurn`); at most one message is under way to the
  server, and it fits what the client remembers of its own part (`ToServer`); to the
  client at most the result of a PIN and one of auth_required, ready and error
  (`ToClient`); a FIN comes only from an end that closed (`FinsFromClosed`); as long as
  a PIN is asked for or under way, the server may still count a failure (`PinBudget`).
  That part needs a channel on which only the two ends speak. The rest
  (`Base`: types, a closed end is done, ready at the client follows `ready_seen` at the
  server) holds whatever reaches them, up to a stray frame to the client itself.
* **`RemoteStreams_proofs`**: `SuccessStaysReal`, `RemoteFileStaysWhole`,
  `ClientsStayServed`, `RegistriesCorrespond`, for any number of operations and faults, files of
  any size and any id space. The clients do not compare stream ids and the dispatcher serves
  one stream at a time, so what is told to whom rests on what can be on the way. The
  invariant `Talk` says what that is. To a dispatcher that still serves: first at most the
  FIN of the operation before, on a stream it has, then frames of the present request, each
  in its place (`Asks`), then at most the end of the session; nothing is missing between
  what it took and what the client has yet to send unless a close lost it (`Aligned`). What
  it works on is the client's operation (`Serving`), the data it collected is a prefix of the
  upload and all of it when it is stored (`Collecting`). To the client: frames of the
  answer to its operation, and once the FIN of an answer is there, nothing but the end of
  the session behind it and nothing for the dispatcher to read (`Answered`); the FIN of an
  answer to an upload exists only once the file had that content. That a stream the client
  opens is not refused although ids are used again needs both registries:
  `StreamsCorrespond` and `NewStreamFree`. All this needs a channel without stray frames, as
  the three properties say: a single frame that no end sent can be taken for an answer.
* **`Peer_proofs`**: `PeerTypeCorrect`, `NoLostWakeup`, `DeliveryInOrder`, `EndIsLast`.
  The invariant adds that until the handle is closed the only channel with a pump
  is the one in the slot, that the queue is closed only by the end of that pump,
  and that a pump that is sending has taken a message.
* **`Signaling_proofs`**. Establishment: `OwnAnswersOnly`, `PeersAreAccounted`. The
  invariant `EstInv` follows messages through the relay: every message is one that the
  call it names would still make (`RelayHonest`), a client that took an offer took it
  from a call that made it for this client (`OffersTaken`), and a device that has not
  made an offer has taken no answer (`AnswersLate`). It is inductive because a call names
  its client, and a client takes an offer, once. `PeersSound` ties the peer of a call to
  where the call stands. Messages and transport: `MessagesRoundTrip`, that encoding and
  decoding undo each other on valid messages of every kind, and `RequestsAnswered`. Its
  invariant `SigInv`: a connection carries the request at most once, nothing that
  passes for an answer comes back on it before the request was heard but what the relay adds, and an
  attempt has one connection of its own.
* **`Handlers_proofs`**. Web surface: `SessionsStayBounded`, `StatusAdvances`,
  `SocketsEndSessions`, `RateStaysBounded`. The invariant is the shape of the state, that a request has
  read an instant of the past, and that only drawn ids are in use: the clean-up
  with an old instant keeps more sessions than it should, never fewer, so the
  count under the lock is an upper bound of the usable ones. For the rate,
  every window is in one of two states (`RateInv`): either no creation in it was
  cleaned up yet, and the limit holds exactly (`Counted`), or it is over, and what was
  created in it and the requests that read the clock in it and still wait are
  together within the bound (`Overtaken`). Shell: `OutputStaysBounded`; the shared count is the sum of what
  the two readers hold, and a reader whose exchange follows a stale load does not
  get through, which is why the budget needs no lock. Proxy: `PolicyCoversBlocks`, that an
  address that passes the policy is in none of the reserved blocks, mapped addresses
  included, and `PermitsReturned`, `ChainsStaySafe`, `BudgetsHold`,
  `PinsStayApproved`. The last is about the addresses that are kept for a connection, which
  for TCP and WebSocket are the ones connected; it claims nothing of what an HTTP client
  reaches under another spelling of the host. The invariant `ProxyInv`: where a stream stands fits its kind,
  and it is on an address it was given (`Placed`); every address kept from a lookup was
  checked (`Pinned`); its counters run ahead of the octets that passed (`WithinBudget`);
  its chain of redirects is safe so far; permits and the streams that hold one add up.
* **`Storage_proofs`**. Vault: `LastPutReturned`. State files: `IdentityStaysWhole`,
  `RegistryStaysWhole`, `DevicesLostThreeWays`; whatever can still become the identity file
  is already synced (`IdentitySafe`), a registry is renamed only once it is written
  (`DraftsReady`), and as long as nothing excuses a loss, what was saved is in the file
  or in what the one save between its two calls has loaded (`SavedSomewhere`). Files:
  `UploadsPublishedWhole`, `GoneForAReason`, and `SlicesInBounds`, that the panic of
  `storage_panic` needs a file that was replaced; an upload past its flush is
  complete, and where an operation stands fits the call it made last, also when that
  call still runs (`OpSound`). Object store: `RevisionsComplete`, `EditsNotLost`,
  `IndexComplete`; row, index entry and revisions of an object belong together
  (`ObjectSound`), and a transaction that is not stale holds the latest revision
  (`TxSound`).

A theorem that states a property of a run names it in `PROJECT.json`. The others
(`RegistryTypeCorrect`, `TypeCorrect`, `ControlStreamSafe`, `StreamsAccounted`,
`EntriesKept`, `LimitSafe`, `StreamsSafe`, `StatusAdvances`, `PeerTypeCorrect`,
`PolicyCoversBlocks`, `MessagesRoundTrip`, `RegistriesCorrespond`, `DevicesLostThreeWays`,
`SlicesInBounds`) are proved and not checked again by a run.

Only model-checked:

* what must eventually happen (`HandshakesDecide`, `OperationsEnd`, `SocketsDecide`,
  `NobodyHangs`, `RunEnds`, `ConnectedCallsReturn`): the prover has no rules for fairness;
* `AllocatorIsCyclicFirstFit`, whose reference is a recursive loop over the ids: that the
  loop stops at the first free id is an induction over the ids it has tried, which the
  prover cannot be given.

`DownloadIntact`, `CommandsReport`, `IdleSessionKept`, `OnlyPinnedConnections`, `NoPanic`
and `SaveIsAtomic` of the violation runs are not proved because the code does not have
them.

## Not modelled

* The pairing protocol (`src/protocol/pairing.rs`): hashing, code derivation and
  message structs. Nothing in the repository runs the exchange, so there is no state
  and no step to model.
* The byte layout of SWSP frames: a data channel carries whole messages, so the
  incremental decoder never sees part of a frame. Fields, flags and the payload limit
  are in `RemoteStreams`.
* Calls that only read: `search` of the object store, `list` and `stat` of directories,
  `inspect` of the vault, GET of the web surface. `bind_app` refuses every call.
* Code without a caller outside tests: the byte counters of a session,
  `send_shell_input`, `send_shell_resize`, `send_shell_cancel`, the in-process peer
  harness; the error path of `SessionRuntime::new`, which the PIN check before it makes
  unreachable.
* WebRTC, TLS and WebSocket framing, SQLite, RSA, PEM and other key encodings
  (libraries); the header, origin and size checks of the web surface, which refuse a
  request before it reaches the table; HTTP headers and redaction in the proxy.
* Discovery and telemetry, which change nothing other parts read; argument parsing,
  QR codes, error texts and generated code.
