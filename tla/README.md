# TLA+ specification of tss-snap

This directory specifies the threshold-signature system of this repository: the
relay server in `library/`, the client library in `packages/client/` and the
parts of the dapp in `snap/dapp/` that drive them. Paths below are relative to
the repository; `server.rs` is `library/src/server.rs`, `services.rs` is
`library/src/services.rs`.

The system lets `n` parties generate a shared ECDSA key and any `t + 1` of them
sign with it. The cryptographic state machines run in WebAssembly in each
party's browser. Their messages go through a websocket server that holds groups
and sessions in memory, tells the parties when a session is complete, and then
relays messages between them.

## Inventory

| Component | State | Operations | Hard behaviour | What makes it correct |
|---|---|---|---|---|
| Relay server (`server.rs`, `services.rs`) | `State`: clients, groups, sessions of a group, signups, participants, finished parties; per connection task the pending notification | nine JSON-RPC methods, connect, disconnect, notify | a handler, its response and its notification are three critical sections of one lock; disconnection is two | no overfull group, party numbers that repeat only where methods are mixed, a session announced once, to its parties, when it is complete; nothing left behind by a closed connection |
| State lock (`server.rs` `rpc_notify`) | a fair read-write lock and its queue | read, nested read, write | a reader that waits behind a writer that waits for the reader | somebody can always go on |
| Connection sender (`server.rs` `client_connected`) | the outgoing channel, `close_flag` | push, send, close | the flag is set after the message that should be the last was queued | a refused client gets its answer, then is closed |
| Round-based computation (`round-based.ts`, `transports/websocket.ts`, `keygen.ts`) | current round, messages received per round | transition, send, wait, take, finalize | parties at different speeds, messages of a later round first, a party that disconnects | every round gets exactly one message of every other party, no party is two rounds ahead |
| Signing (`sign.ts`) | participants, party index, server-side index table | participants round, `Session.participant`, offline rounds, partial signature | peer messages to a party that has not registered its index; one loader too many | every peer message is resolved, to the right party |
| RPC client (`clients/websocket.ts`) | socket, `connected`, queue, pending requests | connect, notify, rpc, open, close, message | handlers of a replaced socket, requests lost on close | a response settles its own request, once |
| Key share store (`store/*.ts`, `snap.js`) | the snap state, loaded and saved as a whole | save and delete of key shares, proofs, receipts; import | two load-change-save sequences interleaved | no update is lost |
| Dapp flow (`group-session.ts`, `keys/**`) | the open wizard and its page; group, session, transport, candidate and signature in the store; listeners on the socket | create, join, approve, load, start on the ready event, leave a page | an event before its listener, a listener with an old closure, a computation that outlives its page | a computation starts with one complete session, nobody signs unapproved, no page shows another session's signature |
| Key list and forms (`store/keys.ts`, `set-parameters.tsx`) | none | `groupKeys`, parameter limits | | every share listed once under its address |
| WebAssembly wrappers (`packages/wasm`, `snap/wasm`), CLI, views | | | | not modelled, see below |

The components meet at three places. A client calls the server with
`WebSocketClient.rpc` and gets one response on the same socket; the server pushes
events (`sessionCreate`, `sessionSignup`, `sessionLoad`, `sessionMessage`,
`sessionClosed`) to sockets without being asked; and the dapp passes a stream and
a sink, both on top of the one socket, to the round-based computation. Nothing on
the server is persisted: a restart forgets every group. The snap state is the only
thing that outlives a page.

`PROJECT.json` lists the components with their sources, and under `hazards` every
line at which one of the behaviours above bites.

## Modules

| Module | What it is |
|---|---|
| `MpcServer` | the server: its state, one action per handler outcome and per step of a connection task |
| `MCMpcServer` | instances of it for TLC |
| `MpcServerProofs` | theorems about it, proved with TLAPS |
| `StateLock` | the server's read-write lock and the tasks that take it |
| `RoundBarrier` | what a round-based computation promises: nobody leaves a round before everybody entered it |
| `RoundSession` | the parties of one session, their sinks and the relay: implements `RoundBarrier` |
| `MCRoundSession` | instances of it for TLC |
| `RoundSessionProofs` | theorems about it, the implementation of the barrier among them, and one about the barrier |
| `SignSession` | a signing session, with peers addressed by position: implements `RoundSession` |
| `MCSignSession` | instances of it for TLC |
| `SignSessionProofs` | theorems about it, that it implements `RoundSession` among them |
| `RpcClient` | the client's calls over a socket that is opened again when it was lost |
| `RpcClientProofs` | theorems about it |
| `DappSession` | what all pages of the dapp share: the session slice, listeners, calls, and the server as clients see it |
| `KeygenPages` | the pages that create and join a key, over `DappSession` |
| `SignPages` | the pages that sign a message or a transaction, over `KeygenPages` |
| `DappFlow` | several dapps and their users: the specification and its properties |
| `MCDappFlow` | instances of it for TLC |
| `DappFlowProofs` | theorems about `DappFlow`: each dapp by itself |
| `DappGroupProofs` | theorems about it: what the dapps know of a group and of each other |
| `DappReadyProofs` | theorems about it: a session becomes ready once, who computes then, and where the round messages are |
| `AtomicStore` | what the dapp's store promises: an update changes one item and leaves the others alone |
| `SnapStore` | the snap and the thunks that load, change and save all of its state: implements `AtomicStore` while updates do not overlap |
| `MCSnapStore` | instances of it for TLC |
| `SnapStoreProofs` | theorems about it, the implementation of the atomic store among them |

Two chains of refinement: `SignSession` implements `RoundSession`, which implements
`RoundBarrier`; and `SnapStore` implements `AtomicStore`. All three links are proved. `DappFlow` has the server and
the rounds in the small and is about what happens around them.

### MpcServer

State. `clients`, `groups` and `sessions` are the three maps of `State`; a session
carries the group it is in instead of being nested in it, and goes when its group
goes. `issued` holds the identifiers handed out by `Uuid::new_v4`, so that a
removed one is not used again. `phase`, `notification` and `empty_groups` are the
local state of the connection tasks: what a task does next, the notification that
`rpc_request` keeps in its mutex, and the vector of `client_disconnected`. `sent`
is the set of events pushed to connections' channels, and `again` are the ready events
among them that were pushed to one connection more than once.

Steps. A task serves one request at a time:

    new -> idle -> respond -> [notify] -> idle
                              notify -> blocked
           idle -> prune -> gone

A handler holds the state lock from its first look at the state to its last write,
so a handler is one action, error paths included (`...Refused`, which all come
down to `Refuse`: an error response and no change). `Respond`, `Notify`,
`ClientDisconnected` and `PruneGroups` are the other critical sections. Steps of
other tasks fall between any two of them. In particular the recipients of a
notification are looked up in `Notify`, with the state of that moment, as
`rpc_notify` does, except those of a relayed message, which the handler resolves.
They are a list (`Entries`), with an entry for every signup: a connection that signed up
to a session twice is pushed its ready event twice.

`rpc_notify` asks for the lock again for each entry while it holds it
(`server.rs:539,597`). When another task asked to write in between, both wait for ever,
which `StateLock` shows. Here that is `NotifyBlocked`: the notification was pushed to
the entries before some place, the task is `"blocked"`, and nobody gets the lock any
more. `Next` gives every step but this one the guard `LockFree`. (A handler of
`Session.message` that reads would still run if nobody had asked to write; but somebody
did.)

Left out: labels, session values and message bodies (no condition depends on
them), the response itself, unknown methods and messages that do not parse (no
effect). A signup or load is announced by the kind the caller passes, as in the code;
`Claim` makes it the kind the session was created
with, as every call in `packages/client` and `snap/dapp` has it. A party number is
a natural number; `u16` would wrap only after 65535 signups to one session. A
refused join leaves the connection open; closing it is a later disconnection,
which may happen at any time anyway.

Constants. `Methods` says which of `Session.signup`, `Session.load`,
`Session.participant`, `Session.finish` and `Session.message` clients call in each kind
of session, so that a run carries only what its properties depend on. The dapp signs up
for key generation and loads for signing (`group-session.ts`), which is `DappMethods`.
The server accepts both on any session, and then does not keep the numbers unique:
after load 2 and load 1 the next signup is 2 again, because `Session::signup` continues
from the last entry. `PartyNumbersUnique` states what the code does keep, with both
methods in any order: loads are in range and new, and a number is issued again only by a
signup that follows a load. Without a load in the session all numbers are distinct, and
without a signup too. Bounds: `MaxParties` (party
numbers and indices in requests) and `MaxSignups` (signups of one session).

### RoundBarrier and RoundSession

`RoundBarrier` is the abstract specification: `at` says in which round each party
is, and `Advance` needs every party to have entered the round that is left.

`RoundSession` is the code that keeps this promise without ever looking at another
party's round. It takes over where `MpcServer` ends: the session is complete, every
party has its `WebSocketSink` (`prepareTransport` runs before the ready event can
be handled), and the computation may start.

| In the model | In the code |
|---|---|
| `at[p]` | `currentRound + 1`; 0 before `start()`, `Rounds + 1` in the finalizer |
| `outgoing[p]`, `request[p]` | the `for` loop over the messages of a transition, and the `Session.message` call it awaits |
| `relay[p]` | the rest of the loop in `rpc_notify`, in the task of `p`'s connection |
| `wire` | what was pushed to the receivers' sockets |
| `sink[p][r]` | the sink's `rounds` map: who the messages of round `r` came from |
| `taken[p][r]` | what `take(r)` handed to `handleIncoming` |
| `refused` | messages `receiveMessage` threw on |
| `blocked` | a task of the server waits for ever for the lock it holds |

A message is the set of its deliveries, one for a peer message and one for every
other party for a broadcast. `Messages` says what a transition returns: a broadcast,
or in a round of `PeerRounds` one message per peer. Key generation has four rounds
of which the third is a peer round; the rounds of `sign.ts` have the same shape.

`Send` waits for the previous response, `Respond` for the task's previous
notification (a connection task serves one request at a time), `Push` goes to one
receiver at a time, and `Take` is the turn of `waitForRound`'s timer that finds the
round ready, with the transition that follows. Deliveries reach the sinks in any
order. A websocket keeps the order of one receiver's frames, so this allows more
than the code does and the theorems do not depend on that order. `Disconnect` may
happen at any time: the request that was being sent is read by the server or lost,
and later deliveries to the party go nowhere, while its signup stays. `Block` may happen
while any notification is being sent: a party that is through disconnects, or another
group's client makes a request, and the nested read of `rpc_notify` waits behind it for
ever. The server answers and pushes nothing after that; what is on the wire still arrives.

Left out: message bodies, errors of the cryptography (a state machine that rejects
its inputs stops its party, which is `Disconnect` for the others), and sinks of
other sessions, so the session identifier in a message always matches.

### SignSession

`sign.ts` runs three `RoundBased` computations over one sink: `getParticipants`
(one broadcast), the offline stage, and `partialSignature` (one broadcast).
`SignSession` extends `RoundSession` with what is between them.

| In the model | In the code |
|---|---|
| `number[p]` | `partySignup.number`, which is the index `localKey.i` of the key share |
| `PositionOf(p, q)` | the place of `q` in the sorted list of `getParticipants` |
| `participants` | the server's `Session.participants`, from positions to party numbers |
| `Register` | the awaited `Session.participant`, between round 1 and the offline stage |
| `SignRespond` | `Session.message`: the receiver of a peer message is a position, resolved to a party number and that to a connection; an unknown one is `BadPeerReceiver` |
| `failed` | parties whose `sign()` ended with that error |
| `ended` | parties that called `removeAllListeners("sessionMessage")` |

`RoundsSpec` says that this is a computation of `RoundSession`, so what is proved of
`RoundSession` holds of signing: the detour over positions and numbers changes no
receiver. `PeersResolve` is the reason: a party addresses a position only in the
third round, when every other party has sent a message of the offline stage, and so has
registered before.

### RpcClient

The sockets a `WebSocketClient` ever had, its queue and its `messageRequests`. A
request carries its call and its id, and is on its way to the server (`sent[k]`), or
its response is on its way back (`replies[k]`). `Closed` is the close handler, which
knows no socket: it clears `connected` whichever socket is current. `Opened` sends
the queue by the current socket, for the same reason. A socket may be lost at any
time while it connects, while it is open, or after a closing handshake, during which
`send` drops its data without an error. History: `made`, `given` (calls in the order
they were given to a socket), `settled`, `lost`.

`OneConnection` is why the late handler does no harm: `connect()` makes a new socket
only when `connected` is false and the current one is not connecting, which means that
the current one has been closed. `Settles` states what the code promises and what it
does not: a call sent on a connection that is lost is settled by nobody, and one that
waits for a socket that could not be opened waits for the next call. That the server
answers what it gets is an assumption about the environment here, and holds while the
server's lock is not stuck (`state_lock`); a stuck one looks to the client like a
connection on which no response comes.

### DappSession, KeygenPages, SignPages, DappFlow

An app is its wizard (`"create"` or `"join"`) with the page it shows, the session
slice, and the listeners on its socket:

| In the model | In the code |
|---|---|
| `wizard`, `step`, `target`, `form`, `ready` | the route and the state of the steppers and their pages; `ready` is what the page waits for (the fetched session, the approval, the transaction hash) |
| `visit` | which mount of a wizard this is, so that a `setState` of an old one does nothing |
| `group`, `session`, `number`, `transport`, `candidate`, `proof` | `store/session.ts` |
| `once` | the `sessionSignup` listeners of the keygen pages |
| `signer` | the `sessionLoad` listener of the last render of `Signer` |
| `sinks`, `inbox` | the `sessionMessage` listeners of the sinks, in the order they were added, and their messages |
| `timers`, `jobs` | the one-second delays of the joining pages, and `generateKeyShare` or `sign` under way |
| `calls`, `frames`, `task` | requests the server has not handled, what the socket has still to deliver (answers and events in one order), and the notification a connection task owes |
| `conn` | the connection: `"open"`; `"flagged"`, `close_flag` is set and the sender task will look at it after the next frame; `"closing"`, it has closed the socket; `"closed"`, `client_disconnected` has run |

An async function such as `createGroupSession` lives in the call it awaits: the record
of the call says which function and which visit it belongs to, comes back in the
answer, and the next step of the function is taken when the client reads it. Between
two awaits the code is one step, since promise continuations run before the next
message event of the socket. `Render` after a change of the slice stands for the
re-render of `Signer`, which renews its listener. `Unmount` runs the cleanup of
`ListenerCleanup`, and keeps the slice, the calls, timers and computations.

A group and its only session have one identifier. The rounds are one broadcast of every
party here, with the sink of the session that `transport` names. The snap answers at
once, and a snap that rejects (`findKeyShare`) is left out. The server's requests and notifications are
those of `MpcServer`.

A client that is refused a full group (`GroupFull`) gets its answer and is closed. The
flag is set after the answer was queued, so the sender task looks at it after this frame
or after the next one (`Serve` chooses). From then on frames to the client are dropped
(`Cut`), the requests it had sent are still handled, and `ClientDisconnected` takes it
out of its groups: `Clients(s)` are the members whose connection is not closed, their
places are free again, and their signups stay. A group without clients is gone at once;
the gap between the two write sections is `MpcServer`'s (`server_prune_race`). The
sender task is taken to be done with earlier frames when the flag is set. A client whose
connection was closed opens no further wizard: `RpcClient` has the reconnection, after
which the server sees a new client. Connections are lost in no other way here.

### StateLock

tokio's `RwLock` as a line of requests: the first in the line is granted as soon as
the guards that are held allow it, and nobody passes it. Each connection task asks and
drops as the code does: a request (read for `Session.message`, write otherwise), the
read of `rpc_response`, the read of `rpc_notify`, which stays while `rpc_response`
reads for each receiver, and the writes of `client_connected` (one) and
`client_disconnected` (two).

### AtomicStore and SnapStore

The snap holds one `AppState` for all pages. A thunk that saves or deletes loads it,
changes its copy, saves the copy, loads again for the payload of its fulfilled
action, and is settled. Each request is a step, taken when the snap answers it:

    idle -> load -> save -> reload -> settle -> idle
    idle -> find -> load ...                            (import)
    idle -> reload -> settle -> idle                    (a load)

and any request may be rejected instead, which ends the thunk. `snap` is what
`snap_manageState` holds, `Null` before the first save; `copy[t]` is the `appState`
of a thunk, later its payload; `shown` the slices of each page's redux store; and
`saved` is a history variable: the items whose save or import was fulfilled, as
long as no later update of them started. The arrays of `AppState` are counted: `[Item -> Nat]`
says how many entries of an item there are, because the Save button may be pressed
twice for one share, and a delete filters out all of them. What is left out is the
content of the entries, their order, and the grouping of the listed keys.

The code does not keep two updates from overlapping, within a page or between
pages: the Save buttons stay enabled, and the proof is saved without waiting for it.
The pages report success of a rejected update, too (`dispatch` resolves in either case); no
variable says what a page reports, and `saved` is about fulfilled ones.
`Overlap` says whether users do that; the specification without overlaps is the use
that the comment at `store/keys.ts:98` has in mind, and the run with overlaps shows
what happens otherwise. Loads overlap in either case. With overlaps an update can be
lost, a deleted share can come back with the copy another thunk loaded before, and two
imports of one share, each between `findKeyShare` and `saveKey` of the other, store it
twice. The first is what `store_overlap` shows; the properties of `store_atomic` say
nothing about the three of them, because there no update falls into another.

## Runs

| Run | Instance | Shows |
|---|---|---|
| `server_safety` | 3 connections, one group of 2 parties or the parameters `Group.create` refuses, a session of either kind, up to 3 signups, participants and messages; signups and loads mixed in key generation, loads in signing | `TypeOK`, `GroupCapacity`, `MembersConnected`, `PartyNumbersUnique`, `ReadyWhenTold`, `AnnouncedOnce`, `SessionIsolation` |
| `server_live` | 3 connections, 2 parties, both kinds, 3 signups, signups and loads mixed in signing, `Session.finish`, weak fairness while the lock is not stuck | `ReadyIsTold`, `EmptyGroupsGo` |
| `server_prune_race` | 2 connections | violates `OnlyEmptyGroupsPruned` |
| `server_dead_signups` | 3 connections, 2 parties | violates `AnnouncedToEnough` |
| `round_session` | 3 parties, 2 rounds, the first a peer round, weak fairness | `TypeOK`, `RoundInputs`, `NothingRefused`, `SinkAhead`, `Lockstep`, the barrier `BarrierSpec`, and `Completes` |
| `sign_session` | 3 parties with any of the numbers 1, 2, 4, 3 rounds, the third a peer round | `SignTypeOK`, `PeersResolve`, `EndQuiet`, and the rounds, `RoundsSpec` |
| `dapp_flow` | 3 dapps, all three kinds, 2 sessions, up to 2 visits each (`Visits`), weak fairness | `TypeOK`, `ComputeReady`, `MessagesHeard`, `NoSurplus`, `OneSink`, `OnlyApproved`, `ProofOfSession`, `ParametersAccepted`, `Completes` |
| `dapp_stale_proof` | the same, messages only, users that leave at any time | violates `ProofOfSession` |
| `rpc_client` | 6 calls, 4 sockets, weak fairness | `TypeOK`, `OneConnection`, `CallOrder`, `OwnAnswer`, `Settles` |
| `state_lock` | 2 connections, notifications to at most 2, weak fairness | violates `NotificationSent` |
| `store_atomic` | 2 thunks of a page, an item of each slice, the key share stored up to twice, no overlap | `TypeOK`, `SavedStay`, `ReadYourWrites`, and the atomic store, `AtomicSpec` |
| `store_overlap` | 2 pages, each saving a key share | violates `SavedStay` |

Bounds. In the server's runs three connections and a group of two leave one
connection over when the group is full, and let a party leave and another take its
place; three signups are one more than any session of two asks for, so signups past
the threshold happen. One group and one session are enough for properties that speak
of one group or session at a time and of a notification that outlives it: two groups
do not share state except the clients. The theorems below are for all bounds.

Three parties are the smallest session in which a party waits for two others that
are themselves at different rounds, and in which a broadcast is not a peer message.
Two rounds make messages of the next round arrive in this one, and have a peer round
and a broadcast. A signing session has the three rounds that differ: the participants,
a broadcast of the offline stage, and peer messages, which are also the last round, so
that `EndQuiet` is about them; the numbers 1, 2, 4 have a gap and can arrive in any
order. `ClosingRounds` lets connections close in the second round only, when a party
that has or has not registered may go; this bounds the state space, and the theorems
about `RoundSession` have disconnections at any time.

In `dapp_flow` two sessions and two visits let the listeners, slice and calls of one
wizard meet those of the next. A new key is one of two parties, made by the first dapp,
twice (`Sizes`), and the other two follow a link each: the group is full for one of them,
which is refused and closed while the others go on. `Key` is a key of three parties of whom two sign, and
the second dapp holds two shares, one of which the first one also has, so that a load
is refused. Two dapps sign; a third one could load its number in a
session that is already complete, and nothing in the code keeps it from signing (the hazards
at `services.rs:668` and `server.rs:565`). The properties name that exception, `TooMany`.
A new key has a party too many only when a member of its group lost its connection and
another one took its place, with the old signup still there; `KeyFits` says so, and
`TooMany` exempts a keygen session in that case only. `MaxParties` is the right end of the sliders. One
submission at a time (`~ Pending`) stands for a user who does not press a button
again before its call has answered. `Patient` says that users leave no page while a timer, a call
or a computation of it is under way, and follow no link of a group they are in; the
code does not enforce it, and `dapp_stale_proof` shows what happens otherwise.

Six calls and four sockets let calls wait in the queue, be answered and be lost on a
socket, and be made again over a third and fourth one. An item of each slice is enough to see
whether an update of one slice disturbs another, which is where the code differs
between slices; an update of one item treats all the others alike. Two thunks are an
update with a load beside it, or two updates where overlaps are allowed. `MaxEntries`
bounds how often an item is stored.

Deadlock is not checked where an instance may stop: connections are never reused, a
computation ends, users of the dapp come to their last visit, and the last call is
settled or lost. In `StateLock` the deadlock is what the run's property shows.

Fairness. In `MpcServer` it is weak fairness of `TaskStep` for each connection while the lock is free (`LockFree`): once a
task has a response or a notification to send, or a group to prune, tokio polls it
again and it finishes, unless some task is stuck in its notification. `NotifyBlocked` may
happen whenever the code allows it, and the two properties promise nothing after it; so
they say what the server does up to the deadlock of `state_lock`, and on every
execution without it. Nothing is assumed of users: no request, connection or
disconnection ever has to happen. In `RoundSession` it is weak fairness of
each party's own steps (a promise that is settled, a timer that fires every 50 ms,
`start()` once the ready event was delivered), of the server's two steps for each
connection while it is not `blocked`, and of each delivery on an open socket. `Disconnect` never has to
happen, and `Completes` promises nothing when it does before the party is through, nor
once the server is `blocked`.
In `DappFlow` it is weak fairness of `System(c)`, everything that happens without a
user: server tasks, frames, promises, timers. `Completes` promises nothing for a
session of which a party left its page or lost its connection. `DappFlow` leaves the
deadlock of the lock out: its server tasks always go on. So `Completes` also
promises nothing once the deadlock is possible, when a task is about to write while
another one sends a notification (`Contended`). The parties of a complete session do
not write while they compute, their messages only read; it takes a third dapp that joins or is
closed, or a party that is through and opens the next wizard while two others still
exchange messages. In `RpcClient` a socket that connects or closes comes
to an end of it, the server handles what it gets (while its lock is not stuck), and an open socket delivers; a
socket need not ever open, nor close. In `StateLock` every task that has its guard goes on, and
the lock grants what it can. `SnapStore` and `SignSession` have safety properties only.

Disagreements with the comments:

- `OnlyEmptyGroupsPruned`. The second section of `client_disconnected` removes the
  groups the first one flagged without looking at them again. A client that joins
  in between is answered with a group that is removed under it, with its sessions.
- `AnnouncedToEnough`. A signup outlives its connection (the `FIXME` at
  `server.rs:613`), so the ready event can be sent when fewer connected parties
  are signed up than `services.rs:57` says. The property asks only for signups of
  distinct connections, so that a client that signs up twice does not count.
- `SavedStay`. `store/keys.ts:106` says that saving by hand prevents the race of two
  parties that persist their key shares. It makes it less likely: two Save buttons
  pressed in two pages before the first thunk is done lose the share that was
  reported as saved first. While updates do not overlap the property holds.
- `ProofOfSession`. The signing wizards clear the signature of an earlier session when
  they are opened ("Clear any previous signature data", `keys/sign/message/index.tsx:67`).
  A computation that was under way when its wizard was left goes on, and its signature
  is stored after that: the new wizard passes over its compute page and shows the
  old signature as that of the new message. With `Patient` users the property holds.
- `NotificationSent`. `rpc_notify` reads the state for each receiver while it holds a
  read guard. If another task asks to write in between, the second read waits behind
  the writer, and nobody goes on, although the comment says that the notification is
  sent to all clients in the session.

## Theorems

`MpcServerProofs` proves, for every finite set of connections, every set of
identifiers and parameters, every bound and every `Methods`:

| Theorem | States |
|---|---|
| `TypeCorrect` | `Spec => []TypeOK` |
| `CapacityHolds` | `Spec => []GroupCapacity` |
| `MembersHold` | `Spec => []MembersConnected` |
| `ReadyInvHolds` | `Spec => []ReadyInv`, the inductive invariant of the next two |
| `ReadyHolds` | `Spec => []ReadyWhenTold` |
| `OnceHolds` | `Spec => []AnnouncedOnce` |
| `IsolationHolds` | `Spec => []SessionIsolation` |
| `NumbersHold` | `Spec => []PartyNumbersUnique` |

The assumptions are those of the module: `ConnAssumption`, `ParamsAssumption`,
`BoundAssumption`, `MethodsAssumption`.

Argument. `NextSteps` reduces `Next` to fifteen kinds of step, all refusals being
one, and every preservation lemma has a case for each kind. `GroupCapacity` is
inductive given the types: a join is refused at exactly `parties` clients, and a
list that is not longer than `parties` and not equal to it has room for one more.
`MembersConnected` needs `GroupCapacity`, because a connection is removed from a
client list once, which is enough only if it is in it once.

`ReadyWhenTold` and `AnnouncedOnce` are not inductive. `ReadyInv` adds that
identifiers in use were issued (`SessionInv`), so that a new session has no
leftover notification, and that a ready event which is still to be sent already
has the signups it announces (`PendingReady`). Then a claim that reaches the number asked
for finds fewer signups before it, so nothing is pending and nothing was sent; and
since signups only grow and a group keeps its parameters, what is true when the
event is made is true when it is sent. No step in between needs to be excluded. A
notification that gets stuck has pushed to some of its entries, which changes nothing
in this. For the second push of an event (`again`): one notification sends it, nobody was
sent it before, so it went to two entries of one list, which are two signups.

`SessionIsolation` follows from `RouteInv`, by which a relayed message that is still
to be sent is addressed to a connection that signed up, and signups are never
removed. `PartyNumbersUnique` follows from `NumberInv` (`Numbered`): each entry of the
list is a signup with its place as number, after entries of which the same is true; or a
signup after some load, of which nothing is claimed; or a load of a number in range that
was not there.

`RoundSessionProofs` proves, for every finite set of at least two parties, every
number of rounds and every set of peer rounds, with disconnections at any time:

| Theorem | States |
|---|---|
| `TypeCorrect` | `Spec => []TypeOK` |
| `IInvHolds` | `Spec => []IInv`, the inductive invariant of the others |
| `InputsHold` | `Spec => []RoundInputs` |
| `NothingRefusedHolds` | `Spec => []NothingRefused` |
| `SinkAheadHolds` | `Spec => []SinkAhead` |
| `LockstepHolds` | `Spec => []Lockstep` |
| `BarrierImplemented` | `Spec => BarrierSpec`: every step is a step of `RoundBarrier` or a stutter |
| `BarrierLockstep` | `Barrier!Spec => []Barrier!Lockstep`, of the abstract barrier alone |

Argument. A sink only counts, so `RoundInputs` needs to know that what it counts
are different senders. `IInv` follows a delivery through its life: it is in one
place at most (`OnePlace`), so it arrives once and a sink's list has no repetition
(`SinkOnce`); a list without repetition that is as long as the number of other
parties holds all of them (`FullSink`, by counting). Whoever takes round `r` has
therefore heard from every other party, each of which has begun round `r` (`Begun`):
that is the guard of `RoundBarrier`'s `Advance`, and it keeps the parties in
lockstep. It also means that nothing of round `r` addressed to that party is left
anywhere (`Over`), so no late message can bring a taken round back, and one that
arrives finds its round not yet full.

`SnapStoreProofs` proves, for every set of thunks, pages and items:

| Theorem | States |
|---|---|
| `TypeCorrect` | `Spec => []TypeOK`, with overlaps or without |
| `SavedStayHolds` | `Spec => []SavedStay` |
| `ReadYourWritesHolds` | `Spec => ReadYourWrites` |
| `AtomicImplemented` | `Spec => AtomicSpec`: a save of the whole state adds or removes one item, every other request stutters |

all but the first assuming `~ Overlap`. Argument: at most one update is under way
(`OneUpdate`), so the copy it is about to save is the stored state with its own
change (`CopyCurrent`); after the save the outcome stays until it is settled
(`OutcomeStays`), and an item whose update has begun does not count as saved
(`SavedRight`), which is what lets the save change it.

`SignSessionProofs` proves, for every finite set of at least two parties, every set of
party numbers, every number of rounds and every set of peer rounds that come after the
second round (`PeersLate`):

| Theorem | States |
|---|---|
| `SignIInvHolds` | `SignSpec => []SignIInv`, the inductive invariant of the others |
| `SignTypeCorrect` | `SignSpec => []SignTypeOK` |
| `PeersResolveHolds` | `SignSpec => []PeersResolve` |
| `EndQuietHolds` | `SignSpec => []EndQuiet` |
| `RoundsImplemented` | `SignSpec => RoundsSpec`: every step is a step of `RoundSession` or a stutter |
| `SignInputsHold` | `SignSpec => []RoundInputs` |

Argument. Who has taken round 1 has the number of every other party (`RoundInputs` of
`RoundSession`), so all parties sort the same list, and a position is a rank in it
(`RankProperties`). A party sends nothing of a later round before its
`Session.participant` was answered (`Withheld`, `SentRegistered`); who has taken round 2
has heard from all, so all are registered (`AllRegistered`), under the rank the others use
(`Placed`). Positions are used only after that, so the server resolves each to the peer that
was meant, and the step is the one `RoundSession` takes without the detour. `IInv` of
`RoundSession` is part of `SignIInv`, and its lemmas are used as they are.

`RpcClientProofs` proves, for every number of calls and of sockets:

| Theorem | States |
|---|---|
| `IInvHolds` | `Spec => []IInv`, the inductive invariant of the others |
| `TypeCorrect` | `Spec => []TypeOK` |
| `OneConnectionHolds` | `Spec => []OneConnection` |
| `CallOrderHolds` | `Spec => []CallOrder` |
| `OwnAnswerHolds` | `Spec => []OwnAnswer` |
| `NoneForgottenHolds` | `Spec => []NoneForgotten`: a call is settled, lost, queued or on the client's socket |
| `SettledOnceHolds` | `Spec => []SettledOnce`: the promise of a settled call is out of the cache |

Argument. A socket that is not connected carries nothing (`Quiet`), so only one socket
matters at a time. Its responses, its requests and the queue, in this order, are one
ascending sequence of calls (`InOrder`), each with the id it was made with and with its
promise in the cache (`Pending`); what was given before is less than all of it
(`GivenInOrder`). Draining the queue into a new socket and losing a socket both keep
this. `NoneForgotten` is the safety half of `Settles`.

`DappFlowProofs`, `DappGroupProofs` and `DappReadyProofs` prove, for every finite set of clients,
every set of kinds, every valid key, every way to hold its shares and all bounds, with `Patient` users:

| Theorem | States |
|---|---|
| `FlowInvHolds` | `Spec => []FlowInv`, the invariant of each dapp by itself |
| `TypeCorrect` | `Spec => []TypeOK`, of the dapps, the server, and every call, task, frame, timer, computation and message under way |
| `OneSinkHolds` | `Spec => []OneSink` |
| `ParametersAcceptedHolds` | `Spec => []ParametersAccepted` |
| `OwnerInvHolds` | `Spec => [](FlowInv /\ OwnerInv)`, with the invariant of the groups |
| `OnlyApprovedHolds` | `Spec => []OnlyApproved` |
| `ReadyInvHolds` | `Spec => [](FlowInv /\ OwnerInv /\ ReadyInv)`, with the invariant of the ready event |
| `KeyFits` | the session of a new key has no party too many while `Clients(s) = server[s].members`, that is, while no member of its group lost its connection |
| `ComputeReadyHolds` | `Spec => []ComputeReady` |
| `ProofOfSessionHolds` | `Spec => []ProofOfSession` |
| `MessageInvHolds` | `Spec => [](FlowInv /\ OwnerInv /\ ReadyInv /\ MessageInv)`, with the invariant of the round messages |
| `MessagesHeardHolds` | `Spec => []MessagesHeard` |
| `NoSurplusHolds` | `Spec => []NoSurplus` |

The assumptions are `ClientAssumption`, `BoundsAssumption`, `SharesAssumption`,
`KeyAssumption` and `MaxPartiesAssumption`. `Patient` is a hypothesis of each theorem, as
in the run: without it a page that was left is answered all the same, which is what
`dapp_stale_proof` shows.

Argument. The pages are many, and none looks at more than its own state; the reason
they work is that a page awaits one timer or one call at a time (`Alone`), which the page
that is on the screen started (`TalkOnPage`, `TimerOnPage`) before it made a sink or a
listener. So an answer always finds the page that asked, and `prepareTransport` a socket
without sink. `Page` and `Computing` say what each page may have in its state.
`OwnerInv` relates the dapps: until the link of a group is copied its creator is the only
member (`Private`), and the creator's requests are the only ones that can change it
(`Sole`), so they are never refused (`CreatorAccepted`), the creator is the first to sign
up, and it is the only party when the link is copied. The page that shows the link is shown after the
approval, and the joining page loads a number after its approval. A ready event needs two
signups, hence somebody who followed a link: sessions that compute are sessions with a
copied link, and all of their parties have approved.

`ReadyInv` follows the ready event of a session. The signup that makes the session complete
is the only one whose answer brings the event (`ServedComplete`), so it is owed by one
connection task; for each party it is then owed, on its way, or read, one after the other
and never two of them (`OnceInv`): a party has at most one computation of a session, also
after it has left and come back. A later signup cannot make it complete again,
which is why `Complete` says "at least" and `ComputeReady` allows `TooMany`. The other half
is what a page knows when it reads the event (`Knows`): its sink, its number and its sign
candidate are those of the session the server answered with, because the answer to the
signup, the sink and the listener come in this order (`SignedUpFrame`, `Hears`). A proof on
the page is then one of this session (`KnowsValue`), for the wizards clear the proof of
an earlier one when they open; a computation that outlives its page would store its own
after that, which is where `Patient` is needed.

`KeyFits` rests on `FitInv`: a client on its way to sign up for a session (a page that will ask,
a call, or an answer, `Joins`) is not a party of it yet, so everybody signs up once; parties are
members of the group, and the group is never more than full while the server has removed nobody
from it. `Patient` users follow no link of a
group they are in; one who does signs up twice, and the session is complete with one party less.
When a member was removed, its place is free and its signup stays: a client that joins then
signs up past the number of parties. That is no oversight of the proof but what
`client_disconnected` does (the `FIXME` at `server.rs:613`), and `TooMany` has it.

`MessageInv` follows the round message of each party of a session to each other one. It is
sent once (`SentOnce`: a party has one computation of a session), by a party to the other
parties (`FromParty`, `ToParty`), and is in one place (`OnePlace`): not sent yet, in the sender's
request, owed by its connection task, on its way, or taken; when it was taken there is no
second one to come. A receiver that signed up and is connected (`Due`) hears it or is done or left (`Hears` of `ReadyInv`).
If it has still to read the answer to its signup, that answer is before the message in its
socket (`Ordered`): the sender computes, so the session was complete and the signup
answered before. If it is done it has all messages already (`AllTaken`), for the round ends
when it has as many as it expects, which is one less than the parties of a session that is
not `Overfull` (`PartiesCount`, `RoundFull`): as many as the others, each counted once.
So nothing is heard by nobody, and no inbox that is full is sent one more (`NothingLost`).

Only model-checked: `NotificationSent` of `StateLock` and the other violations, and the liveness properties `ReadyIsTold`, `EmptyGroupsGo`, the two `Completes` and `Settles`. Liveness
under fairness and `ENABLED` are out of the prover's reach, as is induction over data.

## Plan

The components that carry the program's logic are modelled, and every safety property that a
passing run checks is proved. What is left to prove is what holds without `Patient`: `TypeOK`
and `ParametersAccepted` should, with `Alone` and `TalkOnPage` said of the calls of the visit
that is on the screen only. What is left to model are the parts below.

## Not modelled

Cryptography: the GG2020 state machines come from `multi-party-ecdsa`, and
`packages/wasm` wraps them; a state machine is which messages it sends per round.
`packages/wasm/src/cggmp` is called by no client. `snap/wasm` encrypts and decrypts one
key share at a time. `cli` parses arguments. The list of keys, the confirmation dialogs, the
export and the pages of a key are views around thunks of `SnapStore`; `groupKeys` is a
pure function of what was loaded. The channel of a connection's sender task and the socket
behind it are one queue of frames in `DappSession`, so that frames which were queued before a
refusal are taken to be sent when the flag is set. Connections of the dapp are lost in `DappFlow`
only when the server closes them; a new connection is a new party to the server, whose old
signups stay, and the dapp has no code to take part again. Losses at any time are in `MpcServer`,
`RoundSession` and `RpcClient`.
