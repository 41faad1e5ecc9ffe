# Copresence: verification project

TLA+ models of the Copresence realtime presence system, model-checked with TLC
and proved with TLAPS.  Paths are relative to `src/`; `S/` stands for
`apps/server/src/`, `C/` for `packages/client/src/`, `P/` for
`packages/protocol/src/`.

## 1. The system

A page opens a WebSocket to a Node server and says `hello`; the server keeps a
session (a roster of participants, each with a cursor and a scroll position),
answers with a `welcome`, tells the others `join`, folds `cursor` and `scroll`
frames into the session, and 20 times a second sends every socket of the session
one `patch` with the newest values.  `bye`, the close event of the socket, or the
TTL reaper end a participation.  An audit log collects session starts and ends
from three independent paths.

| component | state | operations | interacts through |
|---|---|---|---|
| session model `S/models/*` | none (pure): participants, per-field value and seq, dirty flags | add, remove, touch, presence, markDirty, clearDirty | called by registry, controllers, tick |
| sequence guard `S/models/SequenceGuard.ts` | last seq, gaps | accept | one per connection, called by the router |
| session registry `S/services/SessionRegistry.ts` | Map sid -> session | getOrCreate, save, reapStale | controllers, tick, reaper, HTTP |
| broadcast hub `S/services/BroadcastHub.ts` | Map pid -> connection, Map sid -> pids | register, unregister, sendTo, broadcast | controllers, tick, reaper; the sockets |
| router and controllers `S/routes`, `S/controllers` | one context per socket | hello, bye, close, cursor, scroll, ping, audit | registry, hub, audit log |
| tick scheduler `S/services/TickScheduler.ts` | tick seq, settle windows | tick | registry, hub; the clock |
| reaper `S/services/Reaper.ts` | none | sweep | registry, hub, audit log; the clock |
| WebSocket server `S/server.ts` | missed pongs per socket | connection, heartbeat, shutdown | router; terminates sockets |
| audit log, reconciler, beacon endpoint | records by event id | record, sweep, POST /audit/beacon | controllers, reaper, HTTP |
| chaos middleware, convergence tracker | knobs, buffers, simulated views | send, release, partition, reset | sits behind the hub's sendTo |
| metrics | counters, sample ring | record*, snapshot | written by everyone, read over HTTP |
| page `C/index.ts`, `C/wire.ts` | remotes, drawn cursors, last patch seq, seq counter, followed peer | route a message, draw, expire, follow, send | the connection; timers and animation frames |
| client connection `C/transport/*` | status, socket, queue, backoff | connect, disconnect, send, open, close | the page; WebSocket events |
| lifecycle, outbox, beacon `C/lifecycle`, `C/outbox`, `C/beacon` | open session flag, persisted entries | emit, flush, confirm, ack | IndexedDB, socket, HTTP |
| capture and render | pending frames, follow mode | DOM events | the page |

What is hard about it: one participant may own several sockets whose frames and
close events come in any order; the registry and the hub are updated by separate
calls; a close event can come long after the socket was lost; the settle window
repeats old content under new numbers; the page keeps its patch number over
reconnects while the server's numbering is in memory; the reaper relies on
timestamps that only `hello` writes; the audit path persists, sends and confirms
across awaits, in tabs that share one store and may die at each of them; a
connection is driven by the host, its socket and a timer at once; the chaos
middleware drops, repeats, delays and reorders what the tick has sent.  What should
hold is the list of properties in section 4; `PROJECT.json` lists every hazard at
its line.

Within the server nothing interleaves inside a handler: JavaScript runs handlers
and timer callbacks to completion, and none of those modelled here awaits.  So
one handler is one action, and the interleaving is that of the handlers.  In the
page that holds too, but for the lifecycle and outbox, whose calls await: there a
step is what lies between two awaits (`Outbox`).

## 2. Modules

| module | what it is |
|---|---|
| `Session` | the pure session model: `models/Session.ts`, `Participant.ts`, `PresenceState.ts`, `applyEvent.ts` and the presenters that read it. No state, only operators. |
| `Server` | registry, hub, router, controllers, tick scheduler and reaper over `Session`. One action per handler or timer. |
| `Room` | `Server`, the network to one page, and that page's `remotes` and `lastPatchSeq` (`C/index.ts`). |
| `Silence` | `Server` and a history of when each participant was last heard from. |
| `SequenceGuard` | `models/SequenceGuard.ts` by itself, with its gaps. |
| `AuditLog` | `AuditLog.record`, the paths that feed it and `AuditReconciler.sweep`. |
| `Engagements` | what the audit log promises: the abstract specification `AuditLog` implements. |
| `Outbox` | lifecycle, outbox, storage and beacon of the tabs of one origin, step by step between awaits. |
| `DurableEvents` | what the outbox promises: the abstract specification of ADR 0012, which `Outbox` violates, and the weaker one it implements. |
| `Transport` | the client connection and its queue, with what the page puts into it. |
| `View` | what a page shows of the others, and follow mode. |
| `Chaos` | the transport behind the hub's `sendTo`: chaos middleware, counters, convergence tracker, fed by one session's roster and ticks. |
| `MC*` | instances for TLC. |
| `SequenceGuardProofs`, `ServerProofs`, `RoomProofs`, `ChaosProofs`, `AuditLogProofs`, `OutboxProofs`, `TransportProofs`, `ViewProofs` | theorems. |

State of `Server`, against the code:

| variable | code |
|---|---|
| `sessions` | `SessionRegistry.#sessions` |
| `hub.connections`, `hub.bySession` | the two Maps of `BroadcastHub` |
| `ctx[c]` | `ConnectionContext`: sid, pid, leftExplicitly, and `lastSeen` of its sequence guard |
| `ready[c]` | the socket: not used, open, lost but close event pending, closed |
| `tickSeq`, `settling` | `TickScheduler.#seq`, `#settling` |
| `now` | `Clock.now()` |
| `out` | what the last step sent and handed to the audit log |

Actions: `Connect` (server.ts), `SocketLost` (client close, network, heartbeat
terminate), `RejectFrame` and `DropStaleFrame` (realtimeRouter.ts), `Hello`,
`Bye`, `Disconnect`, `Ping` (ConnectionController.ts), `Move`
(PresenceController.ts), `Audit` (AuditController.ts), `CreateByHttp`
(SessionController.ts, DemoController.ts), `Tick`, `ReaperSweep`, `Elapse`,
`Restart`.  A reaper sweep broadcasts each leave while later victims are still
registered, so the action quantifies over the order of the Maps.

Abstractions: a position is a member of `Points`; the viewport, the colour and
`createdAt` are dropped since no transition reads them; error, pong and ack
replies carry no content; `RejectFrame` is any frame the router answers with an
error.  The missed-pong counter of the heartbeat is inside `SocketLost`: a socket
may be lost at any time.  Dirty flags are a Map from pid to a non-empty set of
field names, as the reducer leaves them.

`Room` puts what `out` sends to the page's current socket on `wire`, in order and
without loss while the socket is the page's current one (TCP); a reconnect drops
what was in flight.  Pages act on each other through the server only, so one
watched page among any number of participants is no restriction; its own frames
arrive in order, because late frames of a lost socket are `Server`'s subject.  A page
opens the sockets of `SocketsOf` one after another and speaks on no other; what one
step of the server sends goes out in any order (`Transmit`).

`AuditLog` keeps `records` (the Map by event id), `emitted` (what each page has
given its outbox), `generated` (ids the server drew) and the clock.  `Emit` is
`lifecycle.ts`; `Deliver` is both `handleAuditMessage` and `POST /audit/beacon`,
at any time, any number of times or never, which is all the log can assume of an
outbox; `ServerEnd` is the `session.end` of `handleDisconnect` and of the reaper;
`Sweep` is the reconciler.  `recordedAt` is the server's clock in every path.
`Recorded` is `record()` for a set of entries of different members, since a sweep
calls it once per member in one step.  The insertion order of the Map is not
modelled: it would break ties between two ends of one member at the same time, and
`EndsSeparated` says there are none.  The id in a report is history, for stating
properties; the code keeps source and time only.

`Outbox` keeps per tab the phase of its page (`none`, `live`, `stopped` by the host,
`frozen` in the back/forward cache, `unloading`) with `visible`, `sessionOpen` and
`socketOpen`; `store`, the IndexedDB store all tabs share; `tasks`, the async calls
under way; `link`, audit frames in a tab's socket or queue; `received`, what the
server has recorded; and two histories of entries deleted without word from the
server: `givenUp`, by the cap or for their age, and `entrusted`, for a `sendBeacon`
that had queued them.  A task is an `emit` (put, prune, route, post), a `flushPending` by
fetch (`replay`) or by `sendBeacon` (`bestEffort`), or a `handleAck`; each of its
steps is one awaited operation, so the tasks of all tabs interleave at every await.
`Die` ends a page between any two steps: its tasks are gone, a request under way may
still arrive.  `createdAt` is left out: `Date.now()` ties for the events of one
handler and may step back, so which entries a prune finds oldest, and which have
expired when a flush comes to them, is open.  Storage calls do not fail.

`Transport` is one page's `connection.ts` with `outboundQueue.ts` (`queue` and
`slots` are `items` and `lossySlot`), the host's `connect` and `disconnect`, pings,
captured frames, visibility, and the audit frames that `lifecycle.ts` holds while
`outbox.add` runs (`persisting`).  A frame is its type and seq.  `sock` tells a
socket that is closing from one that is gone, which `status` does not.  How much a
socket takes before `bufferedAmount` is too much is open; `sent` and `handed` are
histories.  `Kept` is the loop of `flushQueue` over what it re-queues, written as a
recursive function; on small queues TLC compares it with `SelectSeq` (`UnsentSelects`
in `MCTransport`).

`View` is the rest of `index.ts`: `remotes` with the age of what was last heard,
`cursors` as the elements of `cursorLayer.ts`, the frame and sweep timers, and
`scrollFollow.ts` with the way of a scroll: page moves (`moved`), the browser's
event, the animation frame that captures it (`captured`).  Any message may arrive
while the socket is there; which ones do is `Room`'s and `Chaos`'s business.
`insisted` is a history: the user has scrolled since following began.

`Chaos` has, for each recipient, what the middleware holds back (`held`, with
`holds` for the timers), what it has put off (`late`), the page's `socket`, what `page`
and `tracker` make of the deliveries, and the counters.  `rawSend` is bound to the
socket of the moment the message was sent, so what is under way when a socket is lost
(`SocketLost`), and what is sent until the hub notices (`CloseSeen`), is `void`: it
reaches the tracker and not the page.  A page may remove any participant at any time
(`Fades`), since idle times are not in the model; `faded` is whom it has removed since
the last welcome it received.  A rate is whether the thing can happen,
a latency whether a delivery can be put off; the buffer is a set, since what leaves
it is drawn at random.  A participant's cursor and scroll are one number that grows
with every move.  `asked` and `cleared` are counters the code does not keep.

An operator whose comment starts with "Slip:" is not part of the specification:
it is what a plausible bug would put in the place of the operator that follows it,
and the mutants of `PROJECT.json` use it to see that a property can fail.

## 3. Runs

| run | instance | distinct states | checks |
|---|---|---|---|
| `server` | 2 sessions, two participants in one and a third in the other, 3 sockets, two places, seq 0..1, 2 ticks, TTL 0, clock 0..1 | 438,662 | types, dirty flags, hub index, hub and roster, nobody orphaned, settle window, no leak between rooms, last writer wins, leave reaches peers |
| `room` | 2 pages, the watched one reconnects once, the other moves a cursor to two places and scrolls, 2 ticks | 1,412,706 | what a caught-up page draws is what the server holds; peers are visible; patches in flight are news |
| `sequence_guard` | the numbers 0..6 and a non-finite one in any order, span 3 | 1,066 | gaps exact, only news accepted |
| `audit_log` | 2 members of one session, three and one page events, one server end each, TTL 1, clock 0..2 | 84,054 | one stored end per engagement, sweep and log agree, every start is closed (liveness), refinement of `Engagements` |
| `outbox` | 2 tabs, a store of one entry, 2 events and 2 flushes in one tab, one flush in the other, one socket, 2 calls under way at once | 242,983 | the store is bounded, a flush reaches all it found (liveness), refinement of `DurableEvents` with beacons |
| `transport` | one page, 5 frames | 433,544 | no lossless frame lost or reordered, one socket or one timer, silence after disconnect, reconnection (liveness) |
| `view` | two others, ages fresh, stale and expired | 235,698 | no ghost cursor, following yields to the user, the silent vanish (liveness) |
| `chaos` | one recipient watches two others, 3 messages of which one may be a roster message, 2 moves, 2 upsets (a use of the panel, a lost socket, a removal), window at most 2 | 515,106 | accounting, bounded buffers, patches never go back, tracker against page, nothing held for ever (liveness) |
| `reaped_while_active`, `deaf_after_restart`, `follow_released`, `beacon_unconfirmed` | small instances as above | | one sentence of the documentation each, refuted (section 6) |

Why the bounds are enough.

* `server`.  Three sockets let one participant reconnect while its old socket is still
  to close and another participant watches, in its room or in the other; the rest of
  the interleavings permute these.  Two sequence numbers give a duplicate or late frame
  and a fresh one on each socket; a first frame is a `hello`, so that values written
  over different sockets have equal seqs here: that a tie does not overwrite is what the
  run checks of `LastWriterWins`, and unequal seqs rest on the theorem.  With TTL 0 whoever
  said hello before the clock moved may be reaped.  Two ticks and a settle window of one
  clock unit give a flush, a repeat and an expiry, and a flush that replaces a window.
  A `hello` after a `bye` comes on another socket here; on the same one it is a third
  frame, and rests on the theorems.  The instance is symmetric in the participants of
  the room, in sockets and in places.  `out` is not part of the state TLC tells apart (`VIEW`): no step reads it.  What is sent is
  checked on every transition by `SentToOwnRoom`, `LastWriterWins` and
  `LeaveReachesPeers`, which are action properties; its types are checked on one
  representative of each state, and proved for all.
* `room` has both fields of a participant, so that one can be news while the other has
  faded; the watched page's user does not move (`MovesOf`), as no page draws itself.  It
  is symmetric in the places of the cursor.  `MayHaveFaded` is the global clock, so
  that the exempted part of `PeersVisible` and `ViewMatchesPresence` is in effect
  checked early in a behaviour only; that no old value is shown is checked throughout.
* `audit_log`.  Three events are an open, a close and a reopening, whose deliveries
  interleave in every way with a close the server notices and with sweeps; the
  second member only opens, to be confused with.
* `outbox`.  With room for one entry a second event makes a prune evict, while the
  flush of the same tab, of its next page or of the other tab goes through a copy
  that lists the evicted one, and a page may die in the middle of each.  More tabs
  and events repeat these pairs of calls; the proofs are for any number.
* `transport`.  Five frames are enough for a hello, a captured frame that waits,
  another that replaces it, a ping and a bye or an audit frame, with a full buffer
  or a lost socket between any two of them.
* `view`.  Which of the two is followed, silent or gone is independent of the
  other, and a third would add no new pair.  Ages go through every stage.
* `chaos`.  Three messages fill a window of two and overflow it, may be duplicated
  and put off, and give a repeat of the settle window before and after a newer
  flush; two upsets turn a knob on and off, or on and into a partition, a reset or the
  loss of the socket the messages are for.  One roster message meets two patches: a
  participant that leaves and rejoins within the run needs two, and is left to the
  theorems.  Buffers of different recipients do not touch each other, so one is watched.

`MaxSeq`, `MaxTick`, `MaxTime`, `LastSeqOf`, `MaxWire`, `MaxEvents`,
`MaxServerEnds`, `MaxFlushes`, `MaxSockets`, `MaxTasks`, `MaxMessages`,
`MaxRoster`, `MaxMoves` and `MaxUpsets` bound counters, histories and the wire; the
program has no such bounds, and the runs turn deadlock checking off because the
bounded instance stops when they are used up.  The theorems hold for every value of
them.

Fairness.

* `Server`: none.  Its properties are safety.  That an abandoned participant leaves in
  the end is checked as `NoOrphanParticipant`: on a roster one has a socket whose close
  event is still to be handled, and Node delivers those.
* `AuditLog`: weak fairness of `Sweep`, a `setInterval` of the server, and of the
  clock; none of deliveries.
* `Outbox`: weak fairness of the steps of each tab's calls, which are enabled while
  its page runs: IndexedDB and fetch call back one way or the other.  Nothing is
  assumed of pages, which may die or stay frozen, nor of sockets and the server.
* `Transport`: weak fairness of the reconnect timer, a `setTimeout`.  It is not
  assumed that sockets open.
* `View`: weak fairness of the sweep, a `setInterval`.  Nothing is assumed of
  animation frames: a hidden page has none.
* `Chaos`: weak fairness of the hold timer of each message, a `setTimeout` per entry.

## 4. Properties

Each module has one type invariant.  Beyond that:

* `Server`.  `HubIndexed` and `RosterMatchesHub` (registry and hub are updated
  separately and never disagree), `NoOrphanParticipant` (a roster entry always has a
  close event still to come), `DirtyFlagsFlushable` (no dirty flag without a value,
  none of a departed participant), `SettleIsCurrent` (what the settle window repeats
  is not older than the stored value).  Action properties: `SentToOwnRoom`,
  `LastWriterWins`, `LeaveReachesPeers`.
* `Room`.  `ViewMatchesPresence`, `PeersVisible`, `PatchesInFlightAreNews`.  The
  first two speak of a page that is caught up: it received everything sent to it and the hub
  holds its current socket.  Both exempt what the page may have faded out for lack of
  news (`CURSOR_REMOVE_MS`): such a participant is redrawn by its next patch, and with
  the fields of that patch only, so that it may lack a field the server holds.  It
  never shows an old value.
* `SequenceGuard`.  `GapsExact`, `AcceptsOnlyNews`.
* `AuditLog`.  `EndsSeparated` and the refinement `EngagementSpec` (one close is
  stored once), `OverdueIsOpen` (the `>=` of the reconciler and the `>` of the log
  draw the same line), and the liveness `StartsClosed`.  A start so late that the
  model's clock stops within the TTL is exempt from it.
* `Outbox`.  The refinement `EntrustingMailSpec`: an entry leaves the store only once
  its event is recorded, or by age, by the cap or for a beacon that had queued it, with
  `abandoned` and `entrusted` telling which.  ADR 0012 excludes the last of these:
  `MailSpec` is the same without it, and the code violates it (section 6).
  `StoreBounded`: two prunes that read the same store evict the same
  entries, and a page may die before its prune is through; the excess is never more
  than the writes whose prune has not ended.  Writes of pages that died before their
  prune count for ever, so an excess that lasts is not excluded.
  `ReplayReachesAll`: a request that fails does not keep a flush from the entries after
  it.
* `Transport`.  `QueueIsUnsent`: what was handed to sockets, followed by what waits,
  is what was sent, lossy frames aside: coalescing in place and re-queueing under
  backpressure neither lose nor reorder.  `ReconnectArmed`: never two sockets, never
  neither socket nor timer.  `QuietAfterDisconnect`: no frame, ping or hello is built
  by a page that has disconnected, but for the bye of a repeated `disconnect()`.
  Liveness: `KeepsTrying`.
* `View`.  `NoGhostCursor`: `remotes` and the elements are kept by four handlers that
  each touch both; an element that outlived its entry would stay for ever.
  `FollowYieldsToUser`: the user's scroll, merged with followed ones into one event
  and captured a frame later, still ends following.  Liveness: `SilentVanish`.
* `Chaos`.  `EverySendAccounted`, `BufferBounded`, `TrackerWithinPage` (the tracker
  clears at a welcome, the page merges; the tracker lists whom the page lists and knows
  no value the page lacks, but for whom the page has removed as idle, and as long as no
  message went to a socket the page had left: in both cases the code does let the
  tracker get ahead, section 6), `PatchesNeverGoBack` (stated for runs of patches: a
  delayed `join` or `welcome` does take values back, which the sockets' order excludes
  outside the simulation; and for participants shown before and after, as a removed one
  may come back with less).  Liveness: `HeldIsReleased`.

## 5. Proofs

All theorems hold for every number of participants, sessions, sockets, tabs and
events and for every client clock; the bounds of the runs do not limit them.

* `SequenceGuardProofs`.  `GuardTypeCorrect`, `GuardInvariant` (`GuardTypeOK`,
  `GapsExact`, `LastSeenIsGreatest`) and `GuardAcceptsOnlyNews`.  The inductive
  invariant adds that nothing is recorded before the first number, that `first` is not
  above `lastSeen` and that what was left untracked lies below it; arithmetic on
  intervals then gives each case of `accept`.
* `ServerProofs`, in three parts.  *Types*: for each operator of `Session` its type,
  what it does to the roster, and that it keeps `DirtyIsFlushable`; from these one
  lemma per handler gives `TypeCorrect`.  *Each session by itself*:
  `FlagsAlwaysFlushable` (`DirtyFlagsFlushable`), `SettleAlwaysCurrent`
  (`SettleIsCurrent`) and `LastWriterAlwaysWins` (`LastWriterWins`).  A settle window is
  current where nothing is dirty, a write makes its field dirty, and a tick that clears
  flags replaces the window by what it has just read: so each is inductive with the
  types.  *Registry, hub and sockets*: `HubAlwaysIndexed`, `RosterAlwaysMatchesHub` and
  `NobodyOrphaned`, from the invariant `ConsistencyInv`, with `NothingLeaksBetweenRooms`
  (`SentToOwnRoom`) and `LeavesReachPeers` (`LeaveReachesPeers`).  `HubIndexed` and
  `RosterMatchesHub` are not inductive by themselves: a close event removes the pid of
  its connection from the hub whatever session it is registered under, and from the
  roster of the connection's session only.  The invariant adds that a registration
  points to a socket of the same participant and session that is still to close
  (`SocketsHeld`) and that identities respect `Rooms` (`IdentityKept`).  Both facts
  about messages follow from it: what is sent in a step goes to registrations, and
  these belong to the session that speaks; whoever leaves is sent to everyone the hub
  lists, and the hub lists the roster.
* `RoomProofs`: `RoomTypeCorrect`, `PatchesAlwaysNews` (`PatchesInFlightAreNews`),
  `PeersAlwaysVisible` (`PeersVisible`) and `PageConverges` (`ViewMatchesPresence`), from
  `RoomKept`: the invariant `RoomInv` holds, for any number of pages, sockets, moves and
  reconnects.  The last two speak of a page that is caught up, and say nothing of the
  steps that lead there.  `Converging` says it for every state: of each peer on the
  roster, and of each of its fields with nothing left to flush, the page or some message
  on the way shows it, and no later message on the way says otherwise (`ComesUp`,
  `ComesTrue`), but for what may have faded.  A server step appends to the wire what it
  changes in the session, or leaves the field dirty; a received message moves from the wire to the page, and that
  it does not throw it away is `PatchesInFlightAreNews`, which in turn needs that neither
  page nor wire is ahead of `tickSeq`; a reconnect empties the wire, and the `hello` that
  registers the new socket is answered with the whole roster.  That a repeated flush does
  not undo this is `SettleIsCurrent`; that the page is told of its own session, and is
  not unregistered by another's socket, is `ConsistencyInv` with `DialedInOrder` and
  `OwnSockets`.
* `ChaosProofs`: `ChaosTypeCorrect`, `EverySendIsAccounted` (`EverySendAccounted`),
  `BuffersBounded` (`BufferBounded`) and `TrackerStaysWithinPage` (`TrackerWithinPage`),
  from `ChaosInv`, and `PatchesOnlyAdvance` (`PatchesNeverGoBack`).  The counters balance
  only if a message is held or put off, never both, and each set is finite; that a new
  message is neither comes from its number, so the invariant bounds the numbers under
  way.  Page and tracker agree as long as nothing is `void`: a delivery does the same to
  both but for a welcome, which leaves the page the values of those it keeps, and a
  removal is entered in `faded`, which only a welcome empties.  Since `void` never
  shrinks, what happens after a message went to a lost socket need not be followed.  For the patches `PatchOrder` adds that of two messages under way the later has
  no older values, and that one the page would take as news
  has none older than what it shows: the guard on the number then decides rightly in
  whatever order they arrive.
* `AuditLogProofs`.  `CloseStoredOnce` (`LogTypeOK`, `EndsSeparated`),
  `SweepAgreesWithLog` (`OverdueIsOpen`) and `LogImplementsEngagements`: the
  refinement, for every number of members.  The invariant is `EndsSeparated`
  itself with types and the finiteness of the Map: it makes the end no start has
  reopened unique, so that a new end is stored only where a start has come since.
* `OutboxProofs`.  `OutboxImplementsMail` (the refinement `EntrustingMailSpec`),
  `OutboxTypeCorrect` and `StoreIsBounded`.  For the first two the invariant says of
  every task what it may count on (`Sound`): an emit that has not written yet alone
  has its event, whatever else names an event names one that was persisted, and an
  entry that is cleared on an answer is recorded.  `StoreBounded` is not
  inductive: two prunes that read the same store will evict the same entries, and
  when one of them ends the excess must be accounted for by what the other has still
  to do.  The invariant (`PrunesSuffice`) says, for every set of prunes under way,
  that what they will leave exceeds the limit by no more than the other writes; it
  needs that each event has one emit (`Distinct`).
* `TransportProofs`.  `AlwaysArmed` (`ReconnectArmed`), `AlwaysQuiet`
  (`QuietAfterDisconnect`), `TransportTypeCorrect` and `QueueLosesNothing`
  (`QueueIsUnsent`).  Silence needs that a page which is not active has no
  frame scheduled, does not ping or capture, and has no socket that could still open
  (`Detached`); the last of these comes from `ReconnectArmed`: an intentional close
  leaves no timer and at most a closing socket.  `QueueIsUnsent` needs that a slot that
  is taken points to a queued frame of its type (`SlotsPoint`), for else coalescing
  would overwrite a lossless frame, and three facts of `Unsent`: what it makes of an
  append, of a frame replaced in place, and of a queue cut in two.  `Unsent` is
  recursive; its facts are proved by least counterexample, with the well-foundedness of
  the naturals, as the library's induction theorems cannot be instantiated.
* `ViewProofs`.  `ViewInvariant` (`ViewTypeOK`), `NoGhosts` (`NoGhostCursor`) and
  `UserWins` (`FollowYieldsToUser`).  The first two are inductive with the types.  The
  third needs that the flag of a followed scroll is never set between two turns and
  that only scrolls the page listens to count as the user's insistence
  (`FollowHelper`): were the flag to outlive its turn, the frame that captures the
  user's scroll would ignore it.

Assumptions.  `LogAssumption` says that the members are finitely many.
`ServerAssumption`, `OutboxAssumption`, `TransportAssumption`, `ChaosAssumption` and
`ViewAssumption` type the constants.  `RoomAssumption` adds that pages are
finitely many and share no socket, that each opens a socket once, and that some clock
is not behind.  The theorems from `ConsistencyInv`, among them all of `RoomProofs`,
assume `OneRoomPerPid`: a participant id is used in one
session only.  The page draws its id with `crypto.randomUUID()` (`C/index.ts`),
so this holds unless the host supplies the same id for two sessions; then
`register` leaves the id in the index of the first session
(`S/services/BroadcastHub.ts:48`) and the theorems fail, as they should.

Every invariant and every action property of the passing runs is stated by a theorem,
and so are both refinements; these say what may happen, and nothing of what must.  Only
model-checked: `StartsClosed`, `ReplayReachesAll`, `KeepsTrying`, `SilentVanish` and `HeldIsReleased`: liveness under
fairness and ENABLED are out of the prover's reach.  `RoomProofs` is about `RoomSpec`, a
server that lives; `deaf_after_restart` shows why it cannot be about `RoomRestartSpec`.
No module here declares a RECURSIVE operator.

What a proof attempt showed.  `ViewMatchesPresence` was first stated without
`MayHaveFaded`, and the `room` run agreed, because its participants had one field.  With
two, a participant that faded out and then scrolls is drawn again without the cursor the
server holds for it (`C/index.ts:298`): `Converging` was not inductive, a run with two
fields found the trace, and both the property and the instance were corrected.

## 6. Where code and documentation disagree

* `reaped_while_active`.  Only `hello` refreshes `lastSeenAt`, so the TTL is not
  "silence": a page that keeps moving is reaped (`S/services/SessionRegistry.ts:85`).
* `deaf_after_restart`.  A page never resets `lastPatchSeq`, a new server starts
  at 1: the page ignores all patches until the new server has ticked as often as
  the old one had (`C/index.ts:228`).
* `follow_released`.  The flag that is to tell a followed scroll from the user's is
  cleared in the turn that sets it (`C/index.ts:312`), and the scroll is captured in a
  later animation frame: the first followed scroll that moves the page ends
  following, and the host is told so.
* `beacon_unconfirmed`.  On an unload the page hands the boolean of `sendBestEffort` to
  `flushPending` as its confirmation (`C/lifecycle/lifecycle.ts:99`), which deletes the
  entry when it is true (`C/outbox/outbox.ts:59`): a beacon that was queued and is then
  lost takes the event with it.  ADR 0012 (line 15), `docs/FAILURE-MODES.md:163` and
  `C/beacon/beacon.ts:16` say that this is not an acknowledgement and that only one
  removes an entry.

Disagreements seen in the models and not run:

* `docs/FAILURE-MODES.md:67` says of the convergence tracker that "it never reports a
  false convergence that a real client wouldn't also reach", and `S/index.ts:51` that
  "`onDeliver` only ever fires for a message that genuinely left the wire".  A message
  that is held back or delayed goes to the socket of the moment it was sent; if that
  has closed since, `rawSend` sends nothing and `onDeliver` is called all the same
  (`S/services/ChaosMiddleware.ts:231`, `237`): the readiness test of
  `S/services/BroadcastHub.ts:82` came before.  And a page removes whom it has not heard
  of (`C/index.ts:322`, `360`), of which the tracker is not told.  `TrackerWithinPage`
  is false without its two exemptions.
* `C/outbox/outbox.ts:14` and `C/beacon/beacon.ts:15` have the outbox flushed on every
  reconnect.  `lifecycle.ts` flushes when it starts and when the page is hidden for good
  or frozen, never for a reconnect; `Outbox` has no such action.

Behaviours of the code met while modelling.  They are in the models, no property
forbids them, and a maintainer may want to decide on each:

* A tick repeats the last flush after its subject has left, so pages draw a departed
  participant again (`S/services/TickScheduler.ts:109`), until `CURSOR_REMOVE_MS`
  after the last repeat.
* The close event of a replaced socket unregisters the new connection, takes the live
  participant off the roster and tells everyone it left
  (`S/controllers/ConnectionController.ts:132`); it is back with its next `hello`.
* The retry of an end that was folded into another record is not recognised as a
  retry: once a start has arrived in between it is stored as a second end
  (`S/services/AuditLog.ts:56`).
* A patch that is overtaken by one about another participant is ignored whole
  (`C/index.ts:228`), so its content is lost until its subject moves again, unless it
  was the flush the settle window repeats; `P/messages.ts:153` reasons that the next
  tick supersedes it.
* An audit frame draws its seq before the outbox write is awaited
  (`C/lifecycle/lifecycle.ts:51`).  Cursor frames sent meanwhile overtake it and the
  server drops it as stale, without an ack; its entry waits for the next load or
  hide.
* What is queued while the socket is down goes out before the `hello`
  (`C/transport/connection.ts:136`); the server answers each such frame with an error.
  Pings keep being queued while the connection is down (`C/index.ts:345`).
* `connect()` between `disconnect()` and the close event does nothing to the
  connection (`C/transport/connection.ts:173`), but installs the page's listeners.
  `ReconnectArmed` and `KeepsTrying` hold of this: no reconnect is due after an
  intentional close.
* A `disconnect()` of a page that has disconnected, or never connected, draws a number
  and queues a bye (`C/index.ts:406`), which the next socket sends before its `hello`.
* A pid that registers under a second session stays in the index of the first
  (`S/services/BroadcastHub.ts:48`) and gets its broadcasts; the models keep a pid to
  one session (section 5, assumptions).
* Under backpressure the last cursor of a movement may be discarded
  (`C/transport/connection.ts:107`), with none to follow it.
* A participant that expires is removed without `onPresenceChange`, and one that moves
  again comes back by a patch, in grey (`C/index.ts:298`) and with the moved field only:
  the server still holds the other, and the page has no way to ask for it.
* `ChaosMiddleware.flush` and `ConvergenceTracker.forget` have no caller outside the
  tests; views of departed recipients keep counting for convergence.

## 7. Not modelled, and what is left

Not modelled: coordinates, dead band and interpolation (floating point), the shadow
root and styles (layout), parsing and validation of frames (pure functions over text
that the repository fuzzes), HTTP views and middleware, the inspector (it polls and
formats), configuration and logging, the ring of latency samples, `storage.ts` without
IndexedDB.  The heartbeat's missed-pong counter is inside `SocketLost`, and timers
fire after any delay: how long the TTL, the backoff and the hold timers wait is not
compared.

The modules build on each other in the order in which they were written: `Session`,
`Server` on it, `Room` and `Silence` on `Server`; `SequenceGuard`; `AuditLog` with
`Engagements`; `Outbox` with `DurableEvents`; `Transport`; `View`; `Chaos`.  Left:

1. Composition of `Outbox` with `AuditLog` into "recorded at least once, stored once".
2. What `Room` needs of a restarted server: the page's view once the tick number has
   passed the page's `lastPatchSeq`.
3. The heartbeat's counter, the latency ring.
