# nexo-plugin-whatsapp: specifications and proofs

TLA+ models of the concurrent parts of the plugin, the TLC runs that check them
on small instances, and TLAPS proofs of the results that matter most for every
value of the constants. File names without a directory are under `src/` of the
repository.

Contents: 1 the system, 2 the modules, 3 the runs, 4 bounds and fairness,
5 what is proved, 6 where the code and its comments part, 7 what is not
modelled, 8 the plan.

## 1. The system

The plugin is one tokio process (multi-threaded runtime) between WhatsApp,
reached through the external `wa-agent` crate (`whatsapp_rs`), and an agent
runtime, reached through a broker (`nexo_broker`). It is linked into a daemon as
a library (`lib.rs`, `plugin.rs`) or run as a subprocess (`main.rs`).

| component | state it keeps | operations | interacts with | what makes it correct |
|---|---|---|---|---|
| Reply bridge, `bridge.rs` | a oneshot per inbound message, its sender in the shared `PendingMap` (session to sender) | `build_handler` (filter, audio download, publish, no-reply outcome), `bridge_step` (insert, publish, wait with timeout, clean up, announce) | wa-agent calls it concurrently; dispatcher resolves its senders | a reply is shown once, in its own conversation; handlers end; no sender leaks |
| Outbound dispatcher, `dispatch.rs` | its subscription; the map and `ask_reply_index` it shares | `spawn`, `dispatch_event`: resolve, cancel, discard, or send text, reply, reaction, media, voice note | broker, pending handlers, wa-agent session | events in order, none stuck, none twice, indicator ended |
| Tools, `tool.rs`, `subprocess_dispatch.rs` | breaker of each account (external) | the four `whatsapp_*` tools, `publish_outbound`, `dispatch_whatsapp_tool` | outbound topic | refused only for cause; ok means accepted |
| Plugin, `plugin.rs` | broker, session, pending map, shutdown token, task handles | `start`, `stop`, `send_command`, `health` | spawns bridge, dispatcher, forwarder; bot registry | one session; loops up before use, down after stop |
| Lifecycle forwarder, `lifecycle.rs` | `LifecycleState` (connected, attempts, reason) | one arm per wa-agent event; `snapshot` | wa-agent broadcast, pairing state, broker | health follows the connection |
| Pairing state, `pairing.rs` | five separately locked fields | setters, `status`, `dispatch_route` | forwarder writes, HTTP reads | a status is one moment's |
| Pairing admin pump, `pairing_admin.rs` | `pumps()` registry; a task, an mpsc and a publisher task per challenge | `pairing_start`, `pairing_cancel`, the pump | session directory, wa-agent, broker | told what is true; cancellable; no credentials lost |
| Pairing trigger, `pairing_trigger.rs` | a task per challenge; the daemon's challenge store | `start`, `on_qr`, three result arms | store, notifier, dispatcher of the daemon | Linked means scanned; an end is told |
| Session bootstrap, `session.rs` | session directory | `pair_with_callback`, `pair_once`, `check_daemon_collision`, `connect_session` | wa-agent, file system | one client for a directory |
| Subprocess, `main.rs` | `PLUGIN` OnceCell, `BRIDGE`, subscriptions | eager start, `on_configure`, `on_tool`, auto-discovery loops | SDK over stdio, plugin | one boot, right configuration, every call answered |
| Auto-discovery, `auto_discovery.rs`, `pairing_adapter.rs` | none | normalise, reply, QR image, HTTP, metrics, admin | outbound topic | ok means accepted |
| Media, `media.rs` | files | inbound download, outbound download and send | wa-agent, HTTP | file complete before announced |
| Bot registry, `bot_registry.rs` | `REGISTRY` label to entry | register, unregister, list, send | plugin, admin | an entry is a live plugin |
| Configuration, `config.rs`, `env_config.rs`, `configured_state.rs` | the slice last configured | parse, record, read | boot, admin | |
| Pure helpers, `session_id.rs`, `events.rs`, `transcriber.rs` | none | hash, serialise, ask | | |

Hard behaviours: handlers of one session run beside each other and beside the
dispatcher and the timers; a message's slot is removed by key, whoever's sender
it holds; pairing tasks outlive the requests that started them and share
directories on disk; boots fail half-way while other calls wait for them; `stop`
overtakes `start`; tasks subscribe late and fall behind; two downloads of one
message share a temporary file; reads and writes of shared stores are separate
steps; wa-agent's `connect` and a media origin may never return. `PROJECT.json` lists each at its line under `hazards`.

## 2. The modules

An action is the code between two awaits of one task, cut further where another
thread can get in between and matter. External parts are nondeterministic and
say so in the module's header. Definitions commented *Wrong* are faults: no
specification uses them; each shows that a property notices it.

| module | code | role |
|---|---|---|
| `ReplyDelivery` | bridge and dispatcher | abstract: each event shown at most once, in its conversation or to its address, or lost; each handler one final outcome |
| `ReplyBridge` | `bridge.rs`, `dispatch.rs` (reactive half) | handlers, oneshots, pending map, timers, dispatcher; refines `ReplyDelivery` |
| `PairingPromise` | pump and trigger | abstract: QRs until a scan, a link told only after a scan of that attempt's own QR, a link that was told and recorded is never replaced |
| `PairingPump` | `pairing_admin.rs`, `session.rs` | admin task, registry, pump and publisher tasks, wa-agent, session directories; refines `PairingPromise` |
| `SharedPlugin` | subprocess | abstract: one plugin for all callers, each call answered once, each refusal true when it is given |
| `SubprocessBoot` | `main.rs`, `plugin.rs` | OnceCell, permit, configured slice, boots that fail, tool and configure calls; refines `SharedPlugin` |
| `PairingTrigger` | `pairing_trigger.rs`, `session.rs` | trigger tasks, challenge store, operator's screen, the daemon's cancellation; refines `PairingPromise` |
| `AccountMailbox` | tools and dispatcher | abstract: a publication is accepted or declined, once; an account's line is served from its head, each event with one final fate |
| `OutboundQueue` | `tool.rs`, `subprocess_dispatch.rs`, `auto_discovery.rs`, `dispatch.rs` (proactive half), `media.rs`, `plugin.rs` (`stop`) | publishers with allowlist and breakers, one dispatcher per account; refines `AccountMailbox` |
| `EventFeed` | forwarder | abstract: each event told once and in order, or dropped |
| `ConnState` | `lifecycle.rs`, `pairing.rs` | the forwarder on a broadcast receiver, its two views, callers of `health()`; refines `EventFeed` |
| `PluginLifecycle` | `plugin.rs`, `bot_registry.rs`, `session.rs` | `start` and `stop` of several plugins, the registry, the loops, handlers waiting in the map |
| `InboundAttach` | `media.rs`, `bridge.rs` (`build_handler`), `dispatch.rs` (`ask_reply_index`) | the file and the question id of a Message event |
| `*Proofs` | | inductive invariants and theorems of the module they extend |
| `MC*` | | values of the constants for TLC |

**ReplyBridge.** `pc[m]` is where the handler of message m is: `download`
(`download_inbound_to_disk`), `publish` (after the insert into the map, during
the broker publish), `wait` (timeout over the receiver), `elapsed` (the timer
fired; the receiver is not dropped yet), `cleanup` (before `pending.remove`),
`announce`, `done`. `chan[m]` is its oneshot as the receiver sees it and `mail`
the value in it. `pending` is the map. The dispatcher record `disp` holds the
event, and between `pending.remove` and `tx.send` also the sender. So the timer,
the drop of the receiver, the send and the removal interleave as on two threads.
`Insert` drops the sender it replaces; `TakeCancelling` drops one for a non-text
event; `ResolveGone` is the fall-through to a direct send; `Discard` the two
silent returns.

**PairingPump.** `admin` is the one subscriber task of the admin topics, stopped
between wipe, spawn and insert; `registry` is `pumps()`; `stage[p]`, `client[p]`
and `publisher[p]` are the pump's task, its wa-agent client and its publisher
task; `fired`/`forwarded` the QRs put into and taken from the mpsc; `creds` who
wrote the directory's credentials. `Wipe` may fail to remove them, as the code
only logs that. Under `PromiseSpec` an attempt is a pump; what was told is its
terminal state, and both ends are final.

**SubprocessBoot.** `cell` is `PLUGIN`, `permit` the caller that runs
`get_or_try_init`'s closure, `chosen` the configuration it read, `configured`
the recorded slice. `Serving` is the SDK's loop, which runs once the awaited
eager start returned. `BootOk`/`BootFail` are the broker and `Plugin::start`.
`reply` says what a tool was told: `misconfigured` is the initialiser's
ArgumentInvalid (an empty slice, no environment), `unavailable` a boot that failed
or a plugin without a session, `refused` an unknown tool or bad arguments
(`dispatch_whatsapp_tool`); main and configure are answered ok whatever became of
their boot. Under `BootSpec` the abstract plugin is `cell`, and a boot is possible
exactly if there is a configuration (`Usable`); permit and retries disappear.

**PairingTrigger.** `phase[c]` is where `start` and then its task are;
`store[c]` and `screen[c]` are the challenge store and the last notified status
(state and whether an error is attached). `ReadState`, `Stamp` and `Push` are
the error arm's two store calls and its notification. Every store call may fail,
as the code ignores that: `OnQr` leaves the store as it was, `Update` notes the
challenge in `unwritten`, `ReadState` takes it for Pending and notes it in
`unread`; the push comes all the same. `Close` and `CancelToken` are the daemon's
dispatcher. Under `PromiseSpec` what was told is the screen, and only a link is
final on it, and only if the store took it (otherwise it is `unrecorded`, and the
open challenge may be closed later): the dispatcher and the task may both report
the end of an attempt that failed, and a QR may come in between (section 6).

**OutboundQueue.** `pc[c]` is what a caller was told; `queue[t]`, `task[t]`,
`cur[t]` are a dispatcher's subscription, place in `dispatch_event` and event;
`recording` the chats whose phone shows the recording indicator; `breaker` the
per-account breaker. `line` is history: accepted events not settled yet. Events
that concern a pending handler are `ReplyBridge`'s. Under `MailboxSpec` an
account's line is not that history but `Waiting`: the event in hand, if it has no
fate yet, followed by the broker's queue.

**ConnState.** `sent` is everything the session emitted and `next` the position
the receiver gets next; a broadcast ring is these two and `Capacity`. `missed` are
the events before the subscription, which happens inside the spawned task, and
those skipped on `RecvError::Lagged`. `at` is the await the forwarder is at;
`life` is `LifecycleState`, `pair` the three fields of `PairingState` that events
change, `lock` the mutex that `forward`'s arms hold across their awaits and
`snapshot` across `outbox_pending_count`. `HealthLock` and `HealthRead` are a
caller of `health()`; `told` is the sequence of what the broker got, so that
publishing an event twice is not the same as publishing it once.

**PluginLifecycle.** `starting[p]` and `stopping[p]` are the two calls;
`Launch` is `start` from the connect to the last spawn, which has no await;
`Record` stores the handles behind their lock. `Stop` is the token, `pending.clear`
and `unregister`; `Take`, `Join`, `JoinTimeout` the loop over the handles.
`registry` is `REGISTRY`, `handler` and `entry` a chat's handler and its sender in
the map that `stop` clears.

**InboundAttach.** A file is named by the delivery that created it: `tmp[m]` and
`path[m]` say which file the temporary and the final name lead to, `fd[d]` which
one a download writes, `whole` which have all their bytes. So truncation by a
second open, a rename of somebody else's file and a rename that finds nothing are
what a POSIX file system does. `asked[q]` is the dispatcher between `send_text` and
the insert into `ask_reply_index`; `recognised` are the Messages with a question id.

Composition: `ReplyBridge` contains both sides of the pending map, and
`PluginLifecycle` that map under `stop`; `PairingPump` and `PairingTrigger` each
contain `pair_with_callback` and the directory they share with other challenges;
`SubprocessBoot` takes `Plugin::start` as one step, whose inside is
`PluginLifecycle`; `OutboundQueue` has `stop` as the dispatcher sees it.

## 3. The runs

| run | question | answer |
|---|---|---|
| `bridge` | can a sender leak, be lost, a reply be posted twice or elsewhere, a handler be cancelled without cause, an event vanish; does the bridge implement `ReplyDelivery`; do handlers end and events settle? | all holds: three messages of one session, one with audio and one filtered, one of another session, three events |
| `bridge_slot` | does the last inbound win its slot? | no (finding 1) |
| `bridge_swallow` | is an addressed reply that a handler's oneshot took always shown? | no, by two paths (finding 2) |
| `pump` | is what the operator is told true; does cancel stop; do QRs arrive; which pumps can lose their entry; does it implement `PairingPromise`? | holds; only a restarted challenge can |
| `pump_orphan` | is every live pump registered? | no (finding 3) |
| `boot` | one socket, tools only on a complete plugin, configuration before environment, every call answered; does it implement `SharedPlugin`? | holds |
| `trigger` | is Linked always a scan; is an end told, whichever store calls fail; does cancel end the task; does it implement `PairingPromise`? | holds |
| `trigger_stamp` | does the error arm keep the state, with a close in between, or when the read fails? | no (finding 4) |
| `outbound` | order, no stuck queue, no phone left recording, breakers apart; does it implement `AccountMailbox`? | holds |
| `conn` | do both views follow the events, is the topic told each once and in order, does health come right in the end? | holds, for the events that were received |
| `plugin` | is the registry true, does `stop` join the loops, does a stopped plugin come to rest? | holds, but for a stop that overtakes its start and for namesakes |
| `attach` | is an announced file whole, is a lost one announced by a twin, are quoted questions recognised? | holds, but while a redelivery rewrites the file |

Every property of a passing run has a mutant in `PROJECT.json`: a plausible fault
of a mapped definition under which TLC finds the property violated.

The properties, in words:

- `SlotsAreLive`, `WaitersReachable`: the map holds only senders of running
  handlers of that session; and a handler that still waits has its sender in the
  map or in the dispatcher's hand. Together: no reply is lost in a leftover
  sender, no handler waits for a sender that is gone.
- `AtMostOnce`, `OwnConversation`, `CancelHasCause`, `Accounted`: no double post,
  no cross-talk, a handler is cancelled only by another message or a non-text
  event of its session, and every published event is somewhere.
- `DeliverySpec` (refinement), `HandlersFinish`, `EventsSettle`.
- `OnlyRestartsOrphan`, `LinkHolds`, `NoSilentEnd`, `CancelStops`,
  `QrReachesOperator`, `PromiseSpec` (refinement) for the pump.
- `OneSocket`, `SendsNeedSession`, `ConfigureIsPreferred`, `CallsReturn`,
  `BootSpec` (refinement) for the boot.
- `LinkedIsScanned`, `EndIsTold`, `CancelEnds`, `PromiseSpec` (refinement, of the
  same abstract module as the pump) for the trigger. `EndIsTold`: whatever the
  store did, the screen ends with a link or an error; the store has the same
  unless the one update that was to write it failed.
- `SettledInOrder`, `AcceptedSettles`, `PausedAfterVoice`, `BackOffHasCause`,
  `MailboxSpec` (refinement) for the queue.
- `ViewsFollowFeed`: whoever gets the forwarder's mutex finds `LifecycleState` and
  `PairingState` in step with each other and with everything received.
  `FeedSpec` (refinement): no event is told twice, out of order, or after it was
  given up. `HealthSettles`: in the end health is right about the connection, unless the plugin was stopped or the last transition was missed.
- `RegistryIsTrue`: a registry entry is that of a running plugin with that label,
  unless it was launched after its own stop; a running plugin keeps its entry
  unless a namesake starts or stops. `StopJoins`: a loop that runs after `stop`
  returned is one whose join timed out or whose handle came too late.
  `StopSettles`: even then it ends, and so does every handler that waits in the
  map, the ones included that inserted after it was cleared; a handler whose
  download never ends may stay in that.
- `AnnouncedWhole`, `LostToTwin`: two downloads of one message id truncate and
  rename under each other, and yet an announced file is whole as soon as all of
  them wrote without an error, and a download that finds its file gone lost it to
  one that announces it. `QuotesRecognised`: only a lookup before the insert
  misses a question.

## 4. Bounds and fairness

The bridge's races need two handlers of one session, one of another, and a text,
a non-text, an addressed and an unaddressed event; the run has them, and a
message too old to be answered. Every text there has a body; the empty one's
guard (`Deliverable`) differs from the unaddressed one's only in its cause. The
broker's queue is bounded by the set of events, each published once. Pumps are
numbered to `MaxPumps` = 2, one restart or two challenges of one directory, and
QRs to `MaxQr` = 1: further rotations repeat `FireQr` and `Forward`. The trigger
has two challenges of one directory. The boot has four configures (a good one, a
disabled account, an empty and a malformed one), two tool calls and the eager
start. The queue has five calls: media, text, voice note and QR image of one
account, a text of another account that no instance serves. Its allowlist holds
both chats; a refusal is `Refuse`, always possible, so the list's contents do
not matter there. The channel of `conn` keeps two events and four are sent:
enough for a late subscription, a lag that skips a transition, and events after
it. `plugin` has two plugins of one label, one through its configuration and one
by default, and a handler of one of them; its loops are the inbound and the
dispatch loop, as the lifecycle loop does in this module what the dispatch loop
does, except to answer. `Handles` is a constant and the theorems hold for three.
`stop` is called once for a plugin, `start` any number of times. `attach`
delivers a voice note twice, an image once, and two answers that quote one
question; that image and answers do not share a file is part of the instance,
not of the module. The parameters are CONSTANTS, and the theorems of section 5
hold for all values. No symmetry is used. Deadlock checking is off where the
finite sets of messages, events, pumps or calls are used up in the end.

Fairness is weak and only on what the tokio runtime schedules: handlers and
their timers, the dispatcher, pump, publisher and trigger tasks, calls waiting
for the cell (its semaphore is fair), the forwarder, `stop`, the loops of a
cancelled plugin and, in `PluginLifecycle`, a handler that waits in the map
(`Wake`). It is strong for the forwarder's arms: they queue
for a mutex that callers of `health()` take again and again, and tokio's mutex
serves its waiters in order. Nobody is obliged to send messages, reply, request
or cancel; wa-agent's `connect` in the pairing modules and in `PluginLifecycle`,
an inbound audio download (`bridge.rs:205`) and a media origin may take for ever,
so no step of `start` and no `Insert` of a handler is fair, and what must happen
in spite of them rests on cancellation (`CancelStops`, `CancelEnds`,
`StopSettles`) or on the timer (`AcceptedSettles`). Two things are assumed to return: a broker publish and a
`Session::send_*` (wa-agent buffers them in its outbox). In `SubprocessBoot` a
connect returns or fails as well; the code sets no timeout there, and with one
that hangs no call would be answered.

## 5. What is proved

All proofs use only the modules' named assumptions on constants (their types,
and that the null values are none of the elements). Each is an inductive
invariant: `Init` implies it, each action keeps it, it implies the property.

| theorem | statement |
|---|---|
| `ReplyBridgeProofs` `TypeCorrect`, `SlotsStayLive`, `WaitersStayReachable`, `NoCrossTalk`, `NoDoublePost` | the bridge's invariants |
| `CancelsHaveCauses`, `EventsAccounted` | no handler is cancelled without cause, no published event vanishes |
| `BridgeDelivers` | `Spec => DeliverySpec`: every step of the bridge is a step of `ReplyDelivery` or a stutter |
| `HandlersNeverHang`, `QuietIsSettled` | a bridging handler can always move and never goes back; a quiet bridge has settled every event |
| `SerialInboundWins`, `OutsideTheWindow` | the conditions under which the claims of findings 1 and 2 are true |
| `PairingPumpProofs` `PumpTypeCorrect`, `OrphansAreRestarts`, `FreshIdsAreCancellable`, `LinksHold`, `PumpsReport` | the pump's invariants; with ids never started twice every live pump can be cancelled |
| `PumpsKeepPromise`, `PumpsAreServed` | `Spec => PromiseSpec`; no QR is stuck while its pump pairs, no cancelled pump waits for wa-agent |
| `SubprocessBootProofs` `BootTypeCorrect`, `NeverTwoSockets`, `ToolsFindSession`, `EnvironmentIsFallback` | the boot's invariants and its action property |
| `OnePluginForAll`, `NobodyWaitsForNothing`, `CallsOnlyAdvance` | `Spec => BootSpec`; a waiting call finds the permit free or its holder at work; a call only moves forward |
| `PairingTriggerProofs` `TriggerTypeCorrect`, `LinksAreScanned`, `EndsAreTold` | the trigger's invariants |
| `TriggerKeepsPromise`, `StampOnlyReopens` | `Spec => PromiseSpec`; the error arm changes a state only by reopening a challenge that was closed meanwhile or by setting back one it could not read, and never a link (finding 4) |
| `OutboundQueueProofs` `OutboundTypeCorrect`, `VoiceNotesPause`, `BreakersAreApart` | the queue's invariants |
| `OrderIsKept` | events of a topic are settled in the order they were accepted |
| `QueueIsMailbox`, `NothingForgotten`, `IdleIsSettled` | `Spec => MailboxSpec`; an accepted event is in its queue or in hand until it has a fate; an idle dispatcher has left none |
| `ConnStateProofs` `ConnTypeCorrect`, `ViewsFollow` | the forwarder's invariants, for every capacity and any number of events |
| `FeedImplemented`, `ToldOnce`, `HealthRightAtRest` | `Spec => FeedSpec`; the positions told grow strictly, so no event is published twice; a forwarder that received all there is, or ended by itself, is right about the connection |
| `PluginLifecycleProofs` `PluginTypeCorrect`, `RegistryStaysTrue`, `StopJoinsLoops` | the invariants of `start` and `stop`, for any plugins, labels and loops |
| `DistinctLabelsAreExact`, `StoppedStaysStopped`, `StoppedRests` | with a label for each plugin the registry is exact; nothing revives an ended loop; of a launched plugin whose stop returned and whose loops ended no loop and no handler begins again |
| `InboundAttachProofs` `AttachTypeCorrect`, `AnnouncedFilesWhole`, `LostFilesAreTaken`, `QuotesAreRecognised` | the invariants of attachments and the action property of quotes |
| `OneDeliveryIsSafe`, `DownloadedFilesRest` | only a redelivery can tear or lose a file; a file is not touched once its downloads are over |

The strengthenings, and why the properties are not inductive alone:

- Bridge, `IInv` = `TypeOK`, `ChannelInv`, `PlaceInv`. `ChannelInv` ties each
  handler's place, the state of its oneshot, the slot of its session and the
  dispatcher's hand: without it a removed slot could have held anybody's sender.
  `PlaceInv` says that an event is in one place of queue, hand, wire, mail of one
  handler, discarded or failed; at most one post follows from it, and it is what
  the refinement needs, whose mapping reads an event's stage off its place.
  `CauseInv` adds that a handler past its insert has a channel (its existence is
  the cause a later cancellation cites). `WaitInv` says that what a handler waits
  for can still come, and that a value waits only for a handler that runs.
- Pump, `RegistryInv` (born pumps are numbered without gaps, the newest one of a
  challenge holds its entry or has ended) and `LinkInv` (what fired, was reported
  and is on disk). `ServeInv`: the publisher runs at least as long as its pump
  pairs, and has never forwarded more than was fired.
- Boot, `BootInv`: the holder of the permit, the empty cell and the sockets go
  together (`PermitInv`), a call past the cell finds it filled (`ToolInv`), the
  recorded slice is the one of a recorded configure (`SliceInv`). The refinement
  adds `AnswerInv`: a call has an answer exactly when it is done.
- Trigger, `TriggerInv`: only a fresh client shows QRs and only a scanned one
  that showed any comes back Ok; a Linked read by the error arm was a real one
  (`ClientInv`); between write and push an open challenge holds the result or is in
  `unwritten` (`ResultInv`). The refinement adds `LinkInv` (Linked is written by the
  task's last two steps only, so nothing of its own finds it and writes over it) and
  `TaskInv` (what the error arm read is still in the store, or the challenge was
  closed since, or the read failed).
- Queue, `OutboundInv`: only a voice note composes and pauses (`VoiceInv`), an
  open breaker has a failed tool call of its topic (`BreakerInv`). `LineInv`, for
  the order: a line is the event in hand followed by the queue, and holds only
  accepted, unsettled events of its topic, each once. `Kept` adds the converse,
  that an accepted event without a fate is in its line, which the property of the
  order does not need and the refinement does.
- Forwarder, `PosInv` (the receiver's position, the event in hand, the missed and
  told events, who holds the lock), `LifeInv` (the one view at all times) and
  `PairInv` (the other one, and where it may lag). The property speaks of moments
  without the lock only; the steps of an arm need to know what is half done.
  `NewestInv` names the last transition the session emitted (so that no induction
  over the feed is needed), `EndInv` how a forwarder can have ended.
- `PluginLifecycle`: the registry's property is inductive as it stands. `StopJoins`
  needs `HandlesKept`: while `stop` is under way a running loop's handle is about
  to be recorded, recorded, in the hand of `stop`, or was dropped by a timeout.
  `LateInv`, for the exact registry: a launch that found its token cancelled comes
  after the plugin's one stop, so nobody removes its entry.
- Attachments: `Stations` (where handler, download and file of a delivery agree),
  `OwnFiles` (names lead to files of their own message), `FilesSound` (every named
  or open file is whole, or a writer that truncated it last is still to write it,
  or a write to it failed: the property alone does not survive a rename), `Taken`
  (a temporary name that is gone was renamed by a twin).

The refinements go step by step: each action is one step of the abstract module or
leaves its variables alone. `ReplyDelivery`, `EventFeed`, `AccountMailbox`,
`SharedPlugin` and `PairingPromise` hold what a user of the component may rely on,
and none of the permits, channels, locks and timers that provide it.

A theorem with a hypothesis says so in its statement, and the hypothesis excludes
one behaviour of the environment or the scheduler: handlers of one session that overlap
(`Serial`), a reply in the window between timer and drop (`WindowMissed`), one for
a publish that fails (`AnsweredPublishes`), a label of two plugins
(`DistinctLabels`), a message delivered again (`OnlyDelivery`), an id started
twice (`FreshIds`). They bound the findings of section 6: what a run refutes
without the hypothesis holds with it.

Every safety invariant and action property of the passing runs is proved, and so
are all six refinements. Only model-checked is liveness (`HandlersFinish`,
`EventsSettle`, `CancelStops`, `QrReachesOperator`, `CallsReturn`, `CancelEnds`,
`AcceptedSettles`, `HealthSettles`, `StopSettles`), which the prover cannot do
under fairness. For most of these its safety part is proved: that whoever waits
waits for something that can come (`HandlersNeverHang`, `NobodyWaitsForNothing`,
`PumpsAreServed`), that steps go forward only (`CallsOnlyAdvance`,
`StoppedStaysStopped`), and that where things come to rest the goal is reached
(`QuietIsSettled`, `IdleIsSettled`, `HealthRightAtRest`) and kept (`StoppedRests`). What is left to TLC is
that the scheduler gets there. `TypeOK` is checked by the runs `bridge` and `plugin`;
that of the other modules is proved and left out of their runs.

## 6. Where the code and its comments part

With a run that shows it:

1. `bridge.rs:104`, `:85`: timeout and publish failure remove the slot by key and
   can evict the sender of a newer message ("Last inbound wins", 76).
2. `dispatch.rs:144`: an addressed reply sent into a oneshot is taken for delivered
   ("so the user still gets the message"), although the receiver may be dropped
   unread: its timer has fired and the handler has not dropped it yet, or the
   handler's publish is under way and then fails (`bridge.rs:83`). `OutsideTheWindow`
   proves that these two are all.
3. `pairing_admin.rs:228`, `:295`: a restarted challenge's old pump removes the
   new pump's entry, which then cannot be cancelled.
4. `pairing_trigger.rs:310`: the error arm re-reads the state "so we don't
   accidentally downgrade" (300). A challenge closed between the read and the write
   is reopened, and one whose read fails or finds nothing counts as Pending
   (304-309) and is set back to that. `StampOnlyReopens` proves that these are all.

Seen while modelling; the model does what the code does, and where a property
meets the case it names it as an exception:

- `bridge.rs:99`: a superseded handler renders the apology when `on_timeout` is
  `apology_text` ("Silent Noop is the right call here"; `Superseded`).
- `main.rs:102`: a configuration delivered after the boot is recorded and never
  applied ("Operator YAML changes re-flow via `plugin.configure`", 288;
  `ConfigureIsPreferred` is about the configuration a boot reads).
- `bot_registry.rs:45`: "so the registry doesn't hand stale Arc<Session>s to admin
  callers". A `stop` that overtakes a connecting `start` leaves the entry for good
  (`late` in `RegistryIsTrue`), and a plugin without instance has the label of a
  plugin with instance `default`.
- `plugin.rs:183`, `session.rs:145`: the session cell is set only after the
  connect; a second `start` opens a second session and drops it (`SecondSession`).
- `events.rs:59`: a file "has already been downloaded to disk when this event is
  published"; a redelivery truncates and rewrites it, and one whose write fails
  leaves it torn (`Spoiled` in `AnnouncedWhole`).
- A question rendered by a waiting handler is never indexed (`AskReactive`), so a
  quote of it is not recognised.
- `pairing_trigger.rs:186`, `:249`, `:275`, `:310`: errors of the store's updates are
  ignored, and the operator is notified of a result the store does not have. A link
  told that way is still open in the store and may be closed later (`unrecorded`).
- `pairing_trigger.rs:192`: `on_qr` writes to the store and then notifies; a
  challenge closed in between is shown as QrReady again after its end (`PushQr`).
  No code or comment excludes it; it is why only a link is final in `PromiseSpec`.
- A session that goes away without a Disconnected event leaves health connected
  (`Leave`); `HealthSettles` compares health with what the session last said.
- `auto_discovery.rs:116` publishes the QR image with kind `photo`, which
  `dispatch_event` rejects (`Reject` in `OutboundQueue`) after the caller was told
  ok; `subprocess_dispatch.rs:8` calls its payloads byte-equivalent to the tools',
  but it does not normalise recipients.

## 7. What is not modelled

- wa-agent, the broker, the daemon, the SDK, the file system and the breaker:
  external, only what the code here relies on.
- `PairingState`'s QR: nothing in the runtime calls `set_qr`, so it stays None.
  `status()` reads field by field without the forwarder's mutex and can therefore
  return a mixture; that is so by its shape and no property is spent on it.
- `dispatch_route` and the admin, metrics and HTTP handlers of `auto_discovery.rs`:
  each maps a request and a state to a response and changes nothing.
- `config.rs`, `env_config.rs`: parsing and defaults, pure functions of their input;
  `SubprocessBoot` has which of them a boot reads.
- `session_id.rs` (a hash: sessions are values here), `events.rs` (serialisation),
  `transcriber.rs` (one request, one reply, no state), `pairing_adapter.rs` (the
  in-process twin of handlers that are modelled as publishers), `lib.rs`.
- Recipient forms, MIME types, QR rendering, the rendering of questions, the ACL,
  the typing mode, JSON shapes, logging, telemetry (the breaker gauge included).

What remains of the code's own state and order of steps is in a module; more would
be the conversions and responses above, which have no behaviour over time.

## 8. The plan

In order of importance; all of it is done: `ReplyBridge` with `ReplyDelivery`,
`PairingPump` and `PairingTrigger` with `PairingPromise`, `SubprocessBoot` with
`SharedPlugin`, `OutboundQueue` with `AccountMailbox`, `ConnState` with `EventFeed`,
`PluginLifecycle`, `InboundAttach`, and for each of them the proofs of its safety
properties. What could still be proved is the safety part of `CancelEnds`, and
an abstract module each for `PluginLifecycle` and `InboundAttach`.

What a change of the code would call for: a slot removed by identity instead of by
key makes `LastInboundWins` a property of the run `bridge`; a registry of pumps
that compares before it removes does the same for `LiveIsRegistered`, a
compare-and-set in the store for `StampKeepsState`. A QR that the runtime sets
belongs into `ConnState`, and a reload of the configuration into `SubprocessBoot`.
