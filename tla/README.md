# Handfast in TLA+

Handfast is a KDE-Connect-compatible daemon for Linux desktops with a terminal
and a graphical front end. This directory holds TLA+ models of the daemon, of
its link to other devices and of its clients, the TLC configurations that check them on small instances, and TLAPS
proofs that hold for every instance. Line numbers refer to files under
`crates/`. `PROJECT.json` maps every definition to the lines it models.

Contents: [the system](#the-system), [the modules](#the-modules),
[the runs](#the-runs), [fairness](#fairness), [the proofs](#the-proofs),
[what the code does otherwise than it says](#what-the-code-does-otherwise-than-it-says),
[what is not modelled](#what-is-not-modelled), [the plan](#the-plan).

## The system

The daemon `handfastd` is the only process that owns the network, the SQLite
store and the display-server connection. `hfctl` and `handfast-gui` talk to it
over a Unix socket.

| part | state | operations | talks to |
| --- | --- | --- | --- |
| device manager (`daemon/device.rs`) | device table, links, pairing slots, parked requests, timers, transfer registry | one handler per command of `Manager::run`; reader, writer, dial and timer tasks | store, bus, handshake, plugins, transfers |
| transfers (`daemon/device.rs`, `transfer.rs`, `payload.rs`, `backends.rs`) | staging files, finished files, cancel flags, temporary copies | `send_file`, `stream_outgoing`, `spawn_receive`, `receive_stream`, `cancel_transfer`, `on_transfer_outcome` | device manager, bus |
| supervisor (`core/supervise.rs`) | table of entries, shutdown flag, one handle slot per child, failure counts | `spawn`, the watcher loop, `shutdown_all` | every daemon subsystem (`daemon/main.rs`) |
| IPC (`ipc/client.rs`, `server.rs`, `codec.rs`) | queue of waiting callers, write lock, dead flag, client sinks | `request`, reader task, `handle_connection`, `dispatch_events` | request handler of `main.rs`, bus |
| event bus (`core/bus.rs`) | a bounded broadcast channel | `publish`, `subscribe` | everything |
| process (`daemon/main.rs`, `core/store.rs`, `protocol/tls.rs`) | device id, certificate and key, socket | start-up, termination | everything above |
| discovery and handshake (`daemon/discovery.rs`, `handshake.rs`, `tls.rs`) | the stage of each connection | announce, dial, accept, identity exchange, pin check | device manager |
| framing (`ipc/codec.rs`, `protocol/packet.rs`) | bytes read and not yet returned | read and write of a message | IPC, links |
| plugins (`plugins/`) | small maps per plugin | one packet in, packets and events out | device manager, D-Bus |
| desktop listeners (`daemon/dbus.rs`) | the last level reported | poll, watch, republish | D-Bus, sysfs, bus |
| interactive clients (`tui/`, `gui/`) | device, transfer and notification lists, request outcomes | reducers over events, keys and clicks; reconnect loop | IPC |
| commands (`tui/cmd.rs`, `tui/filemanager.rs`) | none; menu files on disk | one request or several, then exit | IPC, file managers |
| Wayland bridge (`wayland/`) | clipboard watch, idle inhibitor, input devices | get, set, watch, inject | display server |

What is hard about it:

- connections of one device overlap, and their closings arrive late;
- a pairing may be decided by the peer, by the user, by a setting, by a timer
  and by a disconnect, and it must be written to disk;
- transfers run on tasks of their own while the manager decides, the user
  cancels, the disk fails and the daemon dies;
- a watcher, its child, a superseding spawn and a shutdown share one handle;
- replies on the IPC socket carry no identifier, so everything rests on order,
  also while the connection is being declared dead;
- every queue is bounded and most senders drop when it is full;
- two daemons run the same protocol at each other, with requests that cross,
  announcements that are old and connections only one side knows to be dead;
- what the clients show is put together from snapshots, events and answers that
  overtake one another;
- the process may be killed between any two writes of what it must keep.

## The modules

| module | models |
| --- | --- |
| `DeviceManager` | the manager actor: links, pairing, trust rows |
| `TransferRegistry` | the manager's registry of transfers, shared by both directions |
| `Incoming` | receiving: tasks, transfer engine, save directory (extends `TransferRegistry`) |
| `Outgoing` | sending: tasks, payload listener, source files (extends `TransferRegistry`) |
| `Supervisor` | the supervision tree and the one-shot tasks under it |
| `Ipc` | one client connection, the daemon's session for it, the event relay and the bus |
| `RequestReply` | what a connection promises its callers, abstractly |
| `TwoDaemons` | two managers joined by a control connection (two instances of `DeviceManager`) |
| `Link` | announcements, dials, the control handshake, crashes, changes of address, foreign devices |
| `Plugins` | every plugin's state and handler, dispatch by declared type, replies, events |
| `Host` | the daemon process: start-up, identity on disk, socket, kills |
| `Framing` | the three ways a message is cut out of a byte stream |
| `Monitors` | the battery poller, the UPower watcher, the notification listener |
| `Clipboard` | clipboard get and set, and the watcher thread |
| `Terminal` | the terminal client: reducers, event loop, background requests, what a frame shows |
| `Gui` | the graphical client: reducer, clicks, driver thread, channels |
| `Hfctl` | one run of a command against the daemon's request handler |
| `FileManager` | `hfctl filemanager install`, `update`, `remove` |
| `MC*` | instances for TLC |
| `*Proofs` | theorems: `DeviceManagerProofs`, `SupervisorProofs`, `IncomingProofs`, `TransfersProofs` (both directions), `IpcProofs`, `IpcEventsProofs`, `HostProofs`, `TerminalProofs` |

Several MC modules put components that share no state side by side: a variable
(`part`, `direction`, `client`, `pair`) picks the component of a behaviour, and
the variables of the others keep their first value. The states are the sum of
the components' states, not the product.

Operators marked `(mutant)` are wrong versions of the operator that follows
them. No specification uses them: each shows that the property named for it in
`PROJECT.json` notices such a change.

### DeviceManager

The actor takes one command at a time, so every handler is one action. The
inbox is not a variable: it merges independent producers, each with at most one
command outstanding, so any order of handlers is an order in which the commands
may be enqueued. A connection is a reader task (`conn`), a bounded outbound
queue (`outq`) and a writer task; `outbound` says which connection a device's
entry feeds. A connection that was replaced keeps its reader until it closes.

Pairing has two slots: `pending` holds the oneshot sender of a local
`start_pairing` call, `parked` an incoming request waiting for the user. `Orphan`
is a sender whose caller has timed out and left. Each parked request starts a
timer; nothing in a timer says which request it was for. The peer is arbitrary:
it may send any pair packet at any time. The store may reject any write
(`unsaved` remembers for which device), and `Restart` rebuilds the table from the
rows. `presented` is a history variable for the trust properties. `label` is what
the bus last said of a device; the "unpaired" that declines a repeated request of
a device that stays paired is written "declined", to keep it apart.

| actions | code |
| --- | --- |
| `OnAnnounce`, `DialFails`, `OnConnected`, `OnClosed` | `on_announce`, dial tasks, `on_connected`, `on_closed` |
| `OnPairAnswer`, `OnPairAutoAccept`, `OnPairUnreachable`, `OnPairPark`, `OnPairRevoke` | the cases of the pair packet handler |
| `OnPluginPacket` | any other packet: plugins may queue replies |
| `BeginPairing`, `CallerTimesOut`, `Unpair`, `AnswerIncoming`, `AnswerExpired` | the IPC commands |
| `PairingTimeoutFires`, `Tick` | timers |
| `WriterSends`, `WriterFails` | the writer task |
| `Restart` | the daemon stops at any point and starts again |

### TransferRegistry, Incoming, Outgoing

The manager creates a registry entry and ends it; the tasks read a cancel flag
and send one outcome. A task is a record with a program counter. Its steps end
where it waits: for the engine's lock, the payload connection, an external copy
tool or the manager.

`Incoming` has the staging file of each name, the finished files as a function
from `<<name, copy number>>`, the files copied into a URI target and the
announced path. Contents are reduced to who wrote them and how many bytes there
are. Faults of writes, renames, copies and removals and a crash are actions or
outcomes selected by `Faults`. `abort` drops the engine's entry before it removes
the staging file, and no caller looks at its result; `unremoved` remembers which
transfers had a file the disk refused to remove. A stream of unknown size may
last for ever; only its first `MaxBytes` bytes are counted. A crash keeps the
disk and loses the registry and the tasks.

`Outgoing` has the source file's length, which its owner may change at any time,
the bytes the receiver took, and the temporary copy of a URI source. `SendFails`
is a `send_file` call that returns an error after it has begun to copy its
source: it registers nothing, and `orphans` says where such calls left the copy.
A call that fails before that changes nothing and is no step.

### Supervisor

A spawn call, its watcher and its child are one record, because a call makes one
of each at a time. Every access to shared state is a step of its own: the
shutdown flag, the table, the slot that holds the child's `JoinHandle`. An
aborted task ends at its next await; a dropped handle lets its task run on, as
tokio does. `OneShot` names the tasks whose factory takes its future from a cell:
two of the daemon's nine, "devices" and "announcement-bridge"
(`daemon/main.rs:192-207`, `250-266`). The cell belongs to the closure of its one
`spawn`, so the second child of such a call gets nothing (`hollow`) and returns
`Ok`.

### Ipc and RequestReply

`Ipc` has the calls in flight, the write lock, the queue of waiters, the dead
flag, the reader task, the socket in both directions, the session and its
handler, the bus and the relay. A call's steps end where it waits or touches
shared state, which makes visible the window between registering a waiter and
writing the request, and the one between a timeout and the drain that follows
(which the terminal client's multi-threaded runtime has; on the graphical
client's single thread the two are one step). The socket takes `WireCap` requests while nobody reads. `lagged` is set when the
relay is a whole bus behind and loses the oldest event.

`RequestReply` has two variables: which requests were handled and what each call
returned. `Ipc` implements it under the mapping `Promise`: `handled` is
`handled`, a call is "idle" before it starts, "open" while it runs, and then its
result.

### TwoDaemons and Link

`TwoDaemons` is two instances of `DeviceManager`. The writer of one is the reader
of the other: `AtoB` takes the head of A's queue and is whichever handler of B
the packet calls for. Both users and both timers act at any time. `calm` records
whether anything happened after which the code cannot be expected to agree (see
`Agreement`).

`Link` starts earlier: datagrams that are lost, repeated and late, the dial that
`on_announce` makes, and a connection with a stage at each end: the plaintext
identity, TLS with the roles the code assigns, the identity inside TLS, the
cross-check, and the hand-over to the manager, which replaces an older
connection. A device may crash without its peers noticing, break a connection,
or move; devices in `Foreign` say anything at any stage. The handshake's TLS
stage completes between two willing ends or breaks. The read timer of the
plaintext line is one outcome here; the code starts it anew at every byte
(`daemon/handshake.rs:55`), so a peer that sends its line a byte at a time holds
the task up to `MAX_PACKET_LEN` times as long.

### Plugins

One field of `state` for each plugin that keeps something, one operator per
handler, and `OnPacket`, which hands a packet to every plugin that declares its
type, queues the replies while there is a connection with room and publishes the
side events. The reader of a connection that was closed or replaced may still
deliver. A packet has the fields the handlers read, and any of them may be
missing.

### Host, Framing, Monitors, Clipboard

`Host` is the program counter of `run` up to serving, with the two files of the
certificate each written to a temporary file and renamed. A crash is possible
at every step and loses what is not on disk; so are a failing step, SIGTERM and a
wipe of the store.

`Framing` delivers any number of bytes at a time to one of the three readers. A
byte names its message and its place, so losing, repeating or mixing bytes
shows. The stream may end at any byte.

`Monitors` and `Clipboard` are loops around sources that change between any two
reads. A UPower reading is two reads; a clipboard event is followed by a read of
each selection. Reads may fail. `heard` is what the clipboard's receiver was last
sent.

### Terminal, Gui, Hfctl, FileManager

`Terminal` has `State` as one record and the reducers as operators on it; the
loop's `select!` is a choice of action. Up to `MaxTasks` background requests run
at once and their outcomes arrive in any order. `screen` is what the last frame
shows, reduced to what `view.rs` reads. `Gui` has the reducer, the driver thread
and the two channels between them; `Offered` are the clicks the current view
has. Both include the daemon's answer to each request, at the moment it is
handled. A request of `Gui` that times out spends the connection: later requests
on it fail at once, events still arrive, and when the late answer comes the
client's reader ends (`owed`).

`Hfctl` is one command: connect, request, reply, print, exit, with the list and
the prompt of `send --pick` and the window of `logs`. It gives up on a reply after
the client's ten seconds, while the daemon may still handle the request. `did` and
`said` record what the daemon did and what was printed. `FileManager` writes one
menu file after another, stopping before or in the middle of any of them, removes
them with errors ignored, and edits `uca.xml`, a sequence of blocks, in place: a
write that is interrupted leaves a beginning of the new content (`cut`).

## The runs

States are distinct states found by TLC. Seven runs pass:

| run | instance | states |
| --- | --- | --- |
| `device_manager` | one manager: 1 device, 2 connections, 2 certificates, 2 callers, queue of 1, timeouts of 1 tick, 2 timers, 1 dial, both settings of auto-accept, symmetric; or two daemons: 1 caller each, queues of 2, 4 user steps | 342,941 |
| `peers` | `Plugins`: 2 players, 2 commands, 1 notification, 3 packets, 2 connections; `Link`: the four worlds below; `DeviceManager` with 1 connection, for liveness | 22,421 |
| `supervisor` | 2 calls, 2 names, one of them one-shot, cap reached at the second failure; symmetric | 413,744 |
| `transfers` | receives: 2 transfers, 2 names, sizes 0, 3 and unknown, chunk 2, 2 copies, both targets, all faults; sends: 2 transfers, sizes 0 and 2, files of up to 3 bytes, chunk 2, every failing call | 415,023 |
| `ipc` | 2 requests, 3 events, bus of 2, wire of 1 | 478,008 |
| `front_ends` | terminal: 2 devices (1 known at first), 2 notifications, 1 transfer, caps of 1, 2 requests at a time, 6 themes; gui: the same daemon, 1 plugin, 7 themes, 1 stop or late answer | 769,399 |
| `desktop` | `Host`: 3 faults; `Framing`: prefix and limit of 2 bytes, 3 messages; `Monitors`: 3 changes, 1 fault; `FileManager`: 2 binaries, 3 operations; `Clipboard`: 2 texts, 2 copies, 1 fault; `Hfctl`: 2 devices, 2 files, 2 changes; `Supervisor`: 2 calls of one name, none one-shot | 171,815 |

Five runs end with a counterexample (`stale_close`, `shutdown_leaves_child`,
`panic_not_survived`, `stalled_receiver`, `wedged_daemon`): a comment or
document the code does not keep, see [below](#what-the-code-does-otherwise-than-it-says).

Why these bounds are enough for the interesting cases:

- two connections of one device is the least that overlaps; devices do not
  share state in the manager, and the proofs cover any number of them;
- two callers is the least where one replaces the other's slot; two timers is
  the least where an old timer meets a new request;
- a queue of one is full after one packet; between two daemons a queue of two
  holds a request and an answer that cross;
- the worlds of `Link` are two devices with crashes and broken connections, two
  that dial each other at once, one with a foreign device, and one where a device
  has taken the address announced for another;
- three packets let a peer announce a command list, replace it and ask for a
  command of the first;
- two transfers with equal or different names is the least that collides; two
  copies is the least where every numbered name is taken; size 3 with chunk 2
  has a full and a partial chunk, and a stream may end before, at and after it;
  of an unknown size the properties tell apart only whether something came, so
  one counted byte is enough;
- a file of 2 that grows to 3 or shrinks to 0 is rewritten in each direction;
- two spawn calls suffice for supersession, shutdown takes both, and the second
  failure reaches the backoff's cap;
- two requests suffice for a swapped reply, a wire of one is full after one
  request, and three events overrun a bus of two;
- two texts are the least where the selection the watcher found is replaced and
  comes back;
- a theme of a front end is a part of the keys or clicks and of the events that
  act on the same rows; every key, click and event is in some theme, and each
  theme lets a list shrink, fill or be replaced while a request is under way;
- three faults let a start be killed twice with a wipe or a failing step between;
  messages of 0 to 3 bytes are below, at and above the limit.

The properties, by run (their comments in the modules say more):

- `device_manager`: `LinkIsCoherent` (queue and fingerprint of a device belong to
  one open connection of it), `DecisionNeedsLink` (a decision still owed has a
  connection to travel on), `TrustIsSound` (trust is only ever in a presented
  certificate, and a trusted device's link presents it), `DiskMatchesMemory` (a
  restart finds the trust in memory unless the last write failed),
  `WaiterHasSlot` (a blocked call owns its slot), `ParkedHasTimer`, `LabelIsTrue`
  ("paired" was last said only of a trusted device, "unpaired" only of one that
  is not, "online" and "offline" as the connection is; the exception is the
  "unpaired" of a declined repeated request), and `Agreement`: two daemons at rest agree on whether they are
  paired, if no connection was lost, nobody unpaired or repeated a request, and
  every decision found room in its queue.
- `peers`: `CommandIsListed` (a confirmation names the command of the peer's last
  usable list, also across connections and old readers), `LinkIsHonest` (who is at the other end
  is who the manager thinks), `NeverDeadlocks` (a read of the handshake times out
  only on a dead connection or a foreign device), `Rejoin` (devices that hear
  each other end up connected), `NobodyWaitsForever` (handshake reads, parked
  requests and pairing calls end).
- `supervisor`: `NoStrayWatcher` (a watcher is reachable by whoever must stop
  it), `HandleIsTransient` (the slot holds a handle only between parking and
  retaking), `ShutdownAwaitsWatchers` (when `shutdown_all` has returned, a watcher
  still at work was entered after the drain or had been superseded before it, the
  two it cannot have awaited), `RestartPolicy` (only crashes are restarted, after a
  delay in range).
- `transfers`: `StagedBytes` (streams never mix), `NothingLeftBehind` (a
  staging file without a transfer is a crash's or could not be removed; failures
  and cancels leave nothing the disk agreed to remove; a send's temporary copy
  stays only if it could not be removed, if it was empty, or if the call broke
  off while it was made or for want of a port), `FinishedMeansAll` (finished files
  are whole, and so are finished sends of a source that did not change),
  `OneVerdict`, `DeliveredStays` (an announced local path has the transfer's
  bytes, and a finished file is replaced only when every numbered name is taken;
  nothing is said of URI targets), `TransferEnds` (a receive of a known size, and
  any that is cancelled, ends whatever the sender does; a send ends or waits for
  ever for its receiver).
- `ipc`: `QueueIsWireOrder`, `EventsInOrder`, `ImplementsRequestReply` (so every
  caller gets its own reply or an error), `RequestReturns` (whatever the daemon
  does, a call returns, unless it waits at or before its own write while a write
  is stuck under the lock).
- `front_ends`: `ScreenIsCurrent` (a waiting loop has drawn what it holds),
  `ShownIsTarget` (keys and clicks act on what is shown), `CardsAreTable` (the gui
  has the daemon's devices once all has arrived), `ClientsSettle` (the gui
  ends up on a working connection to a daemon that stays up and answers in time,
  also after a stop or a timed-out request; the terminal reports a pairing).
- `desktop`: `StableIdentity` (one device id until the store is wiped, one
  certificate, with its own key), `FramesAreWhole`, `WatchersAreCurrent` (at rest,
  what the listeners' receivers were last sent is how things are; of the clipboard
  the text found at the start, a cleared selection and a failed read are never
  sent), `BatteryIsReported`, `ReportIsTrue` (what commands claim was done, and at
  most one thing more was done than was printed; the exceptions are listed
  [below](#what-the-code-does-otherwise-than-it-says)), `UserActionsKept` (the
  user's part of `uca.xml` stays, except that an interrupted write, which is not
  reported as a success, may lose the end of it), `ComesBack` (a started daemon
  serves its socket, a crashed task that is not one-shot runs again),
  `StopsWhenTold` (`shutdown_all` and a dropped watcher end; a command ends or
  waits for its user, whatever the daemon does).

Several of these are conjunctions of a statement per component; the conjuncts
are properties of the component modules with a comment each. `TypeOK` of
`DeviceManager` is checked and proved, those of `Supervisor`, `Incoming`,
`Outgoing` and `Ipc` are proved; those of the other modules state the types for
the reader.

Deadlock is not checked where the system may really stop: all transfers ended,
all calls returned, shutdown done, a command exited, or the bounds of the
environment reached.

## Fairness

- Nearly all of it is weak fairness of a task's own steps: the runtime polls a
  task that was woken. Nothing is assumed of peers, users and other programs,
  except where this list says so.
- `DeviceManager`: time passes, a timer that is due is delivered and a
  caller whose wait is over returns.
- `Link`: devices go on announcing themselves (`discovery.rs` has an interval),
  handshake tasks and their read timers run, TLS between two willing ends
  completes, and of the announcements repeated for ever some arrive: strong
  fairness, for between two of them the receiver may be unable to dial. Moves,
  crashes and broken connections are bounded, so that the network is eventually
  quiet.
- `Supervisor`: watchers, spawn calls and `shutdown_all` go on, an aborted
  child ends, and so does one that found its cell empty, which has nothing to
  do. Nothing is assumed of any other child.
- `Incoming`: the receiving task goes on. Every read has a timeout
  (`daemon/device.rs:1419`), so the sender need not do anything. The external
  copy tool is assumed to return.
- `Outgoing`: only the daemon's own steps. Nothing is assumed of the receiver, so
  `TransferEnds` allows a send that waits for it for ever; `stalled_receiver`
  shows such a one.
- `Ipc`: only the client's steps (`ClientSpec`). The daemon may stop reading, never
  answer, or go.
- `Host`: the server task of a process that is not killed goes on. Nobody has to
  start a daemon.
- `Monitors`, `Clipboard`: the poller's timer and the watcher's thread run. The
  watcher reads a selection to its end without a timeout (`wayland/clipboard.rs:80`),
  so this assumes that the program that owns the selection answers or closes.
- `Terminal`: the loop takes events and outcomes and a request ends, with an
  answer or after the client's ten seconds. `Gui`: the driver and the reducer run;
  that the daemon stays up and answers is a hypothesis of the property.
- `Hfctl`: a started command goes on and time passes. Nothing is assumed of the
  daemon.

## The proofs

Eight modules hold theorems, all of them for every value of the constants of the
module they are about. What they assume of the constants is the named `ASSUME`
of that module: numbers are naturals, a queue, a bus, a chunk or a cap that the
code allocates is not zero, the base delay is not above its cap, and the values
that stand for `None`, `""`, an error or an unknown length are none of the
others. TLC evaluates each of these in the runs. No theorem needs fairness.

Each proof has the same plan: an inductive invariant, one lemma per action (or
group of actions that touch the same state) showing that a step keeps it, and the
theorems as its consequences.

### One manager (`DeviceManagerProofs`)

The type invariant and all seven safety invariants about one manager of the
`device_manager` run, for any sets of devices, connections, certificates and
callers and any queue size and timeouts.

| theorem | proves | rests on |
| --- | --- | --- |
| `TypeCorrect` | `TypeOK` | lemmas on what `SendOut`, `PersistTrust`, `Resolve` and `CountDown` return |
| `LinkCoherent` | `LinkIsCoherent` | `TypeOK`; `LinkActions` names the actions that touch a link |
| `DecisionHasLink` | `DecisionNeedsLink` | `LinkIsCoherent` |
| `TrustIsPresented` | `TrustIsSound` (`PinnedMatchesLive` and `PinnedWasPresented`) | `TrustInv`, `LinkIsCoherent`, `DecisionNeedsLink` |
| `TrustSurvivesRestart` | `DiskMatchesMemory` | `LinkIsCoherent`, `DecisionNeedsLink` |
| `WaitersHaveSlots` | `WaiterHasSlot` | `TypeOK` |
| `ParkedHaveTimers` | `ParkedHasTimer` | `CountDownLast`: counting down keeps the newest timer the last |
| `LabelsAreTrue` | `LabelIsTrue` | `KnownLinks`, `LinkIsCoherent`, `DecisionNeedsLink` |

Two invariants are not inductive as they stand. That only presented
certificates are trusted needs `TrustInv`: the live fingerprint, too, is a
presented one, since that is what `persist_trust` pins; and a grant happens only
on a device with a link, so that it never falls through to the empty
fingerprint, which is `DecisionNeedsLink`. That labels are true needs
`KnownLinks`: a device with a connection is in the table, so that a grant that
publishes "paired" has also set the pin.

### The supervision tree (`SupervisorProofs`)

`TypeCorrect`, `NoWatcherIsLost`, `HandlesAreTransient`, `WatchersAreAwaited` and the
action property `RestartsFollowPolicy`: everything the `supervisor` run checks,
for any number of calls, names and one-shot names. The properties become
inductive with `CallsAreSound` (how far a call, its watcher and its child have come
fits together), `TableIsSound` (an entry belongs to a call of that name that has
entered it) and `WatchersAccounted`: at every moment somebody is to see a watcher
end, the call that made it, the table, the call that replaced its entry or the
batch that `shutdown_all` awaits. That the batch is empty when `shutdown_all`
returns is what `ShutdownAwaitsWatchers` rests on.
That the delay stays in range is arithmetic: `BackoffDelayInRange` goes through the
21 shifts that `backoff_delay` allows.

### Transfers (`IncomingProofs`, `TransfersProofs`)

Of receives: `StagedIsCounted`, `EachHasOneVerdict`, `NoPartIsForgotten`,
`FinishedFilesAreWhole` and the action property `DeliveredFilesStay`. The
strengthening is ownership: a staging file belongs to a transfer between the
engine's start and finish, to a daemon that crashed, or to a transfer in
`unremoved` (`PartsAreOwned`); a file
under a final name belongs to a transfer that has come that far and has the
announced length (`FilesAreOwned`); and a task's place, its record and the
engine's table fit together (`JobsAreSound`). `FreeDestinationIsFree` says that
`free_destination` returns a free number if there is one, which is what keeps
delivered files.

Of both directions, over the composition the `transfers` run checks:
`FinishedIsAll`, `OneVerdictEachWay` and `NothingIsLeftBehind`. A send's place in
`stream_outgoing`'s loop bounds the bytes it has moved as long as its source is
the file that was measured (`SendIsSound`); that failing calls leave their copy
only where the code forgets it (`FailedSendCleansUp`) is inductive by itself.

`NothingIsLeftBehind` has a hypothesis, `Roomy`: while files are received into a
URI, every name has a free number. The proof showed that it is needed. A file
waits under its final name for the copy tool; with all numbers taken the next
file of that name overwrites it, and what the first transfer then copies is the
second's file, which stays in the target even if the second fails. TLC finds this
with three transfers and two numbers, one transfer more than the run has. The
code tries 10,000 names (`MAX_NAME_COLLISIONS`). Nothing is assumed of a local
target.

### The IPC connection (`IpcProofs`, `IpcEventsProofs`)

`QueueFollowsWire` (`QueueIsWireOrder`), and `KeepsPromise`: `Ipc` implements
`RequestReply`, the initial state and every step, for any set of requests and any
capacities. The wire order alone is not inductive, because it says nothing of a
connection that is being declared dead, during which replies still arrive for
callers that have left. `Aligned` covers that window: until every waiter has
stopped looking (`Settled`), the queue starts with the replies on their way,
and while the daemon runs it goes on with exactly what the daemon has not
answered. With `SlotsAreSound` (what a oneshot holds is meant for its caller) and
`HandledOnce` (a request is in one place at most, and nowhere once it is handled)
this gives the refinement: an abstract step answers a call with its own
request's result.

`EventsStayInOrder` (`EventsInOrder`), from `EventInv`: the numbers on the wire
grow (`WireInOrder`), those in the bus are the newest ones and later than any on the
wire (`BusInOrder`), and there is no gap between the two while the relay has not
lagged (`NoGaps`).

### Start-up (`HostProofs`)

`IdentityIsStable` (`StableIdentity`), for any number of starts, kills, failing
steps and wipes. The certificate is renamed into place before the key, so a key on
disk has its certificate beside it, which names the stored device id
(`FilesMatch`); `Progress` says what each place of a start has already written,
and `ServedIsStored` that whatever was served is what is on disk. That others
leave the two files alone is part of the model.

### The terminal client (`TerminalProofs`)

`ScreenStaysCurrent` (`ScreenIsCurrent`), `PanelStaysOwn` (`PanelOfDetail`) and
`RepliesReachTheirNote` (`ReplyToSelected`), for any devices, notifications, caps
and number of requests under way. The lemmas are about the reducers, one per
key group, event and outcome: a key handler returns the state it was given or
one that is marked for drawing (`Redraws`); events and outcomes are always
marked and leave the reply alone (`Informs`). The frame does not depend on the mark
(`ViewDirty`), so a state that is drawn and unmarked is still what the screen
shows. The panel needs that what waits in the channel names its device
(`OutcomesKnown`), the reply that the modal is open on the notification the user
asked to answer (`ReplyIsSubject`).

### What is only model-checked

- Liveness, and everything that needs fairness: beyond the prover.
- `Agreement` of two daemons, `CommandIsListed`, `LinkIsHonest` and
  `NeverDeadlocks`: no inductive invariant is written for these yet.
- `ListsAreSound` and `CursorsInRange` of `Terminal`, the properties of `Gui`, and
  with them the conjunctions `ShownIsTarget` and `CardsAreTable`.
- `FramesAreWhole`, `WatchersAreCurrent`, `ReportIsTrue` and `UserActionsKept` of the
  desktop parts.

Induction over data: the library's induction theorems take an operator as a
parameter, which the provers cannot instantiate. Where a proof needs induction
over a sequence (what `Replies` returns of a wire that grows at its end and is
read at its front), it argues by a least counterexample, from
`LeastNatural`; the recursive function inside `Replies` is shown to exist in
the same way (`RepliesDefined`).

## What the code does otherwise than it says

Each of these five is a run that TLC ends with a counterexample; `PROJECT.json`
quotes the statement.

- `stale_close`: the close of a replaced connection clears the entry of its
  successor (`daemon/device.rs:1242`). The peer is shown offline while its new
  connection is read.
- `shutdown_leaves_child`: a watcher keeps its child's handle while it awaits
  it, so `shutdown_all` finds an empty slot, and dropping the watcher detaches
  the child (`core/supervise.rs:185`). A superseding `spawn` (l. 153) leaves the
  old child the same way.
- `panic_not_survived`: plugins have no supervision of their own; they run inside
  the task "devices". Its factory hands over the manager once, by design
  (`daemon/main.rs:192`), so after a plugin's panic the restarted task finds
  nothing and ends, where `plugins/lib.rs:13` promises the plugin anew.
- `stalled_receiver`: after the accept nothing bounds a send
  (`daemon/device.rs:1347`).
- `wedged_daemon`: the ten seconds cover the wait for the reply, not the write
  before it (`ipc/client.rs:130-133`). A daemon that stops reading holds the
  writer, and with it every caller that waits for the lock.

Further observations made with TLC on variants of these models:

- the timer of a decided request declines the next request of that device early
  (`daemon/device.rs:478`); `ParkedHasTimer` therefore speaks of "no later than";
- an answer that comes after the deadline removes the request without telling
  the peer (`daemon/device.rs:1177`);
- the failure after a healthy run is not counted, so the first two delays of a
  series are equal (`core/supervise.rs:248`);
- a crash in a receive leaves a staging file that nothing removes, and further
  receives of that name fail (`daemon/transfer.rs:80`);
- with every numbered name taken, the next file of that name replaces a finished
  one (`daemon/transfer.rs:222`), or, in a URI target, one that is still being
  copied;
- for a URI target the announced path ignores the number the file was given
  (`daemon/device.rs:1456`);
- a source that changes while it is sent ends as finished with another length
  than announced (`daemon/device.rs:1344`);
- the temporary copy of an empty URI source, of a send that fails to bind a port,
  or whose copying broke off, is not removed (`daemon/device.rs:828`, `847`),
  though `daemon/backends.rs:35` calls it the file "to remove once the transfer
  finishes";
- errors of `remove_file` are ignored, so a refused removal leaves a staging
  file, a staged copy or a temporary one (`daemon/transfer.rs:171`,
  `daemon/device.rs:1363`, `1450`, `daemon/backends.rs:184`, `200`);
- a receive of unknown size ends only with its stream or by a cancel
  (`daemon/device.rs:1402`);
- "unpaired" is published when a request of a device that is already paired is
  declined, while the trust stays (`daemon/device.rs:1191`);
- an event may reach a new client before its Hello (`ipc/server.rs:231`);
- one slow request marks a healthy connection dead (`ipc/client.rs:154`); in the
  multi-threaded terminal client a reply may arrive between a timeout and the
  drain, and then the reader of the dead connection goes on.

Observations on the parts around the manager. Each is what the modelled code
does; no property above depends on its being otherwise.

- Two daemons: after a lost connection, an unpair, a repeated request or a full
  queue one side may be paired and the other not, until one of them asks again.
- Link: neither the handshake's TLS stage nor that of a payload connection has a
  timeout; there is no keepalive, so a peer that moved away silently stays
  "connected" until something is written to it.
- Plugins: a ping, a notification and an mpris request are each answered with a
  packet of a kind the other side answers, so two daemons echo for ever
  (`plugins/ping.rs:55`); `plugins/battery.rs:4-9` and its tests say that battery
  probes are answered, but the plugin does not declare the request type
  (`plugins/meta.rs:13`), so dispatch never hands it one; pause_music declares
  only telephony packets and never learns a player; `id_map` and the share queue have no bound; a reconnect keeps
  the instances of the plugins.
- Host: nothing keeps a second daemon from taking over the socket; the loss of
  the certificate file alone, which is no step of the model, followed by a kill
  between the two renames, leaves a certificate and a key that do not belong
  together; `--data-dir` moves the store and not the certificate.
- Framing: the limit of the plaintext identity is one byte off that of packets;
  `read_raw_frame` drops what follows its frame, as documented.
- Monitors: a failed UPower reading is not repeated before the next change.
- Clipboard: the watcher loops on a roundtrip; a failed read is not repeated
  before the next event; the primary selection of an old compositor sends no
  event; the receiver is never told that a selection was cleared.
- Terminal: the answer to an older device-list request may overwrite a newer one
  (`tui/app.rs:305`); the reload after a plugin toggle shows it disabled, since
  the daemon's list has no such key; "online" and "offline" clear the paired
  badge; "pair requested" is shown for a declined request as well; the state of
  the last iteration is not drawn; a failing `setup_terminal` leaves raw mode on.
- Gui: a declined pairing is answered `accepted: false` in a successful reply,
  and the card is marked paired (`gui/model.rs:87`); there is one slot for the
  device being paired; a plugin list does not say which device it is for; after a
  request that timed out every further one fails until the late answer comes or
  the daemon goes.
- Hfctl: `transfer-cancel`, `volume`, `sms`, `battery` and `share` print an error
  reply and exit with 0; "dismissed" is printed though the daemon's handler does
  nothing (`daemon/main.rs:478`), and "enabled on" and "disabled on" though the key
  the daemon then stores is read nowhere (`daemon/main.rs:453-463`); after a
  timeout hfctl exits with 1 while the daemon may still act; `unpair` of an
  unknown device succeeds.
- FileManager: Thunar's action keeps the path of the `hfctl` that first installed
  it; `install` removes Dolphin's per-device actions until the next `update`; a
  failure at Thunar leaves pcmanfm without its file; `remove` reports success
  whatever files it could not delete (`tui/filemanager.rs:161`), with `--system` and
  no rights all of them; a text of the user that mentions the marker counts as an
  installed action (`tui/filemanager.rs:406`); `uca.xml` is emptied and rewritten
  in place (`tui/filemanager.rs:365`, `416`), so a full disk or a kill loses
  actions of the user.

## What is not modelled

- Cryptography and certificates: a certificate is a value, TLS a stage that
  completes or breaks.
- Serialization of messages (`protocol/identity.rs`, `protocol/transfer.rs`,
  `ipc/proto.rs`): plain records. The fields that decide something are in the
  models of those who read them.
- The dial of a payload connection (`daemon/device.rs:692`): the transfers start
  when it is there.
- Tools that materialize or copy a URI, SQLite, D-Bus, the compositor: an outcome
  each.
- Input injection, the portal handshake, idle inhibition and session detection
  (`wayland/`): calls to the display server whose result is not kept, or code
  the daemon does not call.
- `daemon/sftp.rs` and `store::atomic_write` have no caller.
- Argument parsing, rendering and wording, logging, and release tooling.

## The plan

Theorems, in order: `CursorsInRange` and `ListsAreSound` of `Terminal`,
`NeverDeadlocks` and `LinkIsHonest` of `Link` (from what each end's stage says of the
other's), and `Agreement` of `TwoDaemons`, for which the packets under way in both
queues must be related to both slots.

Models: `Outgoing` and `Incoming` joined by a byte pipe, so that what is finished
on both sides is the same file; the graphical client's driver on top of `Ipc`.
