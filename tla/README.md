# Un-Bien: TLA+ models, checks and proofs

Un-Bien lets a person follow and drive coding agents (Pi processes) on several
machines from a phone, a desktop app or a terminal. This directory holds
specifications of the parts where several processes, tasks or sockets meet, the
TLC instances that check them, and TLAPS proofs of their main invariants for
every value of the constants. Every definition is a translation of the code;
`PROJECT.json` maps each to the lines it stands for.

## The system

| Part | Where | State it keeps | What makes it hard |
|---|---|---|---|
| Relay hub | `relay/src/peers/registry.rs`, `presence.rs`, `rooms.rs`, `peers/pairing.rs`, `handlers/peer.rs` | connections per (peer, room); two-way subscription indexes; allow-lists; the keys advertised to peered relays | one task per WebSocket on several threads; four locks, each released at every await |
| Relay federation | `relay/src/peering.rs`, `peers/peers_config.rs`, `handlers/pi_forward.rs` | peered relays, their sessions, forwards awaiting an ack | link death, reordering, timeouts racing acks |
| Relay mesh store | `relay/src/mesh/*`, `membership.rs`, `auth/*` | versioned signed owner documents | monotonic versions, replay |
| Folder lock | `extension/src/session/cwd_lock.ts` | one socket file per (cwd, name) | a chain of system calls of unrelated processes |
| Leader election | `extension/src/session/leader_election.ts`, `peer.ts` | the session socket file; per process the role, broker, socket, inode, timers | no coordinator, stale files, busy leaders, stolen files, re-elections that overlap |
| Broker and peer | `extension/src/session/broker.ts`, `peer.ts` | registered names, pending requests and acks | takeover, rename, late closes, timeouts |
| Cross-PC bridge | `mesh_node.ts`, `broker_remote.ts`, `bridge.ts` in `extension/src/session` | bridge generations, remote rosters, routing aliases | failovers and reconnects while frames are in flight |
| Relay client and lifecycle | `extension/src/transport/relay_client.ts`, `session/relay_lifecycle.ts`, `commands/lifecycle.ts` | the published client, a generation, timers, owner channels | reconnect against a stop, a restart, a session replacement |
| Mail of an agent | `extension/src/session/mesh_inbox.ts`, `core/tools.ts`, `index.ts` | inbox, waiters, the queue between two runs | agents that wait for each other; runs that end while mail arrives |
| Machine identity | `extension/src/pairing/storage.ts` | one key in a keyring and a file | several processes, a keyring that locks |
| Owners | `pairing/storage.ts`, `pairing/qr.ts`, `mesh/self_revoke.ts` | `peers.json`, tokens, what each Owner signed last | revocations that arrive while the Owner pairs again |
| Prompts and photos | `session/rpc_handlers.ts`, `session/received_images.ts`, `index.ts` | turn id, run state, parked previews | conversions that end during another run |
| Dialogs and panels | `extension_ui_bridge.ts`, `panel_bridge.ts`; `unbien-cli/src/connect.ts`, `ask.ts`, `panels.ts` | open dialogs, panels, per client what it shows | desk and clients race; lost links, replays |
| Subagent rooms | `extension/src/subagent_rooms.ts` | a relay room per child session | three announcements of one child, in any order |
| Launcher | `extension/src/daemon/launcher.ts`, `launch.ts`; `unbien-cli/src/machine.ts`, `create_session.ts`, `resume_session.ts` | connection, gates, pushed allow-list | reconnects while a gate is open; commands that time out |
| Durable host | `unbien-durable/src/*` | conversation, relay client, watch, translator | moving while connecting; states, not events |
| Transcript | `extension/src/session/rpc_inbound.ts`; `unbien-cli/src/client.ts`, `reduce.ts` | log entries, cursor, live frames | paging while the session goes on |
| App | `app/Sources/*` | the app's cache, connection, views | not modelled, see below |

How they interact: a Pi process resolves the machine's key, takes its folder
lock, joins the local mesh through the leader election and registers with the
broker; its relay client connects to the relay, which registers the connection,
announces it to subscribers and to peered relays, and routes envelopes between
the person's devices and the Pi. The Pi pushes a signed allow-list
(`pairing_set`) that decides which owners see its rooms; an Owner's signed list
of machines decides in turn whether the Pi keeps the Owner's pairing. The leader
of the local mesh bridges it over the same relay connection to the person's
other machines: brokers exchange rosters and forward messages. A device prompts
the agent, answers its dialogs and reads its transcript through the owner
channel; where no session runs, the launcher or the durable host serves it.

What must hold, per part:

- **Relay hub.** Subscribers end up with the registry's truth about a peer or a
  room whatever the handlers' interleaving; room events go exactly to those who
  asked and are allowed; a disconnected peer leaves nothing behind, and takes
  nothing from its other connections; the two indexes of each manager never drift
  apart; a room is advertised exactly while it is open.
- **Folder lock.** One holder; a refusal only while somebody holds; a leftover
  of a dead process never blocks for good.
- **Leader election.** A live leader is never displaced by a verdict about it;
  in the end one registry survives; a process that loses its connection gets
  another.
- **Broker roster.** The roster is exactly the live registered connections; an
  address is lost only by its holder's close or rename or to a takeover; what a
  process shows of itself and of the mesh settles on what the broker has.
- **Relay link.** No connection is leaked, none is without a way back, owners
  are only served over the current one, and a revoked owner is dropped.
- **Bridge and rosters.** A bridge is the wanted one, with the newest topology,
  and comes up; machines that stay siblings learn each other's roster, others
  are not known.
- **Messages.** Every send is answered, once, and truthfully about delivery;
  only the addressee is shown a message; agents never wait for each other;
  queued mail is handed over.
- **Identity and owners.** Nobody mints a key over one it could have known of;
  a revocation is applied, and never to a pairing made after it.
- **What people see.** Dialogs, panels, live events and the transcript agree
  with the session's once nothing is on its way; prompts leave neither a turn id
  nor a preview behind.
- **Subagents, launcher, durable host.** A child's room is the child's and is
  served; launches are authorised, happen once and are reported truly; the host
  is reachable in one conversation.

## Modules

| Module | Models | Extends |
|---|---|---|
| `SubscriptionGraph` | the two-way index of `presence.rs` and `rooms.rs`, one operator per method | |
| `RelayHub` | registry, presence, rooms, pairing gate and the connection handler | `SubscriptionGraph` |
| `CwdLock` | `acquireCwdLock`, `release`, process death | |
| `LeaderElection` | `joinOrLead`, and the join, failover, displacement watch, rename and leave of `SessionPeer`, with the broker's accept, probe answers and `orphan()` | |
| `BrokerRoster` | register, takeover, suffixes, rename in place, close, list_peers and notices of `broker.ts`, with their counterparts in `peer.ts` and the peer count | |
| `RelayLink` | the relay lifecycle of an extension process, its commands, its sockets and its owner channels | |
| `MeshBridge` | how the leader keeps its cross-PC bridge up (`mesh_node.ts`) | |
| `MeshPromise` | abstract: what `agent_send` promises its caller | |
| `MeshDelivery` | a message from the sending tool over broker, relay and the other broker to the agent it is shown to | instantiates `MeshPromise` |
| `RemoteRoster` | the roster frames of `broker_remote.ts` and their cache | |
| `AgentExchange` | inbox, waiters, blocking tools and the queue between two runs | |
| `MachineIdentity` | resolution of the machine's key over keyring and file | |
| `OwnerTrust` | pairing records, pair requests and the sweeps of `SelfRevoke` | |
| `SubagentRooms` | markers, starts, builds, bindings and ends of child rooms | |
| `UiDialogs` | stock dialogs and pi-ask flows, and the client that shows them | |
| `PanelBridge` | the plan and agents panels and the client that shows them | |
| `AppPrompts` | prompts, photos, turn ids, runs and compactions | |
| `TranscriptWalk` | the pages of `get_entries`, the walk, and history merged with live frames | |
| `RemoteLaunch` | the launcher daemon and the commands that ask it for a session | |
| `DurableBridge` | connection, retarget, pairing and shutdown of the durable host | |
| `DurableView` | the mirror and the translator from states of a conversation to events | |
| `MCRelayHub`, `MCCwdLock`, `MCLeaderElection`, `MCBrokerRoster` | the instances of one module | the module named |
| `MCMachine`, `MCMesh`, `MCHost`, `MCViews` | instances of several modules, see Runs | the modules they combine |
| `RelayHubProofs`, `BrokerRosterProofs` | theorems and proofs | the module named, `TLAPS` |
| `HostProofs` | theorems and proofs about what the sessions of a machine share | `CwdLock`, `OwnerTrust`, `AgentExchange`, `MachineIdentity`, `TLAPS` |
| `SessionProofs` | theorems and proofs about the rooms and conversations of a session | `DurableBridge`, `SubagentRooms`, `TLAPS` |
| `TranscriptProofs` | theorems and proofs about what is seen of a transcript, walked or live | `TranscriptWalk`, `DurableView`, `TLAPS` |
| `MeshProofs` | theorems and proofs about the roster, the bridge and the relay connection | `RemoteRoster`, `MeshBridge`, `RelayLink`, `TLAPS` |
| `ViewProofs` | theorems and proofs about prompts, panels, launched sessions and dialogs | `AppPrompts`, `PanelBridge`, `RemoteLaunch`, `UiDialogs`, `TLAPS` |
| `LocalMeshProofs` | theorems and proofs about the election, and the refinement of `MeshPromise` | `LeaderElection`, `MeshDelivery`, `TLAPS` |

The definitions whose comment begins with "Mutated form of" are faulty versions
of an operation. Nothing uses them in the specifications; they exist so that
each checked property can be shown to fail when the code it is about is wrong.

A reader of the extension's TypeScript should know how it is cut into steps. A
process has one thread, so a step is the code between two awaits. Where several
suspended calls can coexist, each is a record (`jobs` in `RelayLink`, `fns` in
`DurableBridge`, `gates` in `RemoteLaunch`) that holds exactly what the function
captured before its await; the Resume action re-reads what the code re-reads.
Timers are variables where the code keeps a handle to them, and enabledness
alone where they exist exactly as long as their entry.

### RelayHub

One action is one critical section. `register` is the block under the `senders`
lock of `PeerRegistry::register`; the await on `rooms.subscribers_of`, each
`forward_to_all_rooms_of`, the await on `presence.subscribers_of` and the
federated "add" are separate steps, and `pc[c]` says where the task of
connection `c` is between them. `unregister` is followed in the same way by
`room_ended`, `peer_offline`, `record_offline`, the two `unsubscribe_all` and
the federated "remove". `subscribe_rooms` is three steps (record the request,
filter it, subscribe), `pairing_set` two (store, reconcile), `subscribe_presence`
one followed by the two-lock backfill of each listed peer.

Data: a peer is a model value, a room is opaque. A push is about a *topic* (a
peer or a room key) and its only content is up or down. A channel is kept as
the last undelivered word per topic, because a FIFO channel makes the earlier
ones irrelevant to what the client ends up with; replies to `presence_check`
and `rooms_check` go to the socket directly and overtake the channel, as in the
code. `since_ts` matters only as what makes a cached reply differ, which
`RecordOffline` models. A rejected `pairing_set` changes nothing and is not a
step. A connection slot is reused after its cleanup.

A `room_meta_update` of the own room is a way back to `Advertise`; what it
changes in the metadata is left out.

`tracked`, `raced`, `overtaken`, `late` and `declined` are history variables:
which topics a client has followed without a gap; which topics had two
transitions announced concurrently; about which machines the request a task
carries was overtaken after its first lock, by a change of the machine's list or
by another device of its owner; which pairs of an owner and a machine were last
decided on such grounds, or by a push that a newer one had overtaken; which
machines a client unsubscribed from while its request stayed recorded. The
passing properties say what holds outside of these; that is less than the
comments claim: the runs `relay_presence_race` (`raced`) and `relay_rooms_order`
(`late`) state claims without the exceptions, and `FollowedPeersKept` and
`FollowedRequestKept` what the cleanup of one connection takes from another
(`tracked` forgets it), see "Claims the code does not keep".

Left out here: envelope routing, the metadata of rooms, membership frames,
federated rooms, signatures, metrics, heartbeats.

### CwdLock

Each system call is an action: bind, listen, connect, unlink, close. `path` is
what the directory entry names: nothing, a process' socket, or a leftover.
`release` is the unlink by name and `Close` the end of the socket. `Crash` leaves
the entry behind. `theft` and `disturbed` are history variables.
The Windows named-pipe branch is left out: a pipe has no file to unlink.

### LeaderElection

A listener is one successful bind and its number stands for the inode. `path`
is the listener whose file is at the session path, so unlink and bind by name
affect whatever is there. The tasks of a process that can run a join are `start`,
`watch` (the re-election after a displacement) and the slots `Rejoins`, one for
each rename or failover under way: these begin whatever the others do, so several
joins can run at once. They share the fields of `SessionPeer`, among them
`_preAckListener`: `hears` is the task whose listener was installed last, and a
join whose listener was replaced throws although its connection is registered
(`RegisterUnheard`). A rename needs a node that was published, which start()'s
return does (`published`). A step ends at each await. `teardownConn` is `_teardownConn`: `brokerBoundIno` is
set to null on its second line, so the ownership test below it is never true
and the broker is always orphaned, never closed; the model does the same. An
orphaned broker drops its registered peers, destroys what it accepts from then
on, and goes on serving a connection accepted earlier. `RegisterRejected` is a
join that throws although the broker registers it: the register_ack timed out
or the roster answer to the probe arrived first.

`islands` is a history variable: the listeners whose owner can no longer notice
that its file was stolen (it captured the thief's inode, lost its loopback, or
overwrote `this.broker`). `gaveUp` records joins that threw. bind and listen
are one step here; the gap is in `CwdLock`. Names, takeover and the roster are
in `BrokerRoster`.

### BrokerRoster

The broker and each process are event loops joined by sockets. A broker step is
one line of one connection handled to its end, as `_handleLine` does: the
register with `_dropPeerAt` and its broadcast is one action, and so is the
rename with its two broadcasts and its ack. `up[c]` and `down[c]` are the lines
written and not yet handled. `destroy()` stops the data of the destroyed side at
once and its close event comes later, so `srv[c]` goes from "open" to
"destroyed" to "closed"; what was in flight to the other side may or may not be
read before that side sees the close.

A name is a base and a suffix (0 for none), an address a folder and a name;
`composeAddress` and `sanitizeMeshName` only map one form to the other.
`NoCwd` is the folder of a legacy peer. `Tight` are the bases so long that
`isBoundedPeerInfo` refuses every suffixed form. Of two equal refresh lines in
a row (`list_peers`, a notice, a roster) only the later one is kept: each
overwrites what the earlier one does. A roster line carries only its size, which
is what the count is made of. `OnRoster` may come too late for the 2 s of its
request and is then ignored.

`slipped` and `blind` are history variables. `slipped` marks a process with a
rename in place that timed out or overlapped another, until a later join has
brought name and roster together again. `blind` marks one whose last refresh
came too late, or that has rejoined by `rename()`, which asks for none. The
properties say what holds outside of these.

The broker stays the same here: its loss and the election of the next one are in
`LeaderElection`, and so are a `rename()` in the middle of a failover and a
register_ack that times out or goes to another join. Left out: routed envelopes and acks, the remote
router's entries in the roster, probes of unregistered observers, and the second
list_peers with which a leader tells the bridge.

### RelayLink

The two states are `idle` and `started`; everything else is what a function
suspended at an await finds when it resumes. `jobs` are those functions: the
three awaits of `_cmdStart`, the connect of a reconnect, the lookup before an
owner is attached, the two awaits of a pair request, the soft rejoin of a rename
and the flush of a shutdown. `gen` is `_relayLifecycleGeneration`; each job
keeps the one it captured. `CloseClient` is `RelayClient.close()`: the close
event comes in a step of its own, after whoever closed it has published
another client. `socket` tells an open socket from one whose other end has
vanished without a word ("halfopen"), which only the watchdog ends. `hung` are
clients whose connect nobody answers: `connect()` has no limit before the socket
opens, so their jobs never resume. `known` is `peers.json`, read into a job some
steps before the job resumes.

Opaque: the challenge signature, frame encodings, backoff lengths, the QR page.

### MeshBridge

`run` is the one attach in flight and how far it is, `queued` the flag of
requests that arrived meanwhile, `bgen` the generation an attempt must still
find when it ends. `brokerId` grows at each promotion, since a bridge of an
older broker object is stale. A node is given its relay by its host or opens its
own; both are instances of `mode`. `waiters` are the callers suspended on the
attach, and an attach that throws tells each in its way (`CallersTold`): a
failover and a retry catch the error and retry later, `connect()` rejects.
`ConnectAgain` is what `mesh_server.ts` does then. The discovery of siblings is
one result: the topology of the moment.

### MeshPromise and MeshDelivery

`MeshPromise` says what a caller of `agent_send` may rely on: one answer; a
message that was acknowledged was written to its addressee's socket, one that
was refused never is, none is written twice. `MeshDelivery` is the path: the
slots of the session peer with their timers, the broker's routing and ACKs, the
relay's clone of a frame to every connection of a machine, the remote broker's
injection and its ACK back, and the second listener for federated messages; with
departures, a broker that dies with its process, and lost relay links.
`Promise == INSTANCE MeshPromise` maps a message's answer to the outcome of its
slot and the times it was written to what brokers wrote to the addressee;
`PromiseKept` is the abstract specification under this mapping, its liveness
part under the timers' fairness. `OnlyAddresseeOnce` is about what agents are
shown, which is more than what was written to their socket: the finding
`mesh_misdelivery`.

### RemoteRoster

Two or more machines, each with a roster, the current `BrokerRemote` (its
`life`), the siblings of its routing state and its cache. Frames are queues per
ordered pair, lossy at the sender (full queue) and on the way. Cache expiry is
a step that may come at any time. The aliases of `buildRoutingState` matter as
far as a relabelled sibling is asked again.

### AgentExchange

`box` is the inbox, `call` the tool call an agent is blocked in, `pend` the
queue of messages for the next run, `drainSet` its microtask, `busy` the flag
that `agent_start` sets and a later tick clears, `settles` the ticks armed. The
agent (external) answers what it has been shown before it waits again. An inbox
entry is never marked handled: the code offers it and nothing calls it.

### MachineIdentity

A process walks through `getOrCreateEd25519Keypair`, one await at a time, in
the order its kind has: keychain users read the keyring first, file users the
file, the daemon only the file. `ring`, `oldRing` and `disk` are the stores;
`locked` makes every keyring operation throw, which on platforms without a core
keyring counts as empty where the code says so. `devices` is what peers.json
last held whole, `torn` says that it cannot be parsed: every write empties it
before it fills it (`TruncatePeers`, `WritePeers`), a process may die in
between, and the file may be damaged. `listPeers` takes such a file for an empty
one, so `addPeer` over it forgets the other devices and the check before a mint
sees none. `began` is a history variable: what there was when the process started
to look, and whether peers.json was unreadable when it looked there. `SafeMint`
is what the checks can guarantee given that; the comments' stronger claims fail:
`PairedIdentityKept` (finding `identity_flop`) and `PairedNeverMintedOver` (see
"Claims the code does not keep"). Two processes that write peers.json at once leave
the later record list; that an overlap of two writes may leave a text that is
neither is covered by the damage `Upset` does.

### OwnerTrust

Records of `peers.json` are (Owner, spelling) pairs, because an Owner's key has
several encodings and revocation must find them all. `sweep` follows
`checkOnce` through snapshot, one fetch per Owner, the removals and the
publication of the topology; `pendingRev` carries the token and the history
serial a revocation was about, `signed` what the Owner signed so far, of which
the relay may serve any version not older than asked for. `serial` and `due`
are history variables. Storage failures, removals by other processes and a
replaced producer are steps. Bad signatures are one refused answer.

### SubagentRooms

A child is announced by a marker, by its session start in this process, or by
both, and later by the manager's records, which name no session and are bound
by arrival. `building` and `pendingAttach` are the code's maps around the
asynchronous connect, `released` the tombstones. `early` is a history variable:
a child started before the root's room was up, when the binding may miss.

### UiDialogs and PanelBridge

Both model a host and a client with the lossy link between. In `UiDialogs` a
dialog is open while somebody waits for it, held while the bridge would replay
it; `syncWindow` is what the client has seen since it asked for a sync, by which
it retires what the host no longer has. `fresh` and `clean` are history
variables that say when a sync speaks for the present. In `PanelBridge` the
sources number their changes, snapshots may be published late, and the client
replaces whole panels.

### AppPrompts

`handed` is how far a prompt is, for photos including which side of the hand-off
its conversion is on; `preview` what became of the preview; `turnId`, `working`
and `agentRun` are the three notions of "busy" the code has. `RefusedLate` is
the failure `index.ts:2213-2232` describes: pi took the prompt, fails before a run
begins, and no event tells the extension. Two history variables record what the
properties except: `waiting` the previews whose flush was put off because the
session counted as busy while no run was ahead (during a compaction, under the
turn id of a command or of a prompt refused late), and those a late refusal left
parked; `stranded` the turn id a late refusal left in place.

### TranscriptWalk

An entry is its place in the log, its kind and its size; pages are cut by the
size budget. `walk` is the client's cursor, `streamed` what arrived live
meanwhile. What is shown is an operator, `transcript` and `shownItems`, over
both. Navigation moves the leaf back, which forks the log. A tool's end is told
live (`ToolEnds`) before pi stores its result, and the live frame of that entry
is dropped by `reduce`: a client that attaches between the two, and walks to the
end of the log meanwhile, is never told the result. The history variables
`unheard` and `missed` record that; `HistoryMeetsLive` excepts it. It also
tolerates an entry shown again, which `InLogOrder` does not (see "Claims the code
does not keep"). A message has one call at most here, so calls that run in
parallel are left out.

### RemoteLaunch

`dial` are the launcher's client objects, `gates` its suspended
`gateAndAttach`, `handling` its suspended frames, `verb` how far each command
is. `launched`, `cleared` and `excuse` are history variables: `excuse` names
the rare coincidences a property is about to except (a late close, a pairing
that overtook its push, a version file that could not be written).

### DurableBridge and DurableView

`fns` are the suspended functions of the host. Unlike the extension it has no
generations, and `crossed` marks behaviours in which two connects or moves
overlapped: `OneConversation` holds outside of these, and `OneClient`, which has
no such exception, does not. `chans` keeps the channels of a lost connection, as
the code does, hence `ReconnectAttaches` fails too. `DurableView`
starts from states: each value of the watch is the conversation after any number
of commits, and the translator, a function on its own state, must emit the events
of the difference. Texts are left out; an answer is the number of its blocks. A
record has one message: of the others nothing is emitted. Compactions, which have
an event of their own, are left out too. `LiveRight` is about the kinds the
translator knows; `LiveAsPaged` counts a reset as well and fails. (For the three
see "Claims the code does not keep".)

## Runs

| Run | Result | What it shows |
|---|---|---|
| `relay_watch` | pass | one owner device and a machine with two connections; the owner follows presence or rooms, the machine pushes allow-lists: `HubInv`, `SettledViewRight`, `NoDeadAdvert` |
| `relay_devices` | pass | two owner devices and one machine, room frames: `NoLeakedSubscription`, `RoomsSettle` |
| `leader_election` | pass | two processes, one fault; and a launcher nobody writes to: `ElectionInv`, `BusyLeaderKept`, `Converges`, `Reconnects`, `LauncherReachable` |
| `session_views` | pass | what peers and clients see of a session: `RosterInv`, `NoTheft`, `CountSettles`, `NameSettles`, `SyncedViewRight`, `LiveRight`, `HistoryMeetsLive`, `PanelsRight`, `LaunchRight`, `PromptsRight`; and of the key it is known by: `SafeMint` |
| `mesh` | pass | between two machines: `LinkInv`, `RevokedOwnerDropped`, `ComesBack`, `BridgeInv`, `BridgeComesUp`, `PromiseKept`, `OnlySiblingsKnown`, `RosterConverges` |
| `host` | pass | inside one machine: `NoMutualWait`, `MailDrained`, `RepairKept`, `RevocationApplied`, `ChildrenRight`, `ServedEventually`, `ExclusiveUnlessUnlinked`, `RefusalJustified`, `SelfHealing`, `OneConversation`, `HostReachable` |
| `cwd_lock_race` | violation of `MutualExclusion` | an attempt probes a socket that is bound and not yet listening, unlinks it and binds: both succeed, without crash, leftover or timeout |
| `relay_presence_race` | violation of `OfflineNeverWrong` | a reconnect overtakes the announcement of the end of the last connection |
| `relay_rooms_order` | violation of `RoomsOrderIndependent` | a request filtered before, and applied after, the machine's push is the last word |
| `leader_election_late` | violation of `NoOrphanRegistration` | a joiner accepted before `orphan()` registers after it |
| `mesh_misdelivery` | violation of `OnlyAddresseeOnce` | a cross-PC message is shown to agents it was not addressed to |
| `identity_flop` | violation of `PairedIdentityKept` | a keyring that is locked first and readable later changes the identity a device was paired against |

The six violations are disagreements between the code and what a comment says of
it; the findings in `PROJECT.json` quote both. More of them are listed under
"Claims the code does not keep".

Combined instances. `MCMesh`, `MCHost`, `MCViews` and `MCMachine` check several
modules in one run. The modules of one instance share no variable, so a property
of one cannot depend on the steps of another; a behaviour therefore takes the
steps of one part, chosen at the start, which explores the sum of the parts'
states instead of their product. Where a part has several initial states the
others are held at one. What does interact is inside one module: `MeshDelivery`
has both brokers, the relay and the sender's slots, `RemoteLaunch` the launcher
and its commands, `UiDialogs` host and client.

### Bounds

The cfg files give every bound, and each run says in its first lines what is in
it.

- *Lock*: three processes (a holder, a thief, and one refused) and two crashes (a
  leftover, and a death during an attempt).
- *Hub*: its races are between two connections of one peer, or one connection and
  one subscriber, so one owner and one machine with three connections in the two
  possible splits reach them; slots are reused, so lifecycles repeat without
  bound. In `relay_watch` a client follows presence or rooms, one at a time: the
  action constraint `OneKindAtATime` cuts steps to states with traces of both.
  The two subscription managers have no data in common, and behaviours may
  switch from one to the other when nothing of it is left. Metadata is only
  updated before anything is followed (`MetaFirst`), as it touches nothing but
  the advertised keys.
- *Election*: a leader, a joiner, a theft and a re-election need four binds,
  starting from a free or a stale path, with `MaxAttempts` 2 and `MaxBusy` 1 so
  that both the retry and the refusal happen, and one fault (a rename, a leave,
  an exit or a failed registration) to set it in motion; the processes are
  interchangeable, so it is the first one's (`Faulty`). Two `Rejoins` let a
  failover and a rename overlap each other and the watch's join. The theorems hold
  for any number of them.
- *Roster*: two processes of one folder and name, one of which takes over, three
  joins, so that the late close of a replaced connection, a takeover by the
  former holder and a collision suffix all happen; with a limit of two peers and
  one suffix both refusals happen as well, and a rename to the `Tight` base makes
  a suffix impossible. One rename, soft or in place, with its timeout, is enough
  for a collision, a refusal and a stale name; overlapping renames are beyond it.
- *Relay link*: two client objects (the published one and a candidate, or the one
  that is closing), one owner, one lost connection or hanging connect, two commands (a stop against
  a start, a start against a rename or a shutdown), one pair request or
  revocation, one line being handled. Objects are reused once nothing refers to
  them.
- *Bridge*: two relays, four moves (a failover while an attach is in flight, the
  way back, and a host request), one loss (a close, a throw or a hang).
- *Delivery*: three agents on two machines, one of them neither leader nor
  addressee, one message, two faults. One message at a time is enough for slots,
  because a slot is found by its id; the sequence of lines on a socket matters
  only for the ACK against the end of the stream, which is there.
- *Rosters*: two machines, rosters of two peers against frames that carry one (so
  that a roster may not fit), queues of two, two changes.
- *Mail*: two agents, two messages (a request each, or a request and its answer),
  one throw of pi.
- *Identity*: a keychain user, a file user and a daemon, one mint, one lock,
  damage or death; `identity_flop` has one user and two of each, on a desktop
  without a core keyring.
- *Owners*: one Owner in two spellings, two signed lists, one pairing, one mishap.
- *Children*: one in-process and one out-of-process child, three rooms, one break.
- *Durable host*: one phone, two conversations, three clients, one shock. *Live
  view*: two calls, four entries, one submission, one entry of the app.
- *Transcript*: three entries of size 1 or 3 with a budget of 2 (one that fills a
  page, one that is shortened), six pages, one move of the leaf.
- *Dialogs*: one client, one dialog of each kind opened once, two syncs, one fault.
  *Panels*: one plan source with one row, one agent, three events, one of them
  late, one loss.
- *Launch*: one device, one command, two clients of the launcher, one failure and
  one edit; without a command, three clients and two failures.
- *Prompts*: two photos, a prompt and a command of pi's own, any number of runs,
  late refusals and compactions.

Deadlock is not checked where the bound on faults, messages or commands leaves
nothing to do in the end; it is checked for the hub.

### Fairness

Fairness is what Node and the kernel give: a continuation whose await has
settled runs, a due timer fires, the close event follows the end of a socket, a
line that was delivered is handled. These steps are weakly fair. Where a
connection is retried for ever, the connect is strongly fair for the properties
that promise to be connected: a relay that refuses every attempt keeps nobody
connected. The same holds for the fetch of an Owner's newest list. The user's
commands, departures, crashes, losses, failures and everything an agent decides
are never forced, except that an agent's run ends and that it answers what it
was shown, which is what the tools' texts demand of it (`AgentExchange` only).

`CwdLock` states fairness in its specification. `LeaderElection` does too, and
its properties, like those of the other modules, repeat it as their antecedent
(`LinkFairness => ...`), so that one instance can hold several modules. In the
launcher and the durable host a bound on failures takes the place of strong
fairness.

The exceptions in the properties are what the code does not promise.
`Converges` does not count a registry whose owner cannot notice the theft
(`Unguarded`), nor executions in which joiners keep stealing from each other
until the bound on binds, which the code does not prevent. `Reconnects` excepts a
join that threw: the code swallows the error and nothing retries. `MailDrained`
and `ServedEventually` except the throw or the break of the behaviour's fault
budget, after which the code waits for the next event. `BridgeComesUp` leaves a
host's failed request to the host, and a first attach that threw to the caller of
`connect()` (`DormantMeansLed` says what comes of it); it and `ComesBack`
except a connect that nobody answers, which the code never gives up. `HostReachable` excepts an attach that threw
in a move, after which no retry is armed, and the last client of the bound;
`LauncherReachable` a stop, and for the allow-list a pairing that overtook its
push and a version file that could not be written.

## Proofs

| Theorem | Statement |
|---|---|
| `HostProofs!Agreement` | `Spec => []IInv` |
| `HostProofs!Exclusion` | `Spec => []ExclusiveUnlessUnlinked` |
| `HostProofs!Refusal` | `Spec => RefusalJustified` |
| `RelayHubProofs!HubInvariant` | `Spec => []HubInv` |
| `RelayHubProofs!IndexAgreement` | `Spec => []IndexesAgree` |
| `RelayHubProofs!NoLeak` | `Spec => []NoLeakedSubscription` |
| `RelayHubProofs!AdvertLive` | `Spec => []NoDeadAdvert` |
| `RelayHubProofs!RoomsSettled` | `Spec => []RoomsSettle` |
| `RelayHubProofs!SettledViews` | `Spec => []SettledViewRight` |
| `LocalMeshProofs!ElectionInvariant` | `Spec => []ElectionInv` |
| `LocalMeshProofs!BusyLeaderSafe` | `Spec => BusyLeaderKept` |
| `BrokerRosterProofs!RosterInvariant` | `Spec => []RosterInv` |
| `BrokerRosterProofs!AddressNotStolen` | `Spec => NoTheft` |
| `BrokerRosterProofs!CountsSettle` | `Spec => []CountSettles` |
| `BrokerRosterProofs!NamesSettle` | `Spec => []NameSettles` |
| `MeshProofs!SiblingsOnly` | `RosterSpec => []OnlySiblingsKnown` |
| `MeshProofs!BridgeSafe` | `BridgeSpec => []BridgeInv` |
| `MeshProofs!LinkSafe` | `LinkSpec => []LinkInv` |
| `LocalMeshProofs!PromiseSafety` | `DeliverySpec => Promise!PromiseSafe` |
| `HostProofs!RepairSafe` | `TrustSpec => RepairKept` |
| `HostProofs!NobodyWaitsInACircle` | `ExchangeSpec => []NoMutualWait` |
| `HostProofs!MintSafe` | `IdentitySpec => SafeMint` |
| `SessionProofs!BridgeOfOnePiece` | `DurableSpec => []OneConversation` |
| `SessionProofs!ChildrenSafe` | `RoomsSpec => []ChildrenRight` |
| `TranscriptProofs!HistoryRight` | `WalkSpec => []HistoryMeetsLive` |
| `TranscriptProofs!LiveViewRight` | `ViewSpec => []LiveRight` |
| `ViewProofs!PromptsInvariant` | `PromptsSpec => []PromptsRight` |
| `ViewProofs!PanelsSettle` | `PanelSpec => []PanelsRight` |
| `ViewProofs!LaunchesRight` | `LaunchSpec => []LaunchRight` |
| `ViewProofs!SyncsSettle` | `UiSpec => []SyncedViewRight` |

They assume only the named assumptions on the constants (`LockConstants`,
`HubConstants`, `ElectionConstants`, `RosterConstants`, `PromptsAssumption`,
`RosterAssumption`, `BridgeAssumption`, `LinkAssumption`, `DeliveryAssumption`,
`TrustAssumption`, `ExchangeAssumption`, `IdentityAssumption`,
`DurableAssumption`, `RoomsAssumption`, `PanelAssumption`, `LaunchAssumption`,
`DialogAssumption`, `WalkAssumption`, `ViewAssumption`), which TLC evaluates on every run that has the module.

*Lock.* Exclusion is about sockets, the kernel's guarantee about the name. The
invariant `NameAgreement` ties them: until a live socket is unlinked, a live
socket is the one the path names. Its third conjunct (a leftover met by the
second bind was left by a process that died during the attempt) is what the
refusal needs.

*Hub.* `Mirror`, that the two indexes are inverse relations, is preserved by
each method for every argument; `unsubscribe_all` needs it, since it visits only
the sets that the reverse index names. `NoLeakedSubscription` speaks of quiescent
states and is not inductive; `SubscriptionsOwned` says who is responsible in
between: whoever still watches something is connected, or one of its tasks is
on the way to the `unsubscribe_all` that drops it. `RegistryFollowsTasks` (a
connection is in the registry exactly from register to unregister) makes the
step for `unregister` go through. `AdvertOwned` is the same argument for the
keys advertised to peered relays: each is open, or a task that closed it is on
its way to `remove`.

The other two quiescent properties rest on what the tasks under way still carry.
For the pairing gate, `CarriesRequest` says of a request between its locks that
about every machine it carries what is recorded and, past the filter, what the
machine allows, unless it was overtaken about that machine; `GateOrdered` that
with neither a request of the owner nor a push of the machine under way the
subscription is what was requested and is allowed, unless it was last decided on
overtaken grounds. Either half may come last; two halves that overlap may leave
the wrong word, until the next request or push. For the views, `Informed` says of a client that follows a
topic that it believes the truth, its queue counted, or that a task will tell
it: a task between the registry change and its last push (`RisingTo`,
`FallingTo`), or the backfill that its subscription started. `OneWay` is needed
so that no other task makes it wrong again: outside the topics of `raced` no task
carries an outdated word. One lemma, `ViewStep`, shows that a step keeps both
under conditions on who believes, watches and tells; each action then meets them.

*Election.* `LinksLive` says that a registered connection leads to an existing
listener, and to an orphaned one only if it was registered late; it needs
`BrokersServe` (a teardown orphans a listener that was still serving) and
`OneOwner` (an exit closes nobody else's listener). `VerdictsSound` says that a
task about to unlink has probed a listener that serves nobody; it stays true
because no step revives a listener (`NoRevival`). `BusyLeaderKept` follows: if
the path names a serving broker when the unlink comes, the verdict was about
another file.

*Roster.* `RosterExact` is inductive together with the types, the limit and
`Opened` (a line can only come from an owned connection). The core is
`IdentityResult`, what `_identityForRegister` returns for every roster: a free
address of the folder while there is room, or the very address a takeover asked
for. It needs that the smallest free suffix exists (`SmallestFree`, from the
well-foundedness of the naturals). For a takeover the previous holder is not the
newcomer, since a listed connection has an address; for a rename the own entry
is the only one removed, so the limit holds before and after. `NoTheft` reads
off each step who held the address: a late close finds, by `RosterExact`, that
its connection is not the one listed.

*Relay link.* `LinkInv` is not inductive. `RetriesOfOneGeneration` adds that the
timer and the suspended attempts are of generations there have been, and that at
most one of them is of the current one, while the relay is on and nothing is
published: hence an attempt that resumes may publish its client, and one that is
overtaken closes it. `ChecksOfOneEpoch` ties a start that still waits for its
first sweep to the producer of its epoch, which is what `StatusTold` needs when
the producer is stopped, or when a shutdown overtakes the start.

*Bridge.* `AttemptCurrent` says that the attempt under way is of a generation
there has been and, if of the current one, over the relay wanted now; every
detach, failover and change of relay moves the generation on, so the comparison
after the await suffices. `AttemptAlone` says that a node attaches only while no
bridge is published, so `OwnRelayAccounted` has one place to look for a client.

*Delivery.* `PromiseSafety` shows that every step of `MeshDelivery` is one of
`MeshPromise` or a stutter. The invariant speaks of the places a message can be:
it is in at most one queue (`OnePlace`), nobody was shown it while it is in one
(`PendingUnwritten`), and an answer under way says truly whether it was written
and finds the message in no queue (`AnswersTrue`). The queues are sequences of
which a frame is removed from the middle or a tail is cut off; `Rest` and
`From` state what all these cuts have in common.

*Prompts.* `PromptsRight` is inductive as it stands. `HandOffSettles` is its
core: giving a prompt to pi leaves pi something to do, or the turn id of a
command, or nothing changed, so no hand-off reaches a resting state that was not
one before. A conversion that ends flushes everything if the session does not
count as busy, so what it leaves parked is parked either while a run is ahead or
by a session that is busy without one, which `waiting` records; `FlushedPreviews`
says that a flush leaves nothing parked.

*Rosters of other machines.* `OnlySiblingsKnown` is inductive together with the
types of the queues and `OnlyActiveOwes`: a bridge that is not active owes no
refresh and nobody waits for it. That is what a bridge needs that is undone on
activation because its roster does not fit the wire.

*Revocation.* A removal compares one number, the token of the Owner's slot.
`OneToken` says that all records of one pending revocation carry the same token,
that it is never ahead of the slot's, and that where it equals the slot's each
record is still the pairing that was seen. A removal of the sweep itself moves
the token on and the continuation hands the new one to the other spellings:
`HitSound` says that nothing was paired in between while the sweep has its
authority. That rests on `AddingAway`: an Owner about to be stored has no record
and is unknown to every sweep that may go on, because `invalidateStorageAuthority`
comes before the write.

*Agents.* That nobody waits in a circle follows from one fact about the inbox,
`NothingMissed`: a wait begins only when nothing in the inbox ends or interrupts
it, and whatever arrives later is matched against the wait before it is left in
the inbox. A fresh request interrupts a wait, so of two agents that wait for each
other's request one would have been woken.

*Identity.* `SearchedRight` says what a process knows at each step of the
resolution: past the file there was none when it began, past the keyring it
answered or threw, and at the mint no paired device was recorded or peers.json
could not be read. `began` is the
state of the machine when the process began, and `BeganHolds` says that what was
there then still is, so what a process did not find was not there at the
beginning.

*Durable host.* `OneMove` describes the bridge while it is at work and nothing
crossed: at most one connect or move is under way, about the conversation of the
bridge; no client is published meanwhile; without a client there is a retry or a
move; and the port or the watch is behind only while the step of the move that
will set it is to come.

*Child rooms.* The manager matches an event without an id to the first tagged
entry. `InLine` says why that is the right child: one that has begun and is not
bound is tagged and waits in the manager's and in the factory's queue, and the
two queues order any two children alike. `LeastIndex` (again from the
well-foundedness of the naturals) is what "first" means. `TombstoneHolds` is
inductive with the stages (`Walk`).

*Transcript.* `WalkInv` names `from`, the entry the live frames begin after: the
log as it was when the client attached. `LiveInOrder` says that what arrived live
and what is on its way continue it without a gap. What was walked climbs
(`Climbs`): it starts at the first entry and never goes up by more than one,
though a leaf moved back repeats a stretch; the request under way or its page
continues it (`OneRequest`, `PageRight`), and a walk that ends uncut has come to
`from` or beyond (`GotRight`). A climb from 1 to n meets everything between
(`ClimbMeets`), which is why no entry is missing and the first of each comes
before the first of any later one. The cards need what the fold draws:
`LastCardShown` follows the last occurrence of a call through the rest of the
transcript. Folds are unfolded by `FoldPrefixes`, a row of values of which each is
a step from the one before. The library's induction theorems take an operator and
cannot be used; `UpTo` does with sets of numbers instead, by way of the least
number that is missing, and `FoldExists` builds with it the recursive function
the fold is defined by.

*Live view.* `LiveInv` speaks of what has been emitted of the entries up to k
(`EmittedRight`), so that the translator can be followed entry by entry and slot
by slot; `FoldRead` and `FoldSlots` unfold its two folds as `FoldPrefixes` does.
`LiveRight` alone does not survive the end of a run, which clears the sets of
calls whose start and end were emitted: a call that was forgotten could be started
again. `Fresh` and `Past` say of each call that its start and end are remembered
or have not been emitted, or that its round is over and the entries to come hold
no result of it; that needs what the harness promises (`HarnessRight`), a round and
a result once for each call. That no turn ends early is `Awaited`: a call under
way is one of the last answer, so the translator, which replaces what it waits for
with each answer, waits for it. Each function of the translator has a lemma that
says what it changes; the steps of the harness meet the conditions of one lemma
(`HarnessMoves`), since nothing already emitted depends on what they change.

*Panels.* A frame on its way counts as shown: `Shows` says what a panel will be
once the frames queued for the client are applied, and `ShowsAppended` and
`ShowsApplied` that sending and applying keep it. `PlanOnItsWay` and
`AgentsOnTheirWay` say that the bridge's rows will be shown, or that the timer or
the coming sync will send them. `BasedCurrent` is why a late snapshot does no
harm: no number is ahead of its source, and what was taken under the source's
last number is the truth, so the comparison of numbers (`Stale`) drops only what is
older. `AwayClean` covers the empty panel, which nothing replays.

*Launches.* The frame of an ask is in one place at a time: `Launches` counts it
on its way, at the gate, with the handler and as a launch, `OneLaunch` says that
the sum is at most one and zero before the command sends it. That a line reaches
one handler or the gate, never two, is `OneActive` (a connection is only made
while there is no other) with `OneEar` (on an open client a device has one
listener exactly if its channel is there) and `FreshClean` (a client that has not
opened has none). A late close breaks `OneActive`, hence the exception.
`ErrorsTrue` says that an error queued for the only command of a device means
that the frame it waits for is gone. `ClearedInTime` needs none of this: whoever
is about to be launched was in `peers.json` at the fresh check.

*Dialogs.* What a client will show of a dialog is settled by the last frame about
it on the way to the client and, without one, by what the client shows and its
sync window has seen (`Coming`, `Going`, both a `LastWord`). The lemmas `WordKept`,
`WordGiven` and `WordRead` say what appending and reading frames does to the last
word; the window is in the base because closing it retires what it has not seen.
`FreshTold` is then the promise of a replay, and `CleanTold` that of a sync on a
clean line, which has to hold from the moment it is asked (`Speaks`): before the
host attaches the client nothing reaches it, so its window is still empty.

*Counts and names.* What a process will know once its lines are handled is what
the last line about it says, and without one what it knows (`LastWord`, of the
queue of its connection). `Counted`: that word is the size of the roster, or the
roster will be asked for again, because a `list_peers` or a notice is on its way
or the process has yet to finish joining. `Shown`: the last acknowledgement
carries the name listed. A name is only taken over from the answer by a process
that expects it, so `Staged` says that the first line read on a connection is the
answer to its register line, which rests on `Quiet` (nothing is written to a
connection before it is registered), and `Answered` says that one rename at most
is on its way and that its listener is in the slot. The history variables `blind`
and `slipped` are needed here: a timer that fires first, or a second rename, takes
the listener away. What the broker writes to the others of a row is at most a
notice (`Nudged`), and a notice leaves all of this as it was (`Kept`).

Every invariant that a run checks as holding has its theorem. Only model-checked
are the liveness properties (`SelfHealing`, `Converges`, `Reconnects`,
`LauncherReachable`, `RevokedOwnerDropped`, `ComesBack`, `BridgeComesUp`,
`RosterConverges`, `MailDrained`, `RevocationApplied`, `ServedEventually`,
`HostReachable`, and that of `PromiseKept`), which are out of the prover's reach.

## Claims the code does not keep

Beside the six findings, a comment or a test claims each of these of the code, the
module states it as a property without exceptions, and TLC refutes it on the
instance in the last column (specification and constants; no run of the project
depends on them, and the passing properties do not rely on them).

| Property | Claim | What happens | Refuted on |
|---|---|---|---|
| `RelayHub!FollowedPeersKept` | `presence.rs:8`: `subscribers_of[X]` is the "set of peer_ids that want push when X connects/disconnects" | `unregister` (`registry.rs:214`) drops the presence list after all its awaits; a client that has come back meanwhile, and sent its list, gets no more pushes | constants of `RelayDevices.cfg` with `PresenceLists <- WatchMachine`, the other frames `Quiet` |
| `RelayHub!FollowedRequestKept` | `peer.rs:334`: the request is recorded "so a later pairing_set that grants a machine re-derives the subscription without a reconnect" | the end of one device's connection (`peer.rs:885`) drops the request of the owner, of whom another device is connected | constants of `RelayDevices.cfg` with `RoomChecks <- CheckMachine` |
| `RelayHub!OpenRoomsAdvertised` | `peer.rs:887`: the remove is to "notify federated peer relays that this session is gone" | it is sent at the end of any connection, though another one holds the room | constants of `RelayWatch.cfg` with all frames `Quiet` |
| `LeaderElection!NoGhosts` | `peer.ts:744`: no second join, "or we'd double-register ... and leave an orphaned still-open socket as a ghost peer" | `rename()` (`peer.ts:325`) joins whatever other join is under way, and `_reelectAfterDisplacement` does not look at the socket after its delay | `MCLeaderElection`, constants of `Machine.cfg` |
| `BrokerRoster!AddressSettles` | `peer.ts:202`: `address()` "Returns the canonical address", "the key the mesh routes on" | the listener of `renameInPlace` (`peer.ts:356`) takes the name over from the answer and not the address | `MCBrokerRoster`, constants of `Views.cfg`, two joins |
| `MachineIdentity!PairedNeverMintedOver` | `storage.ts:716`: "Devices already paired ⇒ an identity provably existed", `:719` "Fail loud on every platform." | `listPeers` (`storage.ts:895`) answers `[]` for a file it cannot parse, and the `writeFile` of `addPeer` (`:1032`) empties it first: the daemon counts no device and mints | a keychain user and a daemon, `CoreKeyring`, two mints, no upset |
| `MeshBridge!DormantMeansLed` | `mesh_server.ts:120`: "active only when this node leads", `:122` "cross-PC rides the existing leader" | a first attach that throws rejects `connect()` (`mesh_node.ts:247`); `tryJoinMesh` calls it again, the node follows the broker it hosts itself, and no bridge is attempted | one relay, no moves, one loss |
| `TranscriptWalk!InLogOrder` | `connect.ts:1077`: history "goes before anything that arrived live while we were fetching, and the transcript is rebuilt in log order" | an entry that is stored, and told live, before the page that also holds it is shown twice | three entries of one size, budget 2, six pages, no navigation |
| `DurableView!LiveAsPaged` | `view_translator.ts:5-6`: the app "sees the same traffic"; `mirror.ts:19`: a reset is a custom message "(display)" | the translator emits nothing for `pi.reset` (`view_translator.ts:158`) | one call, one submission, one entry of the app |
| `UiDialogs!WarningKeepsAsk` | `ask.ts:91` (and the test `ask.test.ts:36`): "A warning is actionable (answer rejected, flow expired): show it inline and leave any open ask standing" | `routeNotify` and `reduce.ts` read `notifyType`, the bridge writes `notify_type` (`extension_ui_bridge.ts:171`, `:204`, `:320`), so a warning dismisses the request | one client, one flow opened once, one sync, one fault |
| `DurableBridge!OneClient` | `bridge.ts:297`: a move is to "stop everything, attach to the new conversation, reconnect under its room" | `retarget` leaves an armed retry and a connect in flight alone, and `connectRelay` publishes whatever `this.relay` is by then: two connections stay open | one phone, two conversations, three dials, one shock |
| `DurableBridge!ReconnectAttaches` | `bridge.ts:462`: the listener is for "pair_request from new devices, reconnect attach for known peers" | the close handler (`bridge.ts:409`) leaves `activePeers`, and `peer_channel.ts:82` ignores its disconnect handler: the owner's lines are dropped, and a repeated `pair_request` (`:554`) does not attach it either | one phone, one conversation, two dials, one shock |

## What the models show beside the runs

Where a module's exception or history variable names a weakness of the code, this
is what it stands for. What contradicts a comment or a test is a finding, or in the
section above, and not repeated here; a line below that names a comment is a
further contradiction.

Durable host (`DurableBridge`, `DurableView`)

- An attach that throws in `retarget` leaves the host without a connection and
  without a retry. Of overlapping moves the last to finish wins, whatever room it
  is in.
- A rotation tick after a pairing mints another invite.
- Live view, further departures from "the same traffic" of
  `view_translator.ts:5-6` than `LiveAsPaged`: of an entry with
  several messages only the first is emitted; an app entry shown outside a run
  opens a turn that stays open; attaching in the middle of a round ends the turn
  early; an aborted run leaves a streamed message or a tool without an end.

Clients (`TranscriptWalk`, `UiDialogs`, `PanelBridge`, `RemoteLaunch`)

- Of a call that is shown twice the first card stays without its result. A client
  that attaches between the end of a tool and the storing of its result shows the
  card without it. A leaf moved back by more than a page makes the walk go round
  until its page limit; a page with a null leaf is dropped.
- The agents' panel is not refreshed when it becomes empty, and the replay leaves
  out an emptied panel. Two producers share the key of the agents' panel.
- A late close clears the newer client's channels and starts a second
  connection, after which frames are handled twice; a gate that resumes after its
  client closed registers a channel on the dead one. A second frame during a
  gate's await is dropped. The refusal of an unknown owner names no room and does
  not reach a command in the control room.
- A command takes any error frame of its device for its own, and silence for
  success; failed launches are only logged. `create-session` without a name or
  directory attaches to any room that appears. Two first tmux launches race on
  the creation of the tmux session.
- The pushed allow-list may be older than its version, and one version that could
  not be minted makes all later pushes of the process fail.

Extension (`OwnerTrust`, `MachineIdentity`, `SubagentRooms`, `AgentExchange`,
`MeshDelivery`, `AppPrompts`)

- `peers.json` is read and written by several processes without a lock between
  them; a process that promotes a legacy keyring entry hides it from another in
  between its two reads.
- A connect that rejects leaves a child in `building` for good.
- Nothing marks a message of the inbox handled. `asTransportErrorBody` refuses the
  reason `unknown_peer`, so such a sender waits for its timer.
- A preview whose conversion ends during a compaction, or under the turn id of a
  command, stays parked until the next run ends; a failed compaction leaves
  `working` set; whether a photo steers is decided before its conversion, so it
  may overwrite the turn id of a run begun meanwhile.

## Not modelled

- *Relay*: authentication and signatures; the mesh store's internals (the
  extension's view of it, any signed version not older than asked for, is in
  `OwnerTrust`); the versions and write-through of `pairing.rs`, where
  `set_signed` compares and stores under different locks; the peering protocol
  of `peering.rs` and federated hops (only the keys advertised are in
  `RelayHub`); of `room_meta` frames what they change in a room's metadata.
- *App* (Swift): its reducer, cache, connection and views. The protocols it
  speaks are modelled on the side of the session, and of the command line
  client where both do the same.
- *Extension*: installers and service templates, the MCP server (another front
  end of the tools in `AgentExchange`), the wording and rendering of commands,
  settings that pass straight through to pi, which owners have a channel to a
  child's room.
- *Command line client*: the terminal shell and the merge of several relays. (In
  the latter `listAllSessions` reuses the first machine's client of a relay,
  where the comment at `connect.ts:189-193` speaks of one per machine, and the
  `client.close()` at `connect.ts:811` fires the handler that ends the program.)
- *Platforms*: the named pipes of Windows, which leave no file to race on.
- *Across parts*: a failover of the local broker while names or messages are in
  flight is in `LeaderElection` and, as a broker that dies, in `MeshDelivery`,
  each with the part of the state it needs; the two are not one module.
- pi, pi-ask, pi-durable, the keyring and tmux are external: modelled from how
  this code uses them.

## Plan

1. The version protocol of `pairing.rs` and the relay's mesh store, with the
   restart that loses a failed write-through. To prove: versions never regress
   while the process lives.
2. `peering.rs` and `pi_forward.rs`: sessions, updates and link death, forwards
   against their timers, composed with the `advert` of `RelayHub`.
3. Owner channels of child rooms, and the client's merge of several relays.
