------------------------------ MODULE RelayLink ------------------------------
(***************************************************************************)
(* The extension's connection to the relay: the state machine idle/started *)
(* of session/relay_lifecycle.ts, the commands of commands/lifecycle.ts    *)
(* that move it, the sockets of transport/relay_client.ts and the owner    *)
(* channels attached over it.  The process has one thread; what interleaves *)
(* is the code before and after every await.  A suspended function is a    *)
(* record of `jobs`, and it resumes in one of the Resume actions.  Nothing *)
(* but the relay lifecycle generation, re-read after the await, tells a    *)
(* resumed function whether the world it left is still there.              *)
(***************************************************************************)
EXTENDS Naturals, FiniteSets

CONSTANTS
    Clients,        \* the RelayClient objects alive at one time
    Owners,         \* the paired devices
    NoClient,       \* null
    MaxDrops,       \* connections lost or gone half-open, over a behaviour
    MaxCommands,    \* commands of the user and session replacements
    MaxPairs,       \* pair requests and revocations, over a behaviour
    MaxHandlers     \* lines of owners being handled at one time

ASSUME LinkAssumption ==
    /\ NoClient \notin Clients
    /\ IsFiniteSet(Clients) /\ IsFiniteSet(Owners)
    /\ MaxDrops \in Nat /\ MaxCommands \in Nat /\ MaxPairs \in Nat
    /\ MaxHandlers \in Nat

VARIABLES
    gen,        \* _relayLifecycleGeneration
    st,         \* deps.state: "idle" or "started"
    relay,      \* deps.relay: the published client
    socket,     \* what became of each RelayClient's socket
    timer,      \* the generation _reconnectTimer was armed for, 0 for none
    jobs,       \* functions suspended at an await
    listening,  \* the generation of the installed auto-listener, 0 for none
    active,     \* deps.activePeers: owner -> the client its channel uses
    known,      \* peers.json
    epoch,      \* deps.selfRevokeEpoch
    producer,   \* deps.selfRevoke # null
    topology,   \* selfRevokeTopologyReadyEpoch = selfRevokeEpoch
    mesh,       \* deps.meshNode # null
    bridge,     \* the client the mesh node was told to bridge over
    disposed,   \* set by session_shutdown
    status,     \* _lastRelayStatus, what RPC clients were told last
    session,    \* a session id exists, so the room can be named
    deferred,   \* relayStartDeferred
    hung,       \* clients whose connect nobody answers
    budget      \* what is left of the bounds

linkVars == <<gen, st, relay, socket, timer, jobs, listening, active, known,
              epoch, producer, topology, mesh, bridge, disposed, status,
              session, deferred, hung, budget>>

Sockets == {"unused", "connecting", "open", "halfopen", "closing"}

(***************************************************************************)
(* Suspended functions.  gen is the generation captured before the await,  *)
(* client the candidate or the listener's client, seen what peers.json said *)
(* when it was read.                                                       *)
(***************************************************************************)
Tasks ==
    [fn : {"start_key"}, gen : Nat]
    \cup [fn : {"start_connect", "reconnect"}, gen : Nat, client : Clients]
    \cup [fn : {"start_check"}, epoch : Nat, client : Clients]
    \cup [fn : {"message", "pair"}, gen : Nat, client : Clients,
          owner : Owners, seen : {"unread", "yes", "no"}]
    \cup [fn : {"pair_add"}, gen : Nat, client : Clients, owner : Owners]
    \cup [fn : {"rename"}, started : BOOLEAN]
    \cup [fn : {"shutdown"}]

LinkTypeOK ==
    /\ gen \in Nat /\ epoch \in Nat /\ timer \in Nat /\ listening \in Nat
    /\ st \in {"idle", "started"}
    /\ relay \in Clients \cup {NoClient}
    /\ bridge \in Clients \cup {NoClient}
    /\ socket \in [Clients -> Sockets]
    /\ jobs \subseteq Tasks
    /\ active \in [Owners -> Clients \cup {NoClient}]
    /\ known \subseteq Owners
    /\ producer \in BOOLEAN /\ topology \in BOOLEAN /\ mesh \in BOOLEAN
    /\ disposed \in BOOLEAN
    /\ session \in BOOLEAN /\ deferred \in BOOLEAN
    /\ hung \subseteq Clients
    /\ status \in {"none", "disconnected", "reconnecting", "connected"}
    /\ budget \in [{"drops", "commands", "pairs"} -> Nat]

Attached == {o \in Owners : active[o] # NoClient}

Detached == [o \in Owners |-> NoClient]

(* A client some suspended function still refers to. *)
InUse(c) == c = relay \/ \E t \in jobs : "client" \in DOMAIN t /\ t.client = c

Fresh == {c \in Clients : socket[c] = "unused" /\ ~ InUse(c)}

(* _relayStatus: what a state and a published client amount to. *)
RelayStatus(s, r) ==
    IF s = "idle" THEN "disconnected"
    ELSE IF r # NoClient THEN "connected" ELSE "reconnecting"

(* Mutated form of CloseClient: the client is dropped without close(). *)
DropClient(c) == [socket EXCEPT ![c] = @]

(* RelayClient.close(): a socket that is not gone yet starts to close. *)
CloseClient(c) ==
    [socket EXCEPT ![c] = IF @ = "unused" THEN @ ELSE "closing"]

(* _attachBridgeIfReady, on the values it reads. *)
BridgeOver(m, r, p, t) == IF m /\ r # NoClient /\ (p => t) THEN r ELSE bridge

LinkInit ==
    /\ gen = 0 /\ epoch = 0
    /\ st = "idle"
    /\ relay = NoClient
    /\ socket = [c \in Clients |-> "unused"]
    /\ timer = 0
    /\ jobs = {}
    /\ listening = 0
    /\ active = Detached
    /\ known \in SUBSET Owners
    /\ producer = FALSE /\ topology = FALSE
    /\ mesh = FALSE /\ bridge = NoClient
    /\ disposed = FALSE
    /\ status = "none"
    /\ session \in BOOLEAN /\ deferred = FALSE /\ hung = {}
    /\ budget = [drops |-> MaxDrops, commands |-> MaxCommands, pairs |-> MaxPairs]

Spend(b) ==
    /\ budget[b] > 0
    /\ budget' = [budget EXCEPT ![b] = @ - 1]

-----------------------------------------------------------------------------
(* Tearing down *)

(***************************************************************************)
(* _goIdle: every asynchronous candidate loses its authority (the          *)
(* generation), the timer and the listener go, owners are detached, the    *)
(* producer stops, the bridge is detached, and only then the client        *)
(* is closed, so that its close event finds another relay published.       *)
(***************************************************************************)
GoIdle ==
    /\ gen' = gen + 1
    /\ timer' = 0
    /\ listening' = 0
    /\ active' = Detached
    /\ epoch' = epoch + 1
    /\ producer' = FALSE /\ topology' = FALSE
    /\ bridge' = NoClient
    /\ relay' = NoClient
    /\ socket' = IF relay = NoClient THEN socket ELSE CloseClient(relay)
    /\ st' = "idle"
    /\ status' = "disconnected"

(* The relay part of the teardowns when the relay is off: nothing but the bridge. *)
StayIdle ==
    /\ bridge' = NoClient
    /\ UNCHANGED <<st, relay, socket, timer, listening, active, epoch, producer,
                   topology, status>>

(* Authority is revoked and nothing is torn down yet. *)
BumpOnly ==
    /\ gen' = gen + 1
    /\ UNCHANGED <<st, relay, socket, timer, listening, active, epoch, producer,
                   topology, status>>

(* /unbien stop: the relay and the mesh. *)
CmdStop ==
    /\ Spend("commands")
    /\ IF st = "started" THEN GoIdle ELSE StayIdle /\ gen' = gen + 1
    /\ mesh' = FALSE
    /\ UNCHANGED <<jobs, known, disposed, session, deferred, hung>>

(* Control verb relay:off: the relay only. *)
RelayOff ==
    /\ Spend("commands")
    /\ IF st = "started" THEN GoIdle
       ELSE /\ gen' = gen + 1
            /\ status' = RelayStatus(st, relay)
            /\ UNCHANGED <<st, relay, socket, timer, listening, active, epoch,
                           producer, topology, bridge>>
    /\ UNCHANGED <<jobs, known, mesh, disposed, session, deferred, hung>>

(***************************************************************************)
(* session_shutdown.  With owners attached the last frame is flushed first, *)
(* an await of up to a second with the connection still published and      *)
(* every authority already revoked.                                        *)
(***************************************************************************)
SessionShutdown ==
    /\ ~ disposed
    /\ Spend("commands")
    /\ disposed' = TRUE
    /\ IF Attached # {}
       THEN /\ BumpOnly
            /\ jobs' = jobs \cup {[fn |-> "shutdown"]}
            /\ UNCHANGED <<mesh, bridge>>
       ELSE /\ IF st = "started" THEN GoIdle ELSE StayIdle /\ gen' = gen + 1
            /\ mesh' = FALSE
            /\ UNCHANGED jobs
    /\ UNCHANGED <<known, session, deferred, hung>>

ResumeShutdown ==
    /\ [fn |-> "shutdown"] \in jobs
    /\ jobs' = jobs \ {[fn |-> "shutdown"]}
    /\ IF st = "started" THEN GoIdle ELSE StayIdle /\ UNCHANGED gen
    /\ mesh' = FALSE
    /\ UNCHANGED <<known, disposed, session, deferred, hung, budget>>

-----------------------------------------------------------------------------
(* Starting *)

(* _cmdStart up to its first await, from /unbien, relay:on or a rearm. *)
BeginStart ==
    /\ gen' = gen + 1
    /\ jobs' = jobs \cup {[fn |-> "start_key", gen |-> gen + 1]}

CmdStart ==
    /\ Spend("commands")
    /\ st = "idle"
    /\ BeginStart
    /\ UNCHANGED <<st, relay, socket, timer, listening, active, known, epoch,
                   producer, topology, mesh, bridge, disposed, status, session, deferred, hung>>

(***************************************************************************)
(* session_start of the root session: the session id is known from now on, *)
(* a start deferred for want of one runs, and an instance that was disposed *)
(* is armed again.                                                         *)
(***************************************************************************)
SessionStart ==
    /\ disposed \/ ~ session
    /\ [fn |-> "shutdown"] \notin jobs
    /\ session' = TRUE /\ deferred' = FALSE /\ disposed' = FALSE
    /\ IF deferred /\ st = "idle" THEN BeginStart ELSE UNCHANGED <<gen, jobs>>
    /\ UNCHANGED <<st, relay, socket, timer, listening, active, known, epoch,
                   producer, topology, mesh, bridge, status, hung, budget>>

(* isCurrentCandidate of _cmdStart. *)
CurrentCandidate(g) == ~ disposed /\ g = gen /\ st = "idle" /\ relay = NoClient

(***************************************************************************)
(* The identity was read or could not be.  The latter and a missing relay URL  *)
(* end the start; a session that has no id yet defers it.                  *)
(***************************************************************************)
ResumeKey(t, c) ==
    /\ t \in jobs /\ t.fn = "start_key"
    /\ \/ /\ CurrentCandidate(t.gen) /\ session
          /\ c \in Fresh
          /\ jobs' = (jobs \ {t})
                 \cup {[fn |-> "start_connect", gen |-> t.gen, client |-> c]}
          /\ socket' = [socket EXCEPT ![c] = "connecting"]
          /\ UNCHANGED deferred
       \/ /\ CurrentCandidate(t.gen) /\ ~ session
          /\ deferred' = TRUE
          /\ jobs' = jobs \ {t}
          /\ UNCHANGED socket
       \/ /\ jobs' = jobs \ {t}                 \* no identity, no URL, stale
          /\ UNCHANGED <<socket, deferred>>
    /\ UNCHANGED <<gen, st, relay, timer, listening, active, known, epoch,
                   producer, topology, mesh, bridge, disposed, status, session, hung, budget>>

(***************************************************************************)
(* _setupRelayConnection: publish the client, hook its close event, push   *)
(* the allow-list, install the auto-listener under this generation.        *)
(***************************************************************************)
SetupRelayConnection(c) ==
    /\ relay' = c
    /\ socket' = [socket EXCEPT ![c] = "open"]
    /\ listening' = gen

(***************************************************************************)
(* The connect of _cmdStart settled.  A candidate that failed or that is   *)
(* no longer current is closed; the current one is published in the same   *)
(* step, and the producer's first sweep is awaited before the state is     *)
(* announced.                                                              *)
(***************************************************************************)
ResumeStartConnect(t) ==
    /\ t \in jobs /\ t.fn = "start_connect" /\ t.client \notin hung
    /\ \/ /\ socket' = [socket EXCEPT ![t.client] = "unused"]   \* rejected
          /\ jobs' = jobs \ {t}
          /\ UNCHANGED <<st, relay, listening, epoch, producer, topology>>
       \/ /\ ~ CurrentCandidate(t.gen)
          /\ socket' = CloseClient(t.client)
          /\ jobs' = jobs \ {t}
          /\ UNCHANGED <<st, relay, listening, epoch, producer, topology>>
       \/ /\ CurrentCandidate(t.gen)
          /\ st' = "started"
          /\ SetupRelayConnection(t.client)
          /\ epoch' = epoch + 1
          /\ producer' = TRUE
          /\ topology' = FALSE
          /\ jobs' = (jobs \ {t}) \cup
                 {[fn |-> "start_check", epoch |-> epoch + 1, client |-> t.client]}
    /\ UNCHANGED <<gen, timer, active, known, mesh, bridge, disposed, status, budget, session, deferred, hung>>

(* The producer's first check ended: announce, unless it was replaced. *)
ResumeCheck(t) ==
    /\ t \in jobs /\ t.fn = "start_check"
    /\ jobs' = jobs \ {t}
    /\ status' = IF ~ disposed /\ producer /\ t.epoch = epoch /\ relay = t.client
                 THEN "connected" ELSE status
    /\ UNCHANGED <<gen, st, relay, socket, timer, listening, active, known, epoch,
                   producer, topology, mesh, bridge, disposed, budget, session, deferred, hung>>

(* Mutated form of ProducerSweep: owners that are gone stay attached. *)
SweepKeepsOwners ==
    /\ producer
    /\ topology' = TRUE
    /\ bridge' = BridgeOver(mesh, relay, producer, TRUE)
    /\ UNCHANGED <<gen, st, relay, socket, timer, jobs, listening, active, known,
                   epoch, producer, mesh, disposed, status, budget, session,
                   deferred, hung>>

(***************************************************************************)
(* A sweep of the SelfRevoke producer: owners that peers.json no longer    *)
(* has are detached, and the topology it verified lets the bridge attach.  *)
(***************************************************************************)
ProducerSweep ==
    /\ producer
    /\ active' = [o \in Owners |-> IF o \in known THEN active[o] ELSE NoClient]
    /\ topology' = TRUE
    /\ bridge' = BridgeOver(mesh, relay, producer, TRUE)
    /\ UNCHANGED <<gen, st, relay, socket, timer, jobs, listening, known, epoch,
                   producer, mesh, disposed, status, budget, session, deferred, hung>>

(* A signed revocation removes the owner from disk and from the runtime. *)
OwnerRevoked(o) ==
    /\ producer
    /\ o \in known
    /\ Spend("pairs")
    /\ known' = known \ {o}
    /\ active' = [active EXCEPT ![o] = NoClient]
    /\ UNCHANGED <<gen, st, relay, socket, timer, jobs, listening, epoch, producer,
                   topology, mesh, bridge, disposed, status, session, deferred, hung>>

(* A mesh join, which /unbien begins with, published its node. *)
MeshJoined ==
    /\ ~ mesh /\ ~ disposed
    /\ mesh' = TRUE
    /\ bridge' = BridgeOver(TRUE, relay, producer, topology)
    /\ UNCHANGED <<gen, st, relay, socket, timer, jobs, listening, active, known,
                   epoch, producer, topology, disposed, status, budget, session, deferred, hung>>

(***************************************************************************)
(* _renameAgent: the room follows the name, so the relay is cycled around  *)
(* the broker's soft rejoin, which is awaited.                             *)
(***************************************************************************)
RenameAgent ==
    /\ Spend("commands")
    /\ mesh
    /\ jobs' = jobs \cup {[fn |-> "rename", started |-> st = "started"]}
    /\ IF st = "started" THEN GoIdle
       ELSE UNCHANGED <<gen, st, relay, socket, timer, listening, active, epoch,
                        producer, topology, bridge, status>>
    /\ UNCHANGED <<known, mesh, disposed, session, deferred, hung>>

ResumeRename(t) ==
    /\ t \in jobs /\ t.fn = "rename"
    /\ IF t.started /\ ~ disposed /\ st = "idle"
       THEN /\ gen' = gen + 1
            /\ jobs' = (jobs \ {t}) \cup {[fn |-> "start_key", gen |-> gen + 1]}
       ELSE jobs' = jobs \ {t} /\ UNCHANGED gen
    /\ UNCHANGED <<st, relay, socket, timer, listening, active, known, epoch,
                   producer, topology, mesh, bridge, disposed, status,
                   budget, session, deferred, hung>>

-----------------------------------------------------------------------------
(* Losing the connection and getting it back *)

(* The other end vanished without a word: the socket still looks open. *)
GoHalfOpen(c) ==
    /\ socket[c] = "open"
    /\ Spend("drops")
    /\ socket' = [socket EXCEPT ![c] = "halfopen"]
    /\ UNCHANGED <<gen, st, relay, timer, jobs, listening, active, known, epoch,
                   producer, topology, mesh, bridge, disposed, status, session, deferred, hung>>

(* The peer closes, or the identity check terminates the socket. *)
Drop(c) ==
    /\ socket[c] = "open"
    /\ Spend("drops")
    /\ socket' = [socket EXCEPT ![c] = "closing"]
    /\ UNCHANGED <<gen, st, relay, timer, jobs, listening, active, known, epoch,
                   producer, topology, mesh, bridge, disposed, status, session, deferred, hung>>

(* Mutated form of Watchdog: only a socket that is closing is terminated. *)
WatchdogSparesSilent(c) ==
    /\ socket[c] = "closing"
    /\ UNCHANGED linkVars

(* The liveness watchdog terminates a socket silent for LIVENESS_TIMEOUT_MS. *)
Watchdog(c) ==
    /\ socket[c] = "halfopen"
    /\ socket' = [socket EXCEPT ![c] = "closing"]
    /\ UNCHANGED <<gen, st, relay, timer, jobs, listening, active, known, epoch,
                   producer, topology, mesh, bridge, disposed, status,
                   budget, session, deferred, hung>>

(***************************************************************************)
(* The close event of a client.  _onRelayClose acts only for the published *)
(* one: partial teardown, the URL is kept, a retry is scheduled.           *)
(***************************************************************************)
OnRelayClose(c) ==
    /\ socket[c] = "closing"
    /\ socket' = [socket EXCEPT ![c] = "unused"]
    /\ IF relay = c /\ st = "started"
       THEN /\ gen' = gen + 1
            /\ listening' = 0
            /\ active' = Detached
            /\ relay' = NoClient
            /\ bridge' = NoClient
            /\ status' = "reconnecting"
            /\ timer' = IF timer = 0 THEN gen + 1 ELSE timer
       ELSE UNCHANGED <<gen, listening, active, relay, bridge, status, timer>>
    /\ UNCHANGED <<st, jobs, known, epoch, producer, topology, mesh, disposed, budget, session, deferred, hung>>

(* _isCurrentReconnect; the URL changes with the generation only. *)
CurrentReconnect(g) == g = gen /\ st = "started" /\ relay = NoClient

(* The backoff timer fires: _attemptReconnect up to its connect. *)
ReconnectTimer(c) ==
    /\ timer # 0
    /\ c \in Fresh
    /\ timer' = 0
    /\ IF CurrentReconnect(timer)
       THEN /\ jobs' = jobs \cup
                   {[fn |-> "reconnect", gen |-> timer, client |-> c]}
            /\ socket' = [socket EXCEPT ![c] = "connecting"]
       ELSE UNCHANGED <<jobs, socket>>
    /\ UNCHANGED <<gen, st, relay, listening, active, known, epoch, producer,
                   topology, mesh, bridge, disposed, status, budget, session, deferred, hung>>

(***************************************************************************)
(* A connect that nobody answers.  connect() waits for "open" without a    *)
(* limit of its own: its 5 seconds are for the authentication after that,  *)
(* and the watchdog starts later still.                                    *)
(***************************************************************************)
ConnectHangs(c) ==
    /\ socket[c] = "connecting" /\ c \notin hung
    /\ Spend("drops")
    /\ hung' = hung \cup {c}
    /\ UNCHANGED <<gen, st, relay, socket, timer, jobs, listening, active, known,
                   epoch, producer, topology, mesh, bridge, disposed, status, session,
                   deferred>>

(* The connect of a reconnect was rejected: close and, if current, retry. *)
ReconnectFails(t) ==
    /\ t \in jobs /\ t.fn = "reconnect" /\ t.client \notin hung
    /\ jobs' = jobs \ {t}
    /\ socket' = [socket EXCEPT ![t.client] = "unused"]
    /\ timer' = IF CurrentReconnect(t.gen) /\ timer = 0 THEN t.gen ELSE timer
    /\ UNCHANGED <<gen, st, relay, listening, active, known, epoch, producer,
                   topology, mesh, bridge, disposed, status, budget, session, deferred, hung>>

(* It succeeded: publish it if the generation is still the one captured. *)
ReconnectSucceeds(t) ==
    /\ t \in jobs /\ t.fn = "reconnect" /\ t.client \notin hung
    /\ jobs' = jobs \ {t}
    /\ IF CurrentReconnect(t.gen)
       THEN /\ SetupRelayConnection(t.client)
            /\ bridge' = BridgeOver(mesh, t.client, producer, topology)
            /\ status' = "connected"
       ELSE /\ socket' = CloseClient(t.client)
            /\ UNCHANGED <<relay, listening, bridge, status>>
    /\ UNCHANGED <<gen, st, timer, active, known, epoch, producer, topology, mesh,
                   disposed, budget, session, deferred, hung>>

-----------------------------------------------------------------------------
(* Owners *)

Handlers == {t \in jobs : t.fn \in {"message", "pair", "pair_add"}}

(* hasListenerAuthority of the auto-listener installed over c under g. *)
ListenerAuthority(c, g) == ~ disposed /\ st = "started" /\ relay = c /\ gen = g

(* The listener gets a line: an attached owner's channel takes its own. *)
OwnerSends(o) ==
    /\ relay # NoClient /\ socket[relay] = "open"
    /\ listening # 0
    /\ ListenerAuthority(relay, listening)
    /\ active[o] = NoClient
    /\ Cardinality(Handlers) < MaxHandlers
    /\ jobs' = jobs \cup {[fn |-> "message", gen |-> gen, client |-> relay,
                             owner |-> o, seen |-> "unread"]}
    /\ UNCHANGED <<gen, st, relay, socket, timer, listening, active, known, epoch,
                   producer, topology, mesh, bridge, disposed, status,
                   budget, session, deferred, hung>>

(* A pair_request reaches its handler whether or not its sender is attached. *)
OwnerPairs(o) ==
    /\ relay # NoClient /\ socket[relay] = "open"
    /\ listening # 0
    /\ ListenerAuthority(relay, listening)
    /\ Cardinality(Handlers) < MaxHandlers
    /\ Spend("pairs")
    /\ jobs' = jobs \cup {[fn |-> "pair", gen |-> gen, client |-> relay,
                             owner |-> o, seen |-> "unread"]}
    /\ UNCHANGED <<gen, st, relay, socket, timer, listening, active, known, epoch,
                   producer, topology, mesh, bridge, disposed, status, session, deferred, hung>>

(* _findKnownPeer reads peers.json some time before its caller resumes. *)
FindKnownPeer(t) ==
    /\ t \in jobs /\ t.fn \in {"message", "pair"} /\ t.seen = "unread"
    /\ jobs' = (jobs \ {t}) \cup
           {[t EXCEPT !.seen = IF t.owner \in known THEN "yes" ELSE "no"]}
    /\ UNCHANGED <<gen, st, relay, socket, timer, listening, active, known, epoch,
                   producer, topology, mesh, bridge, disposed, status,
                   budget, session, deferred, hung>>

(* _attachOwner: a stale channel of this owner is dropped first. *)
AttachOwner(o, c) == active' = [active EXCEPT ![o] = c]

(* The handler of a line resumes: attach a known owner, or unknown_peer. *)
ResumeMessage(t) ==
    /\ t \in jobs /\ t.fn = "message" /\ t.seen # "unread"
    /\ jobs' = jobs \ {t}
    /\ IF ListenerAuthority(t.client, t.gen) /\ t.seen = "yes"
       THEN AttachOwner(t.owner, t.client)
       ELSE UNCHANGED active
    /\ UNCHANGED <<gen, st, relay, socket, timer, listening, known, epoch, producer,
                   topology, mesh, bridge, disposed, status, budget, session, deferred, hung>>

(***************************************************************************)
(* _handlePairRequest after the lookup: a known owner is re-confirmed; a   *)
(* new one needs a token, which may be refused, and is then written.       *)
(***************************************************************************)
ResumePair(t) ==
    /\ t \in jobs /\ t.fn = "pair" /\ t.seen # "unread"
    /\ \/ /\ t.seen = "yes"
          /\ jobs' = jobs \ {t}
          /\ IF ListenerAuthority(t.client, t.gen) /\ active[t.owner] = NoClient
             THEN AttachOwner(t.owner, t.client)
             ELSE UNCHANGED active
       \/ /\ t.seen = "no"
          /\ \/ jobs' = jobs \ {t}                           \* token refused
             \/ jobs' = (jobs \ {t}) \cup
                    {[fn |-> "pair_add", gen |-> t.gen, client |-> t.client,
                      owner |-> t.owner]}
          /\ UNCHANGED active
    /\ UNCHANGED <<gen, st, relay, socket, timer, listening, known, epoch, producer,
                   topology, mesh, bridge, disposed, status, budget, session, deferred, hung>>

(***************************************************************************)
(* addPeer settled.  The owner is in peers.json whatever happened to the   *)
(* connection meanwhile; it is attached only under the same authority.     *)
(***************************************************************************)
ResumePairAdd(t) ==
    /\ t \in jobs /\ t.fn = "pair_add"
    /\ jobs' = jobs \ {t}
    /\ \/ /\ known' = known \cup {t.owner}
          /\ IF ListenerAuthority(t.client, t.gen)
             THEN AttachOwner(t.owner, t.client)
             ELSE UNCHANGED active
       \/ UNCHANGED <<known, active>>                          \* write failed
    /\ UNCHANGED <<gen, st, relay, socket, timer, listening, epoch, producer,
                   topology, mesh, bridge, disposed, status, budget, session, deferred, hung>>

(* _onPeerDisconnect: one owner's channel ended, the relay stays up. *)
OnPeerDisconnect(o) ==
    /\ st = "started"
    /\ active[o] # NoClient
    /\ active' = [active EXCEPT ![o] = NoClient]
    /\ UNCHANGED <<gen, st, relay, socket, timer, jobs, listening, known, epoch,
                   producer, topology, mesh, bridge, disposed, status,
                   budget, session, deferred, hung>>

-----------------------------------------------------------------------------
ResumeTask ==
    \/ ResumeShutdown
    \/ \E t \in jobs :
          \/ \E c \in Clients : ResumeKey(t, c)
          \/ ResumeStartConnect(t)
          \/ ResumeCheck(t)
          \/ ResumeRename(t)
          \/ FindKnownPeer(t)
          \/ ResumeMessage(t)
          \/ ResumePair(t)
          \/ ResumePairAdd(t)

Reconnecting ==
    \/ \E c \in Clients : ReconnectTimer(c)
    \/ \E t \in jobs : ReconnectFails(t) \/ ReconnectSucceeds(t)

Command == CmdStart \/ CmdStop \/ RelayOff \/ RenameAgent \/ SessionShutdown
    \/ SessionStart

Network ==
    \E c \in Clients :
        GoHalfOpen(c) \/ Drop(c) \/ Watchdog(c) \/ OnRelayClose(c) \/ ConnectHangs(c)

OwnerStep ==
    \/ ProducerSweep
    \/ MeshJoined
    \/ \E o \in Owners :
          OwnerSends(o) \/ OwnerPairs(o) \/ OwnerRevoked(o) \/ OnPeerDisconnect(o)

LinkNext == Command \/ ResumeTask \/ Reconnecting \/ Network \/ OwnerStep

LinkSpec == LinkInit /\ [][LinkNext]_linkVars

(***************************************************************************)
(* Fairness.  Node runs every ready continuation and every due timer, the  *)
(* watchdog and the sweep run on intervals, the close event follows the    *)
(* end of a socket, and a relay that is retried for ever accepts at last.  *)
(* A connect that hangs is owed nothing.                                   *)
(***************************************************************************)
LinkFairness ==
    /\ WF_linkVars(ResumeTask)
    /\ WF_linkVars(\E c \in Clients : ReconnectTimer(c))
    /\ SF_linkVars(\E t \in jobs : ReconnectSucceeds(t))
    /\ \A c \in Clients : WF_linkVars(Watchdog(c)) /\ WF_linkVars(OnRelayClose(c))
    /\ WF_linkVars(ProducerSweep)

-----------------------------------------------------------------------------
(* Properties *)

(***************************************************************************)
(* No connection is leaked: a socket that is open or opening belongs to    *)
(* the published client or to a function still waiting for its connect.    *)
(* A stale candidate that was dropped without close() would keep the room  *)
(* taken at the relay and its frames would reach nobody.                   *)
(***************************************************************************)
NoOrphanClient ==
    \A c \in Clients :
        /\ socket[c] \in {"open", "halfopen"} => relay = c
        /\ socket[c] = "connecting" =>
              \E t \in jobs : t.fn \in {"start_connect", "reconnect"} /\ t.client = c

(***************************************************************************)
(* Never stranded: a relay that is on but not connected has a retry armed  *)
(* or under way, under a generation that will still be accepted.  A timer  *)
(* or an attempt of an older generation would fire and change nothing.     *)
(***************************************************************************)
NeverStranded ==
    st = "started" /\ relay = NoClient =>
        \/ timer = gen
        \/ \E t \in jobs : t.fn = "reconnect" /\ t.gen = gen

(***************************************************************************)
(* Owners and the cross-PC bridge run only over the published relay, so    *)
(* frames of a session never leave on a replaced connection, whatever was  *)
(* suspended when it was replaced.                                         *)
(***************************************************************************)
OnlyCurrentRelay ==
    /\ \A o \in Owners : active[o] \in {NoClient, relay}
    /\ bridge \in {NoClient, relay}
    /\ st = "idle" => relay = NoClient /\ timer = 0 /\ listening = 0 /\ ~ producer

(***************************************************************************)
(* What RPC clients were told last is what is so, except while a start     *)
(* still waits for the producer's first sweep to announce itself, or a     *)
(* shutdown that overtook it is flushing before its own announcement.      *)
(***************************************************************************)
StatusTold ==
    \/ status = RelayStatus(st, relay)
    \/ status = "none" /\ st = "idle"
    \/ \E t \in jobs : t.fn = "start_check" /\ t.epoch = epoch /\ t.client = relay
    \/ [fn |-> "shutdown"] \in jobs

LinkInv == LinkTypeOK /\ NoOrphanClient /\ NeverStranded /\ OnlyCurrentRelay /\ StatusTold

(***************************************************************************)
(* An owner whose revocation overtook a lookup of peers.json is attached   *)
(* from the stale answer; the next sweep drops it.                         *)
(***************************************************************************)
RevokedOwnerDropped == LinkFairness =>
    \A o \in Owners :
        (o \notin known /\ active[o] # NoClient) ~> (o \in known \/ active[o] = NoClient)

(***************************************************************************)
(* A relay that is on gets its connection back, or is turned off: after a  *)
(* drop, a silent half-open socket, and any number of failed retries.      *)
(* Excepted is a retry whose connect nobody answers: it is never given up. *)
(***************************************************************************)
ComesBack == LinkFairness =>
    (st = "started" ~> \/ st = "idle"
                       \/ relay # NoClient /\ socket[relay] = "open"
                       \/ \E t \in jobs : /\ t.fn = "reconnect" /\ t.gen = gen
                                           /\ t.client \in hung)
==============================================================================
