----------------------------- MODULE MeshBridge -----------------------------
(***************************************************************************)
(* MeshNode of session/mesh_node.ts: how the leader of a folder's mesh     *)
(* keeps its cross-PC bridge (session/bridge.ts).  Attaching is a sequence *)
(* of awaits; meanwhile the relay may close, leadership may move, the host *)
(* may detach, attach another relay or close the node, and the topology    *)
(* may change.  One attach runs at a time (bridgeAttachInFlight); requests *)
(* that arrive meanwhile are one flag (bridgeAttachQueued), and an attempt *)
(* is published only if the bridge generation is the one it started under. *)
(* A node is given its relay by a host ("host") or opens its own ("own").  *)
(***************************************************************************)
EXTENDS Naturals, FiniteSets

CONSTANTS
    Relays,         \* RelayClient objects
    NoRelay,
    MaxMoves,       \* failovers, host requests, topology changes
    MaxLosses       \* relay closes and attaches that throw

ASSUME BridgeAssumption ==
    /\ NoRelay \notin Relays /\ IsFiniteSet(Relays)
    /\ MaxMoves \in Nat /\ MaxLosses \in Nat

VARIABLES
    mode,           \* "host" or "own"
    meshRole,           \* peer_.currentRole()
    brokerId,       \* peer_.localBroker(): a new object at each promotion
    rejoined,       \* the peer has rejoined and will call onReconnect
    wanted,         \* bridgeParams: its relay, "own", or "none"
    bgen,           \* bridgeGeneration
    queued,         \* bridgeAttachQueued
    run,            \* bridgeAttachInFlight
    bridgeOn,       \* activeBridge
    relayOpen,      \* relays whose socket is open
    retryTimer,     \* relayReconnectTimer # null
    waiters,        \* callers suspended on _requestBridge
    topoRev,        \* topologyRevision
    nodeClosed,     \* closed
    rejected,       \* history: the last attempt threw, its caller knows
    unjoined,       \* connect() rejected, and its caller will call it again
    selfFollow,     \* the peer follows the broker it hosts itself
    connectHung,    \* nobody answers the connect in flight
    moves, losses   \* what is left of the bounds

bridgeVars == <<mode, meshRole, brokerId, rejoined, wanted, bgen, queued, run, bridgeOn,
                relayOpen, retryTimer, waiters, topoRev, nodeClosed, rejected, unjoined,
                selfFollow, connectHung, moves, losses>>

joinPart == <<unjoined, selfFollow, connectHung>>

NoRun == [phase |-> "none"]
NoBridge == [relay |-> NoRelay]

Attempts ==
    [phase : {"none", "loop"}]
    \cup [phase : {"connect", "attach"}, gen : Nat, relay : Relays, broker : Nat,
          rev : Nat]

BridgeTypeOK ==
    /\ mode \in {"host", "own"} /\ meshRole \in {"leader", "follower"}
    /\ brokerId \in Nat /\ bgen \in Nat /\ topoRev \in Nat
    /\ wanted \in Relays \cup {"own", "none"}
    /\ run \in Attempts
    /\ bridgeOn \in {NoBridge} \cup
           [relay : Relays, gen : Nat, broker : Nat, topo : Nat]
    /\ relayOpen \subseteq Relays
    /\ waiters \subseteq {"first", "failover", "retry"}
    /\ \A b \in {rejoined, queued, retryTimer, nodeClosed, rejected, unjoined, selfFollow,
               connectHung} : b \in BOOLEAN
    /\ moves \in 0 .. MaxMoves /\ losses \in 0 .. MaxLosses

Own == wanted = "own"

(* connect() of a node with its own bridge requests it as soon as it joined. *)
BridgeInit ==
    /\ mode \in {"host", "own"}
    /\ meshRole \in {"leader", "follower"}
    /\ brokerId = IF meshRole = "leader" THEN 1 ELSE 0
    /\ rejoined = FALSE
    /\ wanted = IF mode = "own" THEN "own" ELSE "none"
    /\ bgen = 0 /\ topoRev = 0
    /\ queued = (mode = "own")
    /\ run = IF mode = "own" THEN [phase |-> "loop"] ELSE NoRun
    /\ bridgeOn = NoBridge
    /\ relayOpen = {}
    /\ retryTimer = FALSE
    /\ waiters = IF mode = "own" THEN {"first"} ELSE {}
    /\ nodeClosed = FALSE /\ rejected = FALSE
    /\ unjoined = FALSE /\ selfFollow = FALSE /\ connectHung = FALSE
    /\ moves = MaxMoves /\ losses = MaxLosses

Move == moves > 0 /\ moves' = moves - 1 /\ UNCHANGED losses
Loss == losses > 0 /\ losses' = losses - 1 /\ UNCHANGED moves

(* The relays left open when the published bridge is torn down. *)
AfterTeardown ==
    IF mode = "own" /\ bridgeOn # NoBridge THEN relayOpen \ {bridgeOn.relay}
    ELSE relayOpen

(* _requestBridge: raise the flag, start a run unless one is in flight.  Who *)
(* waited for the last run has resumed before anybody starts another.        *)
RequestBridge ==
    /\ run = NoRun => waiters = {}
    /\ queued' = TRUE
    /\ run' = IF run = NoRun THEN [phase |-> "loop"] ELSE run
    /\ rejected' = FALSE

-----------------------------------------------------------------------------
(* The host *)

(* A new relay client of the host connected (RelayLink publishes it). *)
HostConnects(r) ==
    /\ mode = "host" /\ r \notin relayOpen
    /\ wanted # r /\ (run.phase = "attach" => run.relay # r)
    /\ Move
    /\ relayOpen' = relayOpen \cup {r}
    /\ UNCHANGED <<mode, joinPart, meshRole, brokerId, rejoined, wanted, bgen, queued, run,
                   bridgeOn, retryTimer, waiters, topoRev, nodeClosed, rejected>>

AttachBridge(r) ==
    /\ mode = "host" /\ r \in relayOpen /\ ~ nodeClosed
    /\ Move
    /\ IF wanted # r
       THEN /\ bgen' = bgen + 1
            /\ retryTimer' = FALSE
            /\ bridgeOn' = NoBridge
            /\ wanted' = r
       ELSE UNCHANGED <<bgen, retryTimer, bridgeOn, wanted>>
    /\ RequestBridge
    /\ UNCHANGED <<mode, joinPart, meshRole, brokerId, rejoined, relayOpen, waiters, topoRev,
                   nodeClosed>>

Detach ==
    /\ bgen' = bgen + 1
    /\ queued' = FALSE
    /\ wanted' = "none"
    /\ retryTimer' = FALSE
    /\ bridgeOn' = NoBridge
    /\ relayOpen' = AfterTeardown

DetachBridge ==
    /\ mode = "host" /\ wanted # "none"
    /\ Move
    /\ Detach
    /\ UNCHANGED <<mode, joinPart, meshRole, brokerId, rejoined, run, waiters, topoRev, nodeClosed,
                   rejected>>

CloseNode ==
    /\ ~ nodeClosed
    /\ Move
    /\ nodeClosed' = TRUE
    /\ Detach
    /\ UNCHANGED <<mode, joinPart, meshRole, brokerId, rejoined, run, waiters, topoRev, rejected>>

(* A verified topology reaches the node, and the remote of a live bridge. *)
SetTopology ==
    /\ Move
    /\ topoRev' = topoRev + 1
    /\ bridgeOn' = IF bridgeOn = NoBridge THEN NoBridge
                   ELSE [bridgeOn EXCEPT !.topo = topoRev + 1]
    /\ UNCHANGED <<mode, joinPart, meshRole, brokerId, rejoined, wanted, bgen, queued, run,
                   relayOpen, retryTimer, waiters, nodeClosed, rejected>>

-----------------------------------------------------------------------------
(* The local mesh *)

(* The session peer lost its broker and rejoined, in either meshRole. *)
LeaderMoves(r) ==
    /\ ~ nodeClosed /\ ~ rejoined /\ ~ selfFollow
    /\ Move
    /\ meshRole' = r
    /\ brokerId' = IF r = "leader" THEN brokerId + 1 ELSE brokerId
    /\ rejoined' = TRUE
    /\ UNCHANGED <<mode, joinPart, wanted, bgen, queued, run, bridgeOn, relayOpen, retryTimer,
                   waiters, topoRev, nodeClosed, rejected>>

(* _onReconnect: whatever was attached belongs to the old broker. *)
OnReconnect ==
    /\ rejoined
    /\ rejoined' = FALSE
    /\ IF nodeClosed \/ wanted = "none"
       THEN UNCHANGED <<bgen, retryTimer, bridgeOn, relayOpen, queued, run, rejected,
                        waiters>>
       ELSE /\ bgen' = bgen + 1
            /\ retryTimer' = FALSE
            /\ bridgeOn' = NoBridge
            /\ relayOpen' = AfterTeardown
            /\ RequestBridge
            /\ waiters' = waiters \cup {"failover"}
    /\ UNCHANGED <<mode, joinPart, meshRole, brokerId, wanted, topoRev, nodeClosed, moves, losses>>

-----------------------------------------------------------------------------
(* The attach *)

CanAttempt ==
    ~ nodeClosed /\ bridgeOn = NoBridge /\ meshRole = "leader" /\ wanted # "none"

(* The loop of _requestBridge: take the flag, begin an attempt or end. *)
RunLoop ==
    /\ run.phase = "loop"
    /\ queued' = FALSE
    /\ IF ~ queued THEN run' = NoRun /\ UNCHANGED relayOpen
       ELSE IF ~ CanAttempt THEN UNCHANGED <<run, relayOpen>>
       ELSE IF Own
       THEN \E r \in Relays \ relayOpen :
               /\ run' = [phase |-> "connect", gen |-> bgen, relay |-> r,
                          broker |-> brokerId, rev |-> topoRev]
               /\ UNCHANGED relayOpen
       ELSE /\ run' = IF wanted \in relayOpen
                      THEN [phase |-> "attach", gen |-> bgen, relay |-> wanted,
                            broker |-> brokerId, rev |-> topoRev]
                      ELSE run
            /\ UNCHANGED relayOpen
    /\ UNCHANGED <<mode, joinPart, meshRole, brokerId, rejoined, wanted, bgen, bridgeOn, retryTimer,
                   waiters, topoRev, nodeClosed, rejected, moves, losses>>

(* Mutated form of EndAttempt: an overtaken attempt is not repeated. *)
EndAttemptForgetful(g) ==
    /\ run' = [phase |-> "loop"]
    /\ queued' = FALSE

(* What the loop does with queued once an attempt of generation g is over. *)
EndAttempt(g) ==
    /\ run' = [phase |-> "loop"]
    /\ queued' = (queued \/ g # bgen)

(* The node's own relay connects, or does not. *)
ConnectSucceeds ==
    /\ run.phase = "connect" /\ ~ connectHung
    /\ relayOpen' = relayOpen \cup {run.relay}
    /\ run' = [run EXCEPT !.phase = "attach"]
    /\ UNCHANGED <<mode, joinPart, meshRole, brokerId, rejoined, wanted, bgen, queued, bridgeOn,
                   retryTimer, waiters, topoRev, nodeClosed, rejected, moves, losses>>

ConnectFails ==
    /\ run.phase = "connect" /\ ~ connectHung
    /\ EndAttempt(run.gen)
    /\ UNCHANGED <<mode, joinPart, meshRole, brokerId, rejoined, wanted, bgen, bridgeOn, relayOpen,
                   retryTimer, waiters, topoRev, nodeClosed, rejected, moves, losses>>

(* Nobody answers, and connect() has no limit: every later request waits.  *)
RelayNeverAnswers ==
    /\ run.phase = "connect" /\ ~ connectHung
    /\ Loss
    /\ connectHung' = TRUE
    /\ UNCHANGED <<mode, meshRole, brokerId, rejoined, wanted, bgen, queued, run, bridgeOn,
                   relayOpen, retryTimer, waiters, topoRev, nodeClosed, rejected, unjoined,
                   selfFollow>>

(* Mutated form of AttemptIsStale: the generation is not compared. *)
StaleUnlessLeader ==
    nodeClosed \/ meshRole # "leader" \/ brokerId # run.broker \/ run.relay \notin relayOpen

(* _attemptIsStale *)
AttemptIsStale ==
    \/ nodeClosed
    \/ run.gen # bgen
    \/ meshRole # "leader" \/ brokerId # run.broker
    \/ run.relay \notin relayOpen

DropCandidate ==
    relayOpen' = IF mode = "own" THEN relayOpen \ {run.relay} ELSE relayOpen

(***************************************************************************)
(* attachCrossPcBridge returned.  A stale attempt is detached and its own  *)
(* relay closed; otherwise the remote takes the topology that arrived      *)
(* meanwhile, or the node takes the one discovered, and it is published.   *)
(***************************************************************************)
AttachReturns ==
    /\ run.phase = "attach"
    /\ EndAttempt(run.gen)
    /\ IF AttemptIsStale
       THEN DropCandidate /\ UNCHANGED <<bridgeOn, topoRev, retryTimer>>
       ELSE LET rev == IF topoRev = 0 THEN 1 ELSE topoRev IN
            /\ topoRev' = rev
            /\ bridgeOn' = [relay |-> run.relay, gen |-> run.gen,
                            broker |-> run.broker, topo |-> rev]
            /\ retryTimer' = IF mode = "own" THEN FALSE ELSE retryTimer
            /\ UNCHANGED relayOpen
    /\ UNCHANGED <<mode, joinPart, meshRole, brokerId, rejoined, wanted, bgen, waiters, nodeClosed,
                   rejected, moves, losses>>

(* _scheduleRelayReconnect *)
Scheduled == retryTimer \/ (~ nodeClosed /\ Own)

(***************************************************************************)
(* The callers that wait for the run resume with its error.  A failover    *)
(* and a retry catch it and retry later; connect() has no catch of its own *)
(* and rejects.                                                            *)
(***************************************************************************)
CallersTold ==
    /\ waiters' = {}
    /\ unjoined' = (unjoined \/ "first" \in waiters)
    /\ retryTimer' =
          IF "retry" \in waiters \/ ("failover" \in waiters /\ meshRole = "leader")
          THEN Scheduled ELSE retryTimer

(* It threw, or the read of the key before it: retried at once if it was   *)
(* overtaken, else the callers are told.                                   *)
AttachThrows ==
    /\ run.phase \in {"connect", "attach"} /\ ~ connectHung
    /\ Loss
    /\ DropCandidate
    /\ IF run.gen # bgen
       THEN EndAttempt(run.gen) /\ UNCHANGED <<rejected, retryTimer, waiters, unjoined>>
       ELSE run' = NoRun /\ rejected' = TRUE /\ UNCHANGED queued /\ CallersTold
    /\ UNCHANGED <<mode, meshRole, brokerId, rejoined, wanted, bgen, bridgeOn, topoRev,
                   nodeClosed, selfFollow, connectHung>>

(***************************************************************************)
(* tryJoinMesh calls connect() again on the node whose connect() rejected. *)
(* The node has joined already: a leader finds its own broker and follows  *)
(* it, a follower joins or leads as things are by now.                     *)
(***************************************************************************)
ConnectAgain ==
    /\ unjoined /\ ~ nodeClosed /\ Own
    /\ unjoined' = FALSE
    /\ IF meshRole = "leader"
       THEN meshRole' = "follower" /\ selfFollow' = TRUE /\ UNCHANGED brokerId
       ELSE \E r \in IF selfFollow THEN {"follower"} ELSE {"leader", "follower"} :
               /\ meshRole' = r
               /\ brokerId' = IF r = "leader" THEN brokerId + 1 ELSE brokerId
               /\ UNCHANGED selfFollow
    /\ RequestBridge /\ waiters' = waiters \cup {"first"}
    /\ UNCHANGED <<mode, rejoined, wanted, bgen, bridgeOn, relayOpen, retryTimer, topoRev,
                   nodeClosed, connectHung, moves, losses>>

-----------------------------------------------------------------------------
(* Retries of a node's own relay *)

(* A relay closes.  _onSelfRelayClosed acts for the published, own relay. *)
RelayCloses(r) ==
    /\ r \in relayOpen
    /\ Loss
    /\ relayOpen' = relayOpen \ {r}
    /\ IF mode = "own" /\ bridgeOn.relay = r
       THEN /\ bgen' = bgen + 1
            /\ bridgeOn' = NoBridge
            /\ retryTimer' = Scheduled
       ELSE UNCHANGED <<bgen, bridgeOn, retryTimer>>
    /\ UNCHANGED <<mode, joinPart, meshRole, brokerId, rejoined, wanted, queued, run, waiters,
                   topoRev, nodeClosed, rejected>>

(* _attemptRelayReconnect up to its await. *)
RetryTimer ==
    /\ retryTimer
    /\ retryTimer' = FALSE
    /\ IF nodeClosed \/ ~ Own \/ meshRole # "leader" \/ bridgeOn # NoBridge
       THEN UNCHANGED <<queued, run, rejected, waiters>>
       ELSE RequestBridge /\ waiters' = waiters \cup {"retry"}
    /\ UNCHANGED <<mode, joinPart, meshRole, brokerId, rejoined, wanted, bgen, bridgeOn, relayOpen,
                   topoRev, nodeClosed, moves, losses>>

(* The run a caller waited for is over. *)
WaiterResumes(w) ==
    /\ w \in waiters
    /\ run = NoRun
    /\ waiters' = waiters \ {w}
    /\ retryTimer' = IF bridgeOn = NoBridge /\ (w = "retry" \/ meshRole = "leader")
                     THEN Scheduled ELSE retryTimer
    /\ UNCHANGED <<mode, joinPart, meshRole, brokerId, rejoined, wanted, bgen, queued, run, bridgeOn,
                   relayOpen, topoRev, nodeClosed, rejected, moves, losses>>

-----------------------------------------------------------------------------
BridgeNext ==
    \/ \E r \in Relays : HostConnects(r) \/ AttachBridge(r) \/ RelayCloses(r)
    \/ DetachBridge \/ CloseNode \/ SetTopology
    \/ \E r \in {"leader", "follower"} : LeaderMoves(r)
    \/ OnReconnect
    \/ RunLoop \/ ConnectSucceeds \/ ConnectFails \/ RelayNeverAnswers \/ AttachReturns \/ AttachThrows
    \/ ConnectAgain \/ RetryTimer
    \/ \E w \in waiters : WaiterResumes(w)

BridgeSpec == BridgeInit /\ [][BridgeNext]_bridgeVars

(* Promises and timers of the process run; a relay retried for ever accepts. *)
BridgeFairness ==
    /\ WF_bridgeVars(RunLoop) /\ WF_bridgeVars(AttachReturns)
    /\ WF_bridgeVars(ConnectSucceeds \/ ConnectFails) /\ SF_bridgeVars(ConnectSucceeds)
    /\ WF_bridgeVars(OnReconnect) /\ WF_bridgeVars(RetryTimer)
    /\ WF_bridgeVars(\E w \in waiters : WaiterResumes(w))

-----------------------------------------------------------------------------
(* Properties *)

(***************************************************************************)
(* A published bridge is the one asked for: of the current generation,     *)
(* over the relay of the current parameters, on an open node.  An attach   *)
(* overtaken by a detach, a failover or another relay is never published.  *)
(***************************************************************************)
BridgeIsWanted ==
    bridgeOn # NoBridge =>
        /\ ~ nodeClosed
        /\ bridgeOn.gen = bgen
        /\ wanted = "own" \/ wanted = bridgeOn.relay

(***************************************************************************)
(* A live bridge routes by the newest verified topology, also when that    *)
(* topology arrived while the bridge was being attached: a PC that an      *)
(* owner removed must not stay routable.                                   *)
(***************************************************************************)
BridgeTopologyNewest == bridgeOn # NoBridge => bridgeOn.topo = topoRev

(***************************************************************************)
(* The node leaks no relay connection of its own: one that is open is the  *)
(* bridge's or the candidate of the attach in flight.                      *)
(***************************************************************************)
OwnRelayAccounted ==
    mode = "own" =>
        \A r \in relayOpen :
            \/ bridgeOn # NoBridge /\ bridgeOn.relay = r
            \/ run.phase = "attach" /\ run.relay = r

BridgeInv == BridgeTypeOK /\ BridgeIsWanted /\ BridgeTopologyNewest /\ OwnRelayAccounted

(***************************************************************************)
(* A leader whose bridge is wanted gets it: after failovers, closed        *)
(* relays, failed connects and attaches.  Excepted are an attach that      *)
(* threw for a host, whose it is to repeat; one that threw inside          *)
(* connect(), which nothing repeats but the caller of connect(); and a     *)
(* relay that never answers the node's own connect                         *)
(* (_requestBridge, _onReconnect, _attemptRelayReconnect).                 *)
(***************************************************************************)
BridgeComesUp == BridgeFairness =>
    (meshRole = "leader" /\ wanted # "none") ~>
        \/ bridgeOn # NoBridge
        \/ meshRole # "leader" \/ wanted = "none"
        \/ wanted \in Relays /\ (wanted \notin relayOpen \/ rejected)
        \/ unjoined /\ rejected /\ ~ retryTimer
        \/ connectHung

(***************************************************************************)
(* What mesh_server.ts says of its bridge: it is dormant only while        *)
(* another node leads, over whose bridge messages to other machines go.    *)
(* False after a first attach that threw: the second connect() makes the   *)
(* leader a follower of its own broker.                                    *)
(***************************************************************************)
DormantMeansLed == selfFollow /\ ~ nodeClosed => bridgeOn # NoBridge
=============================================================================
