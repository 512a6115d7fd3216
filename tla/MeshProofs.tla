----------------------------- MODULE MeshProofs -----------------------------
(***************************************************************************)
(* Proofs about the three parts that keep machines in touch: the roster    *)
(* frames (RemoteRoster), the cross-PC bridge (MeshBridge) and the relay   *)
(* connection under it (RelayLink), for any number of machines, peers,     *)
(* relays, clients and owners.                                             *)
(*                                                                         *)
(* Roster: a bridge that is undone on activation must have owed nothing    *)
(* and have had nobody waiting, which holds because both are only incurred *)
(* by an active bridge and cleared when it goes (OnlyActiveOwes).          *)
(* Bridge: an attempt of the current generation is about the relay wanted  *)
(* now (AttemptCurrent) and there is no bridge while it runs               *)
(* (AttemptAlone), so what it publishes is right.                          *)
(* Relay: of all retries at most one is of the current generation, and     *)
(* only while nothing is published (RetriesOfOneGeneration); a first sweep *)
(* of the current epoch has its producer (ChecksOfOneEpoch).               *)
(***************************************************************************)
EXTENDS RemoteRoster, MeshBridge, RelayLink, SequenceTheorems, TLAPS

Frame == [type : {"peers_request", "peers_update"}, peers : SUBSET Peers]
NetTyped == net \in [Pairs -> Seq(Frame)]

\* A bridge that is not active owes no refresh and nobody waits for it.
OnlyActiveOwes == \A p \in Sites : life[p] # "active" => owed[p] = {} /\ fills[p] = {}

SiblingInv == RosterTypeOK /\ NetTyped /\ OnlySiblingsKnown /\ OnlyActiveOwes

-----------------------------------------------------------------------------
(* Frames *)

LEMMA FramesTyped ==
    ASSUME NEW S \in SUBSET Peers
    PROVE  Request \in Frame /\ Update(S) \in Frame
  BY DEF Request, Update, Frame

\* A queue stays a queue of frames, and within its bound.
LEMMA QueuedTyped ==
    ASSUME NEW q \in Seq(Frame), Len(q) <= MaxQueue, NEW fs \in Seq(Frame)
    PROVE  Queued(q, fs) \in Seq(Frame) /\ Len(Queued(q, fs)) <= MaxQueue
<1>1. q \o fs \in Seq(Frame) /\ Len(q \o fs) = Len(q) + Len(fs)
  BY ConcatProperties
<1> QED
  BY <1>1, RosterAssumption DEF Queued

LEMMA SendAllTyped ==
    ASSUME NetTyped, \A pq \in Pairs : Len(net[pq]) <= MaxQueue,
           NEW p, NEW T, NEW fs \in Seq(Frame), SendAll(p, T, fs)
    PROVE  NetTyped' /\ \A pq \in Pairs : Len(net'[pq]) <= MaxQueue
<1>1. \A pq \in Pairs : net[pq] \in Seq(Frame)
  BY DEF NetTyped
<1>2. \A pq \in Pairs : net'[pq] \in Seq(Frame) /\ Len(net'[pq]) <= MaxQueue
  BY <1>1, QueuedTyped DEF SendAll
<1>3. net' = [pq \in Pairs |-> net'[pq]]
  BY DEF SendAll
<1> QED
  BY <1>2, <1>3 DEF NetTyped

LEMMA BootstrapTyped ==
    ASSUME SiblingInv, NEW p \in Sites, Bootstrap(p)
    PROVE  NetTyped' /\ \A pq \in Pairs : Len(net'[pq]) <= MaxQueue
<1>1. <<Request, Update(roster[p])>> \in Seq(Frame)
  BY FramesTyped DEF SiblingInv, RosterTypeOK
<1> QED
  BY <1>1, SendAllTyped DEF Bootstrap, SiblingInv, RosterTypeOK

\* Reading a frame off a queue.
LEMMA TakenTyped ==
    ASSUME NetTyped, \A pq \in Pairs : Len(net[pq]) <= MaxQueue,
           NEW p \in Sites, NEW q \in Sites, net[<<q, p>>] # <<>>
    PROVE  LET rest == [net EXCEPT ![<<q, p>>] = Tail(@)]
           IN  /\ Head(net[<<q, p>>]) \in Frame
               /\ rest \in [Pairs -> Seq(Frame)]
               /\ \A pq \in Pairs : Len(rest[pq]) <= MaxQueue
<1>1. <<q, p>> \in Pairs /\ net[<<q, p>>] \in Seq(Frame)
  BY DEF Pairs, NetTyped
<1>2. /\ Head(net[<<q, p>>]) \in Frame
      /\ Tail(net[<<q, p>>]) \in Seq(Frame)
      /\ Len(Tail(net[<<q, p>>])) = Len(net[<<q, p>>]) - 1
      /\ Len(net[<<q, p>>]) \in Nat
  BY <1>1, HeadTailProperties
<1> DEFINE rest == [net EXCEPT ![<<q, p>>] = Tail(@)]
<1>3. rest \in [Pairs -> Seq(Frame)]
  BY <1>1, <1>2 DEF NetTyped
<1>4. \A pq \in Pairs : Len(rest[pq]) <= MaxQueue
  <2>1. Len(net[<<q, p>>]) - 1 <= MaxQueue
    BY <1>1, <1>2, RosterAssumption
  <2> TAKE pq \in Pairs
  <2>2. CASE pq = <<q, p>>
    BY <2>1, <2>2, <1>1, <1>2 DEF NetTyped
  <2>3. CASE pq # <<q, p>>
    BY <2>3 DEF NetTyped
  <2> QED
    BY <2>2, <2>3
<1> QED
  BY <1>2, <1>3, <1>4

-----------------------------------------------------------------------------
(* The steps of a bridge *)

LEMMA LifeStep ==
    ASSUME SiblingInv, NEW p \in Sites,
           Construct(p) \/ Activate(p) \/ DetachRemote(p) \/ Rebuild(p)
    PROVE  SiblingInv'
<1> USE DEF SiblingInv, RosterTypeOK, OnlySiblingsKnown, OnlyActiveOwes, Siblings,
            Built, Empty
<1>1. CASE Construct(p)
  BY <1>1 DEF Construct, NetTyped
<1>2. CASE Activate(p)
  <2>1. CASE Bounded(roster[p])
    <3>1. NetTyped' /\ \A pq \in Pairs : Len(net'[pq]) <= MaxQueue
      BY <1>2, <2>1, BootstrapTyped DEF Activate
    <3> QED
      BY <1>2, <2>1, <3>1 DEF Activate
  <2>2. CASE ~ Bounded(roster[p])
    BY <1>2, <2>2 DEF Activate, NetTyped
  <2> QED
    BY <2>1, <2>2
<1>3. CASE DetachRemote(p)
  BY <1>3, RosterAssumption DEF DetachRemote, Change, NetTyped
<1>4. CASE Rebuild(p)
  BY <1>4 DEF Rebuild, NetTyped
<1> QED
  BY <1>1, <1>2, <1>3, <1>4

LEMMA ReannounceStep ==
    ASSUME SiblingInv, NEW p \in Sites, Reannounce(p)
    PROVE  SiblingInv'
<1>1. NetTyped' /\ \A pq \in Pairs : Len(net'[pq]) <= MaxQueue
  BY BootstrapTyped DEF Reannounce
<1> QED
  BY <1>1 DEF Reannounce, SiblingInv, RosterTypeOK, OnlySiblingsKnown, OnlyActiveOwes, Built

LEMMA RosterStep ==
    ASSUME SiblingInv, NEW p \in Sites,
           OnLocalPeersChanged(p) \/ \E S \in SUBSET Peers : LocalPeersChange(p, S)
    PROVE  SiblingInv'
<1>1. NetTyped' /\ \A pq \in Pairs : Len(net'[pq]) <= MaxQueue
  <2>1. <<Update(roster[p])>> \in Seq(Frame)
    BY FramesTyped DEF SiblingInv, RosterTypeOK
  <2>2. CASE SendAll(p, Siblings(p), <<Update(roster[p])>>)
    BY <2>1, <2>2, SendAllTyped DEF SiblingInv, RosterTypeOK
  <2>3. CASE UNCHANGED net
    BY <2>3 DEF SiblingInv, RosterTypeOK, NetTyped
  <2> QED
    BY <2>2, <2>3 DEF OnLocalPeersChanged, LocalPeersChange
<1>2. /\ UNCHANGED <<life, alias, cache, owed, fills>>
      /\ roster' \in [Sites -> SUBSET Peers] /\ told' \in [Sites -> BOOLEAN]
      /\ changes' \in 0 .. MaxChanges
  <2> USE DEF SiblingInv, RosterTypeOK
  <2>1. CASE OnLocalPeersChanged(p)
    BY <2>1 DEF OnLocalPeersChanged
  <2>2. CASE \E S \in SUBSET Peers : LocalPeersChange(p, S)
    BY <2>2, RosterAssumption DEF LocalPeersChange, Change
  <2> QED
    BY <2>1, <2>2
<1> QED
  BY <1>1, <1>2 DEF SiblingInv, RosterTypeOK, OnlySiblingsKnown, OnlyActiveOwes, Built

\* What is forgotten and what is owed after a change of topology concerns
\* siblings of the new one only.
LEMMA RoutingStep ==
    ASSUME SiblingInv, NEW p \in Sites, NEW f \in RoutingStates(p), SetRouting(p, f)
    PROVE  SiblingInv'
<1> DEFINE kept == {q \in owed[p] : f[q] # NoSibling}
           refresh == kept \cup {q \in Sites : f[q] # NoSibling /\ f[q] # alias[p][q]}
<1>1. f \in [Sites -> Labels \cup {NoSibling}]
  BY DEF RoutingStates
<1>2. NetTyped' /\ \A pq \in Pairs : Len(net'[pq]) <= MaxQueue
  <2>1. <<Request, Update(roster[p])>> \in Seq(Frame)
    BY FramesTyped DEF SiblingInv, RosterTypeOK
  <2>2. CASE SendAll(p, refresh, <<Request, Update(roster[p])>>)
    BY <2>1, <2>2, SendAllTyped DEF SiblingInv, RosterTypeOK
  <2>3. CASE UNCHANGED net
    BY <2>3 DEF SiblingInv, RosterTypeOK, NetTyped
  <2> QED
    BY <2>2, <2>3 DEF SetRouting
<1>3. \E T \in SUBSET {q \in Sites : f[q] # NoSibling} :
         /\ owed' = [owed EXCEPT ![p] = T]
         /\ life[p] # "active" => T = {}
  <2>1. kept \subseteq {q \in Sites : f[q] # NoSibling}
        /\ refresh \subseteq {q \in Sites : f[q] # NoSibling}
    BY DEF SiblingInv, RosterTypeOK
  <2>2. life[p] # "active" => kept = {}
    BY DEF SiblingInv, OnlyActiveOwes
  <2>3. \/ owed' = [owed EXCEPT ![p] = kept \ refresh]
        \/ owed' = [owed EXCEPT ![p] = IF life[p] = "active" THEN refresh ELSE kept]
    BY DEF SetRouting
  <2> QED
    BY <2>1, <2>2, <2>3
<1>4. /\ UNCHANGED <<roster, told, life>> /\ Built(p)
      /\ alias' = [alias EXCEPT ![p] = f]
      /\ cache' = [cache EXCEPT ![p] =
            [q \in Sites |-> IF f[q] = NoSibling THEN Empty ELSE @[q]]]
      /\ fills' = [fills EXCEPT ![p] = {q \in @ : f[q] # NoSibling}]
      /\ changes' \in 0 .. MaxChanges
  BY RosterAssumption DEF SetRouting, Change, SiblingInv, RosterTypeOK
<1> HIDE DEF kept, refresh
<1>5. RosterTypeOK'
  <2>1. Empty \in [known : BOOLEAN, peers : SUBSET Peers]
    BY DEF Empty
  <2> QED
    BY <1>1, <1>2, <1>3, <1>4, <2>1 DEF SiblingInv, RosterTypeOK
<1>6. OnlySiblingsKnown'
  BY <1>1, <1>3, <1>4
     DEF SiblingInv, RosterTypeOK, OnlySiblingsKnown, Built, Empty
<1>7. OnlyActiveOwes'
  BY <1>3, <1>4 DEF SiblingInv, RosterTypeOK, OnlyActiveOwes
<1> QED
  BY <1>2, <1>5, <1>6, <1>7 DEF SiblingInv

-----------------------------------------------------------------------------
(* The steps of a frame and of a cache entry *)

LEMMA ControlStep ==
    ASSUME SiblingInv, NEW p \in Sites, NEW q \in Sites, HandleControl(q, p)
    PROVE  SiblingInv'
<1> DEFINE rest == [net EXCEPT ![<<q, p>>] = Tail(@)]
           f == Head(net[<<q, p>>])
<1>1. /\ f \in Frame /\ rest \in [Pairs -> Seq(Frame)]
      /\ \A pq \in Pairs : Len(rest[pq]) <= MaxQueue
  BY TakenTyped DEF HandleControl, SiblingInv, RosterTypeOK
<1>2. UNCHANGED <<roster, told, life, alias, owed, changes>>
  BY DEF HandleControl
<1>3. CASE /\ Heard(p, q) /\ f.type = "peers_update"
           /\ cache' = [cache EXCEPT ![p][q] = Cached(f.peers)]
           /\ fills' = [fills EXCEPT ![p] = @ \ {q}]
           /\ net' = rest
  <2>1. Cached(f.peers) \in [known : BOOLEAN, peers : SUBSET Peers]
    BY <1>1 DEF Cached, Frame
  <2>2. RosterTypeOK' /\ NetTyped'
    BY <1>1, <1>2, <1>3, <2>1 DEF SiblingInv, RosterTypeOK, NetTyped
  <2>3. OnlySiblingsKnown' /\ OnlyActiveOwes'
    <3> HIDE DEF rest, f
    <3> DEFINE filled == Cached(f.peers)
    <3>1. /\ cache' = [cache EXCEPT ![p][q] = filled]
          /\ fills' = [fills EXCEPT ![p] = @ \ {q}]
          /\ life[p] = "active" /\ alias[p][q] # NoSibling
      BY <1>3 DEF Heard, Siblings
    <3> HIDE DEF filled
    <3> QED
      BY <1>2, <3>1
         DEF SiblingInv, RosterTypeOK, OnlySiblingsKnown, OnlyActiveOwes, Built
  <2> QED
    BY <2>2, <2>3 DEF SiblingInv
<1>4. CASE net' = [rest EXCEPT ![<<p, q>>] = Queued(@, <<Update(roster[p])>>)]
           /\ UNCHANGED <<cache, fills>>
  <2>1. <<Update(roster[p])>> \in Seq(Frame)
    BY FramesTyped DEF SiblingInv, RosterTypeOK
  <2>2. <<p, q>> \in Pairs
    BY DEF Pairs
  <2>3. /\ Queued(rest[<<p, q>>], <<Update(roster[p])>>) \in Seq(Frame)
        /\ Len(Queued(rest[<<p, q>>], <<Update(roster[p])>>)) <= MaxQueue
    BY <1>1, <2>1, <2>2, QueuedTyped
  <2> HIDE DEF rest
  <2>4. NetTyped' /\ \A pq \in Pairs : Len(net'[pq]) <= MaxQueue
    BY <1>1, <1>4, <2>2, <2>3 DEF NetTyped
  <2> QED
    BY <1>2, <1>4, <2>4
       DEF SiblingInv, RosterTypeOK, OnlySiblingsKnown, OnlyActiveOwes, Built
<1>5. CASE net' = rest /\ UNCHANGED <<cache, fills>>
  BY <1>1, <1>2, <1>5
     DEF SiblingInv, RosterTypeOK, NetTyped, OnlySiblingsKnown, OnlyActiveOwes, Built
<1> QED
  BY <1>3, <1>4, <1>5 DEF HandleControl

LEMMA CacheStep ==
    ASSUME SiblingInv, NEW p \in Sites, NEW q \in Sites,
           LoseControl(q, p) \/ ExpireCache(p, q) \/ FillOnRoute(p, q) \/ FillTimeout(p, q)
    PROVE  SiblingInv'
<1> USE RosterAssumption
    DEF SiblingInv, RosterTypeOK, OnlySiblingsKnown, OnlyActiveOwes, Built
<1>1. CASE LoseControl(q, p)
  BY <1>1, TakenTyped DEF LoseControl, Change, NetTyped
<1>2. CASE ExpireCache(p, q)
  BY <1>2 DEF ExpireCache, Change, NetTyped, Empty
<1>3. CASE FillOnRoute(p, q)
  <2>1. NetTyped' /\ \A pq \in Pairs : Len(net'[pq]) <= MaxQueue
    <3>1. <<Request>> \in Seq(Frame)
      BY DEF Request, Frame
    <3> QED
      BY <1>3, <3>1, SendAllTyped DEF FillOnRoute
  <2> QED
    BY <1>3, <2>1 DEF FillOnRoute, Change, Siblings
<1>4. CASE FillTimeout(p, q)
  BY <1>4 DEF FillTimeout, NetTyped
<1> QED
  BY <1>1, <1>2, <1>3, <1>4

-----------------------------------------------------------------------------

LEMMA SiblingInit ==
    ASSUME RosterInit
    PROVE  SiblingInv
<1>1. alias \in [Sites -> [Sites -> Labels \cup {NoSibling}]]
  BY DEF RosterInit
<1>2. /\ cache \in [Sites -> [Sites -> [known : BOOLEAN, peers : SUBSET Peers]]]
      /\ \A p, q \in Sites : ~ cache[p][q].known
  BY DEF RosterInit, Empty
<1>3. NetTyped /\ \A pq \in Pairs : Len(net[pq]) <= MaxQueue
  BY RosterAssumption DEF RosterInit, NetTyped
<1> QED
  BY <1>1, <1>2, <1>3, RosterAssumption
     DEF RosterInit, SiblingInv, RosterTypeOK, OnlySiblingsKnown, OnlyActiveOwes

LEMMA SiblingNext ==
    ASSUME SiblingInv, [RosterNext]_rosterVars
    PROVE  SiblingInv'
<1>1. CASE RosterNext
  <2>1. PICK p \in Sites :
           \/ Construct(p) \/ Activate(p) \/ DetachRemote(p) \/ Rebuild(p)
           \/ Reannounce(p) \/ OnLocalPeersChanged(p)
           \/ \E f \in RoutingStates(p) : SetRouting(p, f)
           \/ \E S \in SUBSET Peers : LocalPeersChange(p, S)
           \/ \E q \in Sites : HandleControl(q, p) \/ LoseControl(q, p)
                 \/ ExpireCache(p, q) \/ FillOnRoute(p, q) \/ FillTimeout(p, q)
    BY <1>1 DEF RosterNext
  <2> QED
    BY <2>1, LifeStep, ReannounceStep, RosterStep, RoutingStep, ControlStep, CacheStep
<1>2. CASE UNCHANGED rosterVars
  BY <1>2 DEF rosterVars, SiblingInv, RosterTypeOK, NetTyped, OnlySiblingsKnown,
              OnlyActiveOwes, Built
<1> QED
  BY <1>1, <1>2

\* For any number of machines: whatever is lost, delayed, expires or is
\* rebuilt, nothing is known, awaited or owed of a machine that an owner has
\* taken out of the topology (broker_remote.ts, setTopology and handleIncoming).
THEOREM SiblingsOnly == RosterSpec => []OnlySiblingsKnown
<1>1. RosterInit => SiblingInv
  BY SiblingInit
<1>2. SiblingInv /\ [RosterNext]_rosterVars => SiblingInv'
  BY SiblingNext
<1>3. SiblingInv => OnlySiblingsKnown
  BY DEF SiblingInv
<1> QED
  BY <1>1, <1>2, <1>3, PTL DEF RosterSpec

-----------------------------------------------------------------------------
(* The bridge *)

Attempting == run.phase \in {"connect", "attach"}

\* An attempt is of a generation there has been, never of one to come; if of
\* the current one, its relay is the one wanted now.
AttemptCurrent ==
    Attempting =>
        /\ run.gen <= bgen
        /\ run.gen = bgen => wanted = "own" \/ wanted = run.relay

\* Only a node without a bridge attaches one; and its mode does not change.
AttemptAlone == Attempting => bridgeOn = NoBridge
OwnMode == mode = "own" => wanted \in {"own", "none"}

Bridges == [relay : Relays, gen : Nat, broker : Nat, topo : Nat]

LEMMA AttemptForms ==
    /\ NoRun \in Attempts /\ NoRun.phase = "none"
    /\ [phase |-> "loop"] \in Attempts
    /\ \A g, b, v \in Nat, r \in Relays :
          [phase |-> "connect", gen |-> g, relay |-> r, broker |-> b, rev |-> v] \in Attempts
    /\ \A g, b, v \in Nat, r \in Relays :
          [phase |-> "attach", gen |-> g, relay |-> r, broker |-> b, rev |-> v] \in Attempts
    /\ \A x \in Attempts : x.phase \in {"connect", "attach"} =>
          /\ x.gen \in Nat /\ x.relay \in Relays /\ x.broker \in Nat
          /\ [x EXCEPT !.phase = "attach"] \in Attempts
          /\ [x EXCEPT !.phase = "attach"].phase = "attach"
          /\ [x EXCEPT !.phase = "attach"].gen = x.gen
          /\ [x EXCEPT !.phase = "attach"].relay = x.relay
  BY DEF Attempts, NoRun

LEMMA BridgeForms ==
    /\ \A x \in Bridges : x # NoBridge /\ x.gen \in Nat /\ x.relay \in Relays
    /\ \A x \in Bridges, t \in Nat : /\ [x EXCEPT !.topo = t] \in Bridges
                                     /\ [x EXCEPT !.topo = t].topo = t
                                     /\ [x EXCEPT !.topo = t].gen = x.gen
                                     /\ [x EXCEPT !.topo = t].relay = x.relay
    /\ \A r \in Relays, g, b, t \in Nat : [relay |-> r, gen |-> g, broker |-> b, topo |-> t] \in Bridges
  BY BridgeAssumption DEF Bridges, NoBridge

\* The types, flags apart.
FlagsTyped ==
    /\ rejoined \in BOOLEAN /\ queued \in BOOLEAN /\ retryTimer \in BOOLEAN
    /\ nodeClosed \in BOOLEAN /\ rejected \in BOOLEAN
    /\ unjoined \in BOOLEAN /\ selfFollow \in BOOLEAN /\ connectHung \in BOOLEAN

DataTyped ==
    /\ mode \in {"host", "own"} /\ meshRole \in {"leader", "follower"}
    /\ brokerId \in Nat /\ bgen \in Nat /\ topoRev \in Nat
    /\ wanted \in Relays \cup {"own", "none"}
    /\ run \in Attempts /\ bridgeOn \in {NoBridge} \cup Bridges
    /\ relayOpen \subseteq Relays
    /\ waiters \subseteq {"first", "failover", "retry"}
    /\ moves \in 0 .. MaxMoves /\ losses \in 0 .. MaxLosses

LEMMA BridgeTypesSplit == BridgeTypeOK <=> DataTyped /\ FlagsTyped
  BY DEF BridgeTypeOK, DataTyped, FlagsTyped, Bridges

LEMMA RunsTyped ==
    ASSUME run \in Attempts
    PROVE  /\ RequestBridge => /\ run' \in Attempts /\ (Attempting' <=> Attempting)
                               /\ Attempting => run' = run
           /\ run' = [phase |-> "loop"] => run' \in Attempts /\ ~ Attempting'
           /\ run' = NoRun => run' \in Attempts /\ ~ Attempting'
           /\ run = NoRun \/ run.phase = "loop" => ~ Attempting
           /\ Attempting => run.gen \in Nat /\ run.relay \in Relays /\ run.broker \in Nat
<1>1. RequestBridge => /\ run' \in Attempts /\ (Attempting' <=> Attempting)
                       /\ Attempting => run' = run
  BY AttemptForms DEF RequestBridge, Attempting
<1>2. run' = [phase |-> "loop"] => run' \in Attempts /\ ~ Attempting'
  BY AttemptForms DEF Attempting
<1>3. run' = NoRun => run' \in Attempts /\ ~ Attempting'
  BY AttemptForms DEF Attempting
<1>4. run = NoRun \/ run.phase = "loop" => ~ Attempting
  BY AttemptForms DEF Attempting
<1>5. Attempting => run.gen \in Nat /\ run.relay \in Relays /\ run.broker \in Nat
  BY AttemptForms DEF Attempting
<1> QED
  BY <1>1, <1>2, <1>3, <1>4, <1>5

LEMMA BridgeFlagsStep ==
    ASSUME FlagsTyped, BridgeNext
    PROVE  FlagsTyped'
<1> USE DEF FlagsTyped
<1>1. ASSUME NEW r \in Relays, HostConnects(r) \/ AttachBridge(r) \/ RelayCloses(r)
      PROVE  FlagsTyped'
  BY <1>1, Zenon DEF HostConnects, AttachBridge, RelayCloses, RequestBridge, Scheduled,
       joinPart
<1>2. CASE DetachBridge \/ CloseNode \/ SetTopology
  BY <1>2, Zenon DEF DetachBridge, CloseNode, Detach, SetTopology, joinPart
<1>3. CASE (\E r \in {"leader", "follower"} : LeaderMoves(r)) \/ OnReconnect
  BY <1>3, Zenon DEF LeaderMoves, OnReconnect, RequestBridge, joinPart
<1>4. CASE RunLoop \/ ConnectSucceeds \/ ConnectFails \/ RelayNeverAnswers
  BY <1>4, Zenon DEF RunLoop, ConnectSucceeds, ConnectFails, RelayNeverAnswers, EndAttempt, joinPart
<1>5. CASE AttachReturns \/ AttachThrows
  <2>1. CASE AttachReturns
    BY <2>1, Zenon DEF AttachReturns, EndAttempt, joinPart
  <2>2. CASE AttachThrows
    BY <2>2, Zenon DEF AttachThrows, EndAttempt, CallersTold, Scheduled
  <2> QED
    BY <1>5, <2>1, <2>2
<1>6. CASE RetryTimer \/ \E w \in waiters : WaiterResumes(w)
  BY <1>6, Zenon DEF RetryTimer, WaiterResumes, RequestBridge, Scheduled, joinPart
<1>7. CASE ConnectAgain
  BY <1>7, Zenon DEF ConnectAgain, RequestBridge
<1> QED
  BY <1>1, <1>2, <1>3, <1>4, <1>5, <1>6, <1>7 DEF BridgeNext

\* What an invariant of the bridge is made of, besides its flags.
BridgeCore ==
    /\ DataTyped
    /\ BridgeIsWanted /\ BridgeTopologyNewest /\ OwnRelayAccounted
    /\ AttemptCurrent /\ AttemptAlone /\ OwnMode

\* What a published bridge is; none is published while the node attaches.
LEMMA NoBridgeCore ==
    ASSUME bridgeOn = NoBridge
    PROVE  BridgeIsWanted /\ BridgeTopologyNewest /\ AttemptAlone
  BY DEF BridgeIsWanted, BridgeTopologyNewest, AttemptAlone

LEMMA CutStep ==
    ASSUME BridgeCore, bgen' = bgen + 1, bridgeOn' = NoBridge,
           mode' = mode, topoRev' = topoRev,
           relayOpen' = AfterTeardown, Attempting' <=> Attempting, Attempting => run' = run
    PROVE  /\ BridgeIsWanted' /\ BridgeTopologyNewest' /\ AttemptAlone' /\ AttemptCurrent'
           /\ OwnRelayAccounted' /\ relayOpen' \subseteq Relays
<1>1. BridgeIsWanted' /\ BridgeTopologyNewest' /\ AttemptAlone'
  BY DEF BridgeIsWanted, BridgeTopologyNewest, AttemptAlone
<1>2. AttemptCurrent'
  <2>1. Attempting => run.gen \in Nat /\ run.gen <= bgen /\ bgen \in Nat
    BY RunsTyped DEF BridgeCore, DataTyped, AttemptCurrent
  <2> QED
    BY <2>1 DEF AttemptCurrent
<1>3. OwnRelayAccounted'
  BY DEF OwnRelayAccounted, AfterTeardown, Attempting, BridgeCore, AttemptAlone
<1>4. relayOpen' \subseteq Relays
  BY DEF AfterTeardown, BridgeCore, DataTyped
<1> QED
  BY <1>1, <1>2, <1>3, <1>4


\* A step that leaves the bridge and its parameters alone, and at most ends an attempt.
LEMMA CalmStep ==
    ASSUME BridgeCore, UNCHANGED <<mode, bgen, wanted, bridgeOn, topoRev, nodeClosed>>,
           Attempting' => Attempting /\ run' = run,
           \/ relayOpen' = relayOpen /\ (Attempting' <=> Attempting)
           \/ mode = "host"
           \/ relayOpen' \subseteq relayOpen /\ ~ (run.phase = "attach" /\ run.relay \in relayOpen')
    PROVE  /\ BridgeIsWanted' /\ BridgeTopologyNewest' /\ AttemptAlone' /\ AttemptCurrent'
           /\ OwnRelayAccounted' /\ OwnMode'
<1>1. BridgeIsWanted' /\ BridgeTopologyNewest' /\ AttemptAlone' /\ AttemptCurrent' /\ OwnMode'
  BY DEF BridgeIsWanted, BridgeTopologyNewest, AttemptAlone, AttemptCurrent, OwnMode, BridgeCore
<1>2. OwnRelayAccounted'
  BY DEF OwnRelayAccounted, Attempting, BridgeCore
<1> QED
  BY <1>1, <1>2

LEMMA HostStep ==
    ASSUME BridgeCore, NEW r \in Relays,
           HostConnects(r) \/ AttachBridge(r)
    PROVE  BridgeCore'
<1> USE BridgeAssumption
<1>1. CASE HostConnects(r)
  <2>1. DataTyped'
    BY <1>1 DEF HostConnects, Move, BridgeCore, DataTyped
  <2> QED
    BY <1>1, <2>1, CalmStep DEF HostConnects, BridgeCore, Attempting
<1>2. CASE AttachBridge(r)
  <2>1. run \in Attempts /\ mode = "host"
    BY <1>2 DEF AttachBridge, BridgeCore, DataTyped
  <2>2. run' \in Attempts /\ (Attempting' <=> Attempting) /\ (Attempting => run' = run)
    BY <1>2, <2>1, RunsTyped DEF AttachBridge
  <2>3. OwnMode'
    BY <1>2, <2>1 DEF AttachBridge, OwnMode
  <2>4. CASE wanted # r
    <3>1. DataTyped'
      BY <1>2, <2>2, <2>4 DEF AttachBridge, Move, BridgeCore, DataTyped
    <3> QED
      BY <1>2, <2>1, <2>2, <2>3, <2>4, <3>1, CutStep DEF AttachBridge, BridgeCore, AfterTeardown
  <2>5. CASE wanted = r
    <3>1. DataTyped'
      BY <1>2, <2>2, <2>5 DEF AttachBridge, Move, BridgeCore, DataTyped
    <3>2. UNCHANGED <<mode, bgen, wanted, bridgeOn, topoRev, nodeClosed>>
      BY <1>2, <2>5 DEF AttachBridge
    <3> QED
      BY <2>1, <2>2, <3>1, <3>2, CalmStep DEF BridgeCore
  <2> QED
    BY <2>4, <2>5
<1> QED
  BY <1>1, <1>2

LEMMA BridgeDown ==
    ASSUME BridgeCore, DetachBridge \/ CloseNode
    PROVE  BridgeCore'
<1>1. /\ bgen' = bgen + 1 /\ bridgeOn' = NoBridge /\ relayOpen' = AfterTeardown
      /\ UNCHANGED <<mode, topoRev, run, meshRole, brokerId, waiters>> /\ wanted' = "none"
      /\ moves' \in 0 .. MaxMoves /\ losses' = losses
  BY BridgeAssumption DEF DetachBridge, CloseNode, Detach, Move, BridgeCore, DataTyped
<1>2. /\ BridgeIsWanted' /\ BridgeTopologyNewest' /\ AttemptAlone' /\ AttemptCurrent'
      /\ OwnRelayAccounted' /\ relayOpen' \subseteq Relays
  BY <1>1, CutStep DEF Attempting
<1> QED
  BY <1>1, <1>2 DEF BridgeCore, DataTyped, OwnMode

LEMMA NewsStep ==
    ASSUME BridgeCore,
           SetTopology \/ (\E r \in {"leader", "follower"} : LeaderMoves(r)) \/ OnReconnect
    PROVE  BridgeCore'
<1> USE BridgeAssumption
<1>1. CASE SetTopology
  <2>1. /\ topoRev' = topoRev + 1 /\ topoRev' \in Nat /\ bridgeOn \in {NoBridge} \cup Bridges
        /\ bridgeOn' = IF bridgeOn = NoBridge THEN NoBridge ELSE [bridgeOn EXCEPT !.topo = topoRev + 1]
        /\ UNCHANGED <<mode, meshRole, brokerId, wanted, bgen, run, relayOpen, waiters, nodeClosed>>
        /\ moves' \in 0 .. MaxMoves /\ losses' = losses
    BY <1>1 DEF SetTopology, Move, BridgeCore, DataTyped
  <2>2. CASE bridgeOn = NoBridge
    BY <2>1, <2>2 DEF BridgeCore, DataTyped, BridgeIsWanted, BridgeTopologyNewest,
       AttemptAlone, AttemptCurrent, OwnRelayAccounted, OwnMode, Attempting
  <2>3. CASE bridgeOn \in Bridges
    <3>1. /\ bridgeOn' \in Bridges /\ bridgeOn' # NoBridge /\ bridgeOn # NoBridge
          /\ bridgeOn'.topo = topoRev' /\ bridgeOn'.gen = bridgeOn.gen
          /\ bridgeOn'.relay = bridgeOn.relay
      BY <2>1, <2>3, BridgeForms
    <3>2. DataTyped' /\ BridgeIsWanted' /\ BridgeTopologyNewest' /\ OwnMode'
      BY <2>1, <3>1 DEF BridgeCore, DataTyped, BridgeIsWanted, BridgeTopologyNewest, OwnMode
    <3>3. AttemptAlone' /\ AttemptCurrent' /\ OwnRelayAccounted'
      BY <2>1, <3>1 DEF BridgeCore, AttemptAlone, AttemptCurrent, OwnRelayAccounted, Attempting
    <3> QED
      BY <3>2, <3>3 DEF BridgeCore
  <2> QED
    BY <2>1, <2>2, <2>3
<1>2. CASE \E r \in {"leader", "follower"} : LeaderMoves(r)
  <2>1. DataTyped'
    BY <1>2 DEF LeaderMoves, Move, BridgeCore, DataTyped
  <2> QED
    BY <1>2, <2>1, CalmStep DEF LeaderMoves, BridgeCore, Attempting
<1>3. CASE OnReconnect
  <2>1. run \in Attempts /\ UNCHANGED <<mode, meshRole, brokerId, wanted, topoRev, nodeClosed, moves, losses>>
    BY <1>3 DEF OnReconnect, BridgeCore, DataTyped
  <2>2. CASE nodeClosed \/ wanted = "none"
    <3>1. UNCHANGED <<bgen, bridgeOn, relayOpen, run, waiters>>
      BY <1>3, <2>2 DEF OnReconnect
    <3>2. DataTyped'
      BY <2>1, <3>1 DEF BridgeCore, DataTyped
    <3> QED
      BY <2>1, <3>1, <3>2, CalmStep DEF BridgeCore, Attempting
  <2>3. CASE ~ (nodeClosed \/ wanted = "none")
    <3>1. /\ bgen' = bgen + 1 /\ bridgeOn' = NoBridge /\ relayOpen' = AfterTeardown
          /\ RequestBridge /\ waiters' = waiters \cup {"failover"}
      BY <1>3, <2>3 DEF OnReconnect
    <3>2. run' \in Attempts /\ (Attempting' <=> Attempting) /\ (Attempting => run' = run)
      BY <2>1, <3>1, RunsTyped
    <3>3. /\ BridgeIsWanted' /\ BridgeTopologyNewest' /\ AttemptAlone' /\ AttemptCurrent'
          /\ OwnRelayAccounted' /\ relayOpen' \subseteq Relays
      BY <2>1, <3>1, <3>2, CutStep
    <3> QED
      BY <2>1, <3>1, <3>2, <3>3 DEF BridgeCore, DataTyped, OwnMode
  <2> QED
    BY <2>2, <2>3
<1> QED
  BY <1>1, <1>2, <1>3

LEMMA LoopStep ==
    ASSUME BridgeCore, RunLoop
    PROVE  BridgeCore'
<1>1. /\ run.phase = "loop" /\ run \in Attempts /\ ~ Attempting /\ relayOpen' = relayOpen
      /\ UNCHANGED <<mode, meshRole, brokerId, wanted, bgen, bridgeOn, waiters, topoRev,
                     nodeClosed, moves, losses>>
  BY DEF RunLoop, BridgeCore, DataTyped, Attempting
<1>2. CASE run' \in {NoRun, run}
  <2>1. run' \in Attempts /\ ~ Attempting'
    BY <1>1, <1>2, AttemptForms DEF Attempting
  <2>2. DataTyped'
    BY <1>1, <2>1 DEF BridgeCore, DataTyped
  <2> QED
    BY <1>1, <2>1, <2>2, CalmStep DEF BridgeCore
<1>3. ASSUME CanAttempt, NEW p \in {"connect", "attach"}, NEW r \in Relays,
             p = "connect" => Own,
             p = "attach" => wanted = r /\ ~ Own /\ r \in relayOpen,
             run' = [phase |-> p, gen |-> bgen, relay |-> r, broker |-> brokerId, rev |-> topoRev]
      PROVE  BridgeCore'
  <2>1. /\ run' \in Attempts /\ run'.phase = p /\ run'.gen = bgen /\ run'.relay = r
    BY <1>3, AttemptForms DEF BridgeCore, DataTyped
  <2>2. DataTyped'
    BY <1>1, <2>1 DEF BridgeCore, DataTyped
  <2>3. bridgeOn' = NoBridge /\ (mode = "own" => relayOpen = {})
    BY <1>1, <1>3 DEF CanAttempt, BridgeCore, OwnRelayAccounted, Attempting
  <2>4. AttemptCurrent' /\ OwnMode'
    BY <1>1, <1>3, <2>1 DEF AttemptCurrent, OwnMode, Own, BridgeCore, DataTyped
  <2>5. OwnRelayAccounted'
    BY <1>1, <2>3 DEF OwnRelayAccounted
  <2> QED
    BY <2>2, <2>3, <2>4, <2>5, NoBridgeCore DEF BridgeCore, BridgeIsWanted,
       BridgeTopologyNewest, AttemptAlone
<1>4. wanted \in relayOpen => wanted \in Relays
  BY DEF BridgeCore, DataTyped
<1> QED
  BY <1>2, <1>3, <1>4 DEF RunLoop

LEMMA ConnectStep ==
    ASSUME BridgeCore, ConnectSucceeds \/ ConnectFails
    PROVE  BridgeCore'
<1>1. /\ run.phase = "connect" /\ run \in Attempts /\ Attempting /\ bridgeOn = NoBridge
      /\ UNCHANGED <<mode, meshRole, brokerId, wanted, bgen, bridgeOn, waiters, topoRev,
                     nodeClosed, moves, losses>>
  BY DEF ConnectSucceeds, ConnectFails, BridgeCore, DataTyped, Attempting, AttemptAlone
<1>2. CASE ConnectSucceeds
  <2>1. /\ run' = [run EXCEPT !.phase = "attach"] /\ relayOpen' = relayOpen \cup {run.relay}
    BY <1>2 DEF ConnectSucceeds
  <2>2. /\ run' \in Attempts /\ run'.phase = "attach" /\ run'.gen = run.gen
        /\ run'.relay = run.relay /\ run.relay \in Relays
    BY <1>1, <2>1, AttemptForms
  <2>3. DataTyped'
    BY <1>1, <2>1, <2>2 DEF BridgeCore, DataTyped
  <2>4. AttemptCurrent' /\ OwnMode' /\ BridgeIsWanted' /\ BridgeTopologyNewest' /\ AttemptAlone'
    BY <1>1, <2>2 DEF AttemptCurrent, OwnMode, BridgeIsWanted, BridgeTopologyNewest,
       AttemptAlone, BridgeCore, Attempting
  <2>5. OwnRelayAccounted'
    BY <1>1, <2>1, <2>2 DEF BridgeCore, OwnRelayAccounted
  <2> QED
    BY <2>3, <2>4, <2>5 DEF BridgeCore
<1>3. CASE ConnectFails
  <2>1. run' \in Attempts /\ ~ Attempting' /\ relayOpen' = relayOpen
    BY <1>1, <1>3, RunsTyped DEF ConnectFails, EndAttempt
  <2>2. DataTyped'
    BY <1>1, <2>1 DEF BridgeCore, DataTyped
  <2> QED
    BY <1>1, <2>1, <2>2, CalmStep DEF BridgeCore
<1> QED
  BY <1>2, <1>3

LEMMA AttachStep ==
    ASSUME BridgeCore, AttachReturns \/ AttachThrows
    PROVE  BridgeCore'
<1>1. /\ run.phase \in {"connect", "attach"} /\ run \in Attempts /\ Attempting /\ bridgeOn = NoBridge
      /\ UNCHANGED <<mode, meshRole, brokerId, wanted, bgen, nodeClosed>>
      /\ waiters' \subseteq waiters
      /\ moves' \in 0 .. MaxMoves /\ losses' \in 0 .. MaxLosses
      /\ run' \in {NoRun, [phase |-> "loop"]}
  <2>1. /\ run.phase \in {"connect", "attach"} /\ run \in Attempts /\ Attempting
        /\ bridgeOn = NoBridge
    BY DEF AttachReturns, AttachThrows, BridgeCore, DataTyped, Attempting, AttemptAlone
  <2>2. /\ UNCHANGED <<mode, meshRole, brokerId, wanted, bgen, nodeClosed>>
        /\ waiters' \subseteq waiters
    BY DEF AttachReturns, AttachThrows, CallersTold
  <2>3. moves' \in 0 .. MaxMoves /\ losses' \in 0 .. MaxLosses
    <3>1. moves \in 0 .. MaxMoves /\ losses \in 0 .. MaxLosses
      BY DEF BridgeCore, DataTyped
    <3>2. moves' = moves /\ (losses' = losses \/ (losses > 0 /\ losses' = losses - 1))
      <4>1. CASE AttachReturns
        BY <4>1 DEF AttachReturns
      <4>2. CASE AttachThrows
        BY <4>2 DEF AttachThrows, Loss
      <4> QED
        BY <4>1, <4>2
    <3> QED
      BY <3>1, <3>2, BridgeAssumption
  <2>4. run' \in {NoRun, [phase |-> "loop"]}
    BY DEF AttachReturns, AttachThrows, EndAttempt
  <2> QED
    BY <2>1, <2>2, <2>3, <2>4
<1>2. /\ run' \in Attempts /\ ~ Attempting' /\ run.gen \in Nat /\ run.relay \in Relays
      /\ run.broker \in Nat
  BY <1>1, RunsTyped
<1>3. CASE UNCHANGED <<bridgeOn, topoRev>> /\ DropCandidate
  <2>1. relayOpen' \subseteq relayOpen /\ (mode = "own" => run.relay \notin relayOpen')
    BY <1>3 DEF DropCandidate
  <2>2. DataTyped'
    BY <1>1, <1>2, <1>3, <2>1 DEF BridgeCore, DataTyped
  <2>3. mode \in {"host", "own"}
    BY DEF BridgeCore, DataTyped
  <2> QED
    BY <1>1, <1>2, <1>3, <2>1, <2>2, <2>3, CalmStep DEF BridgeCore
<1>4. ASSUME ~ AttemptIsStale, relayOpen' = relayOpen, NEW t, t = IF topoRev = 0 THEN 1 ELSE topoRev,
             topoRev' = t,
             bridgeOn' = [relay |-> run.relay, gen |-> run.gen, broker |-> run.broker, topo |-> t]
      PROVE  BridgeCore'
  <2>1. t \in Nat
    BY <1>4 DEF BridgeCore, DataTyped
  <2>2. /\ bridgeOn' \in Bridges /\ bridgeOn' # NoBridge /\ bridgeOn'.relay = run.relay
        /\ bridgeOn'.gen = run.gen /\ bridgeOn'.topo = t
    BY <1>2, <1>4, <2>1, BridgeForms
  <2>3. DataTyped'
    BY <1>1, <1>2, <1>4, <2>1, <2>2 DEF BridgeCore, DataTyped
  <2>4. BridgeIsWanted'
    BY <1>1, <1>4, <2>2 DEF BridgeIsWanted, AttemptIsStale, BridgeCore, AttemptCurrent
  <2>5. BridgeTopologyNewest' /\ AttemptCurrent' /\ AttemptAlone' /\ OwnMode'
    BY <1>1, <1>2, <1>4, <2>2 DEF BridgeTopologyNewest, AttemptCurrent, AttemptAlone, OwnMode, BridgeCore
  <2>6. OwnRelayAccounted'
    BY <1>1, <1>4, <2>2 DEF OwnRelayAccounted, BridgeCore
  <2> QED
    BY <2>3, <2>4, <2>5, <2>6 DEF BridgeCore
<1> QED
  BY <1>1, <1>3, <1>4 DEF AttachReturns, AttachThrows

LEMMA RelayStep ==
    ASSUME BridgeCore,
           (\E r \in Relays : RelayCloses(r)) \/ RetryTimer \/ \E w \in waiters : WaiterResumes(w)
    PROVE  BridgeCore'
<1> USE BridgeAssumption
<1>1. ASSUME NEW r \in Relays, RelayCloses(r) PROVE BridgeCore'
  <2>1. /\ r \in relayOpen /\ relayOpen' = relayOpen \ {r} /\ losses' \in 0 .. MaxLosses
        /\ UNCHANGED <<mode, meshRole, brokerId, wanted, run, waiters, topoRev, nodeClosed, moves>>
    BY <1>1 DEF RelayCloses, Loss, BridgeCore, DataTyped
  <2>2. CASE mode = "own" /\ bridgeOn.relay = r
    <3>1. bridgeOn # NoBridge /\ bgen' = bgen + 1 /\ bridgeOn' = NoBridge
      BY <1>1, <2>2 DEF RelayCloses, NoBridge
    <3>2. relayOpen' = AfterTeardown
      BY <2>1, <2>2, <3>1 DEF AfterTeardown
    <3>3. /\ BridgeIsWanted' /\ BridgeTopologyNewest' /\ AttemptAlone' /\ AttemptCurrent'
          /\ OwnRelayAccounted'
      BY <2>1, <3>1, <3>2, CutStep DEF Attempting
    <3> QED
      BY <2>1, <3>1, <3>3 DEF BridgeCore, DataTyped, OwnMode
  <2>3. CASE ~ (mode = "own" /\ bridgeOn.relay = r)
    <3>1. UNCHANGED <<bgen, bridgeOn>>
      BY <1>1, <2>3 DEF RelayCloses
    <3>2. DataTyped'
      BY <2>1, <3>1 DEF BridgeCore, DataTyped
    <3>3. /\ BridgeIsWanted' /\ BridgeTopologyNewest' /\ AttemptAlone' /\ AttemptCurrent' /\ OwnMode'
      BY <2>1, <3>1 DEF BridgeIsWanted, BridgeTopologyNewest, AttemptAlone, AttemptCurrent, OwnMode,
         BridgeCore, Attempting
    <3>4. OwnRelayAccounted'
      BY <2>1, <3>1 DEF OwnRelayAccounted, BridgeCore
    <3> QED
      BY <3>2, <3>3, <3>4 DEF BridgeCore
  <2> QED
    BY <2>2, <2>3
<1>2. CASE RetryTimer
  <2>1. run \in Attempts /\ waiters' \subseteq {"first", "failover", "retry"}
    BY <1>2 DEF RetryTimer, BridgeCore, DataTyped
  <2>2. run' \in Attempts /\ (Attempting' <=> Attempting) /\ (Attempting => run' = run)
    BY <1>2, <2>1, RunsTyped DEF RetryTimer, Attempting
  <2>3. UNCHANGED <<mode, meshRole, brokerId, wanted, bgen, bridgeOn, relayOpen, topoRev, nodeClosed,
                    moves, losses>>
    BY <1>2 DEF RetryTimer
  <2>4. DataTyped'
    BY <2>1, <2>2, <2>3 DEF BridgeCore, DataTyped
  <2> QED
    BY <2>2, <2>3, <2>4, CalmStep DEF BridgeCore
<1>3. ASSUME NEW w \in waiters, WaiterResumes(w) PROVE BridgeCore'
  <2>1. /\ UNCHANGED <<mode, meshRole, brokerId, wanted, bgen, bridgeOn, relayOpen, topoRev, nodeClosed,
                       run, moves, losses>>
        /\ waiters' \subseteq waiters
    BY <1>3 DEF WaiterResumes
  <2>2. DataTyped'
    BY <2>1 DEF BridgeCore, DataTyped
  <2> QED
    BY <2>1, <2>2, CalmStep DEF BridgeCore, Attempting
<1> QED
  BY <1>1, <1>2, <1>3

LEMMA AgainStep ==
    ASSUME BridgeCore, ConnectAgain \/ RelayNeverAnswers
    PROVE  BridgeCore'
<1>1. CASE ConnectAgain
  <2>1. /\ run \in Attempts /\ RequestBridge
        /\ meshRole' \in {"leader", "follower"} /\ brokerId' \in Nat
        /\ waiters' \subseteq {"first", "failover", "retry"}
        /\ UNCHANGED <<mode, wanted, bgen, bridgeOn, relayOpen, topoRev, nodeClosed, moves, losses>>
    BY <1>1 DEF ConnectAgain, BridgeCore, DataTyped
  <2>2. run' \in Attempts /\ (Attempting' <=> Attempting) /\ (Attempting => run' = run)
    BY <2>1, RunsTyped
  <2>3. DataTyped'
    BY <2>1, <2>2 DEF BridgeCore, DataTyped
  <2> QED
    BY <2>1, <2>2, <2>3, CalmStep DEF BridgeCore
<1>2. CASE RelayNeverAnswers
  <2>1. /\ UNCHANGED <<mode, meshRole, brokerId, wanted, bgen, run, bridgeOn, relayOpen, waiters,
                       topoRev, nodeClosed>>
        /\ moves' \in 0 .. MaxMoves /\ losses' \in 0 .. MaxLosses
    BY <1>2, BridgeAssumption DEF RelayNeverAnswers, Loss, BridgeCore, DataTyped
  <2>2. DataTyped'
    BY <2>1 DEF BridgeCore, DataTyped
  <2> QED
    BY <2>1, <2>2, CalmStep DEF BridgeCore, Attempting
<1> QED
  BY <1>1, <1>2

LEMMA BridgeInitially ==
    ASSUME BridgeInit
    PROVE  BridgeCore /\ FlagsTyped
<1>1. FlagsTyped
  BY Zenon DEF BridgeInit, FlagsTyped
<1>2. run \in {NoRun, [phase |-> "loop"]} /\ bridgeOn = NoBridge /\ relayOpen = {}
  BY DEF BridgeInit
<1>3. run \in Attempts /\ ~ Attempting
  BY <1>2, AttemptForms DEF Attempting
<1>4. DataTyped /\ OwnMode
  BY <1>2, <1>3, BridgeAssumption DEF BridgeInit, DataTyped, OwnMode
<1> QED
  BY <1>1, <1>2, <1>3, <1>4, NoBridgeCore DEF BridgeCore, AttemptCurrent, OwnRelayAccounted

(***************************************************************************)
(* Whatever the local mesh, the relays and the topology do while an attach *)
(* of mesh_node.ts is suspended: a published bridge is of the current      *)
(* generation, on the relay that is wanted and with the newest topology,   *)
(* and a node's own relay client is never left open without a bridge.      *)
(***************************************************************************)
THEOREM BridgeSafe == BridgeSpec => []BridgeInv
<1>1. BridgeInit => BridgeCore /\ FlagsTyped
  BY BridgeInitially
<1>2. BridgeCore /\ FlagsTyped /\ [BridgeNext]_bridgeVars => BridgeCore' /\ FlagsTyped'
  <2> SUFFICES ASSUME BridgeCore, FlagsTyped, [BridgeNext]_bridgeVars PROVE BridgeCore' /\ FlagsTyped'
    OBVIOUS
  <2>1. CASE BridgeNext
    <3>1. FlagsTyped'
      BY <2>1, BridgeFlagsStep
    <3>2. CASE \E r \in Relays : HostConnects(r) \/ AttachBridge(r) \/ RelayCloses(r)
      BY <3>1, <3>2, HostStep, RelayStep
    <3>3. CASE DetachBridge \/ CloseNode
      BY <3>1, <3>3, BridgeDown
    <3>4. CASE SetTopology \/ (\E r \in {"leader", "follower"} : LeaderMoves(r)) \/ OnReconnect
      BY <3>1, <3>4, NewsStep
    <3>5. CASE RunLoop \/ ConnectSucceeds \/ ConnectFails \/ AttachReturns \/ AttachThrows
      BY <3>1, <3>5, LoopStep, ConnectStep, AttachStep
    <3>6. CASE RetryTimer \/ \E w \in waiters : WaiterResumes(w)
      BY <3>1, <3>6, RelayStep
    <3>7. CASE ConnectAgain \/ RelayNeverAnswers
      BY <3>1, <3>7, AgainStep
    <3> QED
      BY <2>1, <3>2, <3>3, <3>4, <3>5, <3>6, <3>7 DEF BridgeNext
  <2>2. CASE UNCHANGED bridgeVars
    BY <2>2 DEF bridgeVars, BridgeCore, DataTyped, FlagsTyped, BridgeIsWanted,
       BridgeTopologyNewest, OwnRelayAccounted, AttemptCurrent, AttemptAlone, OwnMode, Attempting
  <2> QED
    BY <2>1, <2>2
<1>3. BridgeCore /\ FlagsTyped => BridgeInv
  BY BridgeTypesSplit DEF BridgeCore, BridgeInv
<1> QED
  BY <1>1, <1>2, <1>3, PTL DEF BridgeSpec


-----------------------------------------------------------------------------
(* The connection to the relay *)

\* At most one retry of the current generation: the timer, or one attempt; and
\* only while the relay is on and nothing is published.
RetriesOfOneGeneration ==
    /\ timer \in {0, gen}
    /\ timer # 0 => st = "started" /\ relay = NoClient
    /\ \A t \in jobs : t.fn = "reconnect" =>
          /\ t.gen \in 0 .. gen
          /\ t.gen = gen => st = "started" /\ relay = NoClient /\ timer = 0
    /\ \A t, u \in jobs :
          t.fn = "reconnect" /\ u.fn = "reconnect" /\ t.gen = gen /\ u.gen = gen => t = u

\* A first sweep still awaited under the current epoch has its producer; an idle
\* relay was announced as nothing else; a disposed process only flushes.
ChecksOfOneEpoch ==
    /\ \A t \in jobs : t.fn = "start_check" =>
          t.epoch \in 0 .. epoch /\ (t.epoch = epoch => producer)
    /\ st = "idle" => status \in {"none", "disconnected"}
    /\ disposed /\ st = "started" => [fn |-> "shutdown"] \in jobs

\* The step suspends and resumes no function of this name.
KeptFn(f) == \A t : t.fn = f => (t \in jobs' <=> t \in jobs)

LEMMA TaskForms ==
    /\ \A t \in Tasks :
          /\ t.fn \in {"start_connect", "reconnect", "start_check", "message", "pair", "pair_add"}
                => t.client \in Clients
          /\ t.fn \in {"start_key", "start_connect", "reconnect", "message", "pair", "pair_add"}
                => t.gen \in Nat
          /\ t.fn = "start_check" => t.epoch \in Nat
          /\ t.fn \in {"message", "pair", "pair_add"} => t.owner \in Owners
    /\ \A g \in Nat : [fn |-> "start_key", gen |-> g] \in Tasks
    /\ \A g \in Nat, c \in Clients : [fn |-> "start_connect", gen |-> g, client |-> c] \in Tasks
    /\ \A g \in Nat, c \in Clients : [fn |-> "reconnect", gen |-> g, client |-> c] \in Tasks
    /\ \A e \in Nat, c \in Clients : [fn |-> "start_check", epoch |-> e, client |-> c] \in Tasks
    /\ \A g \in Nat, c \in Clients, o \in Owners :
          /\ [fn |-> "message", gen |-> g, client |-> c, owner |-> o, seen |-> "unread"] \in Tasks
          /\ [fn |-> "pair", gen |-> g, client |-> c, owner |-> o, seen |-> "unread"] \in Tasks
          /\ [fn |-> "pair_add", gen |-> g, client |-> c, owner |-> o] \in Tasks
    /\ [fn |-> "shutdown"] \in Tasks
<1>1. \A t \in Tasks :
          /\ t.fn \in {"start_connect", "reconnect", "start_check", "message", "pair", "pair_add"}
                => t.client \in Clients
          /\ t.fn \in {"start_key", "start_connect", "reconnect", "message", "pair", "pair_add"}
                => t.gen \in Nat
          /\ t.fn = "start_check" => t.epoch \in Nat
          /\ t.fn \in {"message", "pair", "pair_add"} => t.owner \in Owners
  BY DEF Tasks
<1>2. /\ \A g \in Nat : [fn |-> "start_key", gen |-> g] \in Tasks
      /\ \A g \in Nat, c \in Clients : [fn |-> "start_connect", gen |-> g, client |-> c] \in Tasks
      /\ \A g \in Nat, c \in Clients : [fn |-> "reconnect", gen |-> g, client |-> c] \in Tasks
      /\ \A e \in Nat, c \in Clients : [fn |-> "start_check", epoch |-> e, client |-> c] \in Tasks
  BY DEF Tasks
<1>3. /\ \A g \in Nat, c \in Clients, o \in Owners :
          /\ [fn |-> "message", gen |-> g, client |-> c, owner |-> o, seen |-> "unread"] \in Tasks
          /\ [fn |-> "pair", gen |-> g, client |-> c, owner |-> o, seen |-> "unread"] \in Tasks
          /\ [fn |-> "pair_add", gen |-> g, client |-> c, owner |-> o] \in Tasks
      /\ [fn |-> "shutdown"] \in Tasks
  BY DEF Tasks
<1> QED
  BY <1>1, <1>2, <1>3

LEMMA RenameTask == [fn |-> "rename", started |-> st = "started"] \in Tasks
<1>1. (st = "started") \in BOOLEAN
  BY Zenon
<1>2. \A b \in BOOLEAN : [fn |-> "rename", started |-> b] \in Tasks
  BY DEF Tasks
<1> QED
  BY <1>1, <1>2, Zenon

LEMMA ReadTask ==
    ASSUME NEW t \in Tasks, t.fn \in {"message", "pair"}, NEW s \in {"yes", "no"}
    PROVE  [t EXCEPT !.seen = s] \in Tasks /\ [t EXCEPT !.seen = s].fn = t.fn
  BY DEF Tasks

-----------------------------------------------------------------------------
(* Types *)

\* The types, flags apart.
LinkData ==
    /\ gen \in Nat /\ epoch \in Nat /\ timer \in Nat /\ listening \in Nat
    /\ st \in {"idle", "started"}
    /\ relay \in Clients \cup {NoClient}
    /\ bridge \in Clients \cup {NoClient}
    /\ socket \in [Clients -> Sockets]
    /\ active \in [Owners -> Clients \cup {NoClient}]
    /\ known \subseteq Owners
    /\ status \in {"none", "disconnected", "reconnecting", "connected"}

LinkFlags ==
    /\ producer \in BOOLEAN /\ topology \in BOOLEAN /\ mesh \in BOOLEAN
    /\ disposed \in BOOLEAN /\ session \in BOOLEAN /\ deferred \in BOOLEAN

LinkBudget == budget \in [{"drops", "commands", "pairs"} -> Nat] /\ hung \subseteq Clients

LEMMA LinkTypesSplit ==
    LinkTypeOK <=> LinkData /\ LinkFlags /\ LinkBudget /\ jobs \subseteq Tasks
  BY DEF LinkTypeOK, LinkData, LinkFlags, LinkBudget

LEMMA LinkFlagsStep ==
    ASSUME LinkFlags, LinkNext
    PROVE  LinkFlags'
<1> USE DEF LinkFlags
<1>0. (GoIdle => producer' = FALSE /\ topology' = FALSE) /\ (StayIdle => UNCHANGED <<producer, topology>>)
  BY DEF GoIdle, StayIdle
<1>1. CASE Command
  <2>1. /\ mesh' \in BOOLEAN /\ disposed' \in BOOLEAN /\ session' \in BOOLEAN /\ deferred' \in BOOLEAN
    BY <1>1, Zenon DEF Command, CmdStart, CmdStop, RelayOff, RenameAgent, SessionShutdown, SessionStart, BumpOnly,
       StayIdle, GoIdle
  <2>2. producer' \in BOOLEAN /\ topology' \in BOOLEAN
    BY <1>1, Zenon DEF Command, CmdStart, CmdStop, RelayOff, RenameAgent, SessionShutdown, SessionStart, BumpOnly,
       StayIdle, GoIdle
  <2> QED
    BY <2>1, <2>2
<1>2. CASE ResumeShutdown
  BY <1>2, Zenon DEF ResumeShutdown, StayIdle, GoIdle
<1>3. CASE \E t \in jobs : \/ \E c \in Clients : ResumeKey(t, c)
                           \/ ResumeStartConnect(t) \/ ResumeCheck(t) \/ ResumeRename(t)
  BY <1>3, Zenon DEF ResumeKey, ResumeStartConnect, ResumeCheck, ResumeRename
<1>4. CASE \E t \in jobs : FindKnownPeer(t) \/ ResumeMessage(t) \/ ResumePair(t) \/ ResumePairAdd(t)
  BY <1>4, Zenon DEF FindKnownPeer, ResumeMessage, ResumePair, ResumePairAdd
<1>5. CASE Reconnecting
  BY <1>5, Zenon DEF Reconnecting, ReconnectTimer, ReconnectFails, ReconnectSucceeds
<1>6. CASE Network
  BY <1>6, Zenon DEF Network, GoHalfOpen, Drop, Watchdog, OnRelayClose, ConnectHangs
<1>7. CASE OwnerStep
  BY <1>7, Zenon DEF OwnerStep, ProducerSweep, MeshJoined, OwnerSends, OwnerPairs, OwnerRevoked,
     OnPeerDisconnect
<1> QED
  BY <1>1, <1>2, <1>3, <1>4, <1>5, <1>6, <1>7, Zenon DEF LinkNext, ResumeTask

LEMMA BudgetStep ==
    ASSUME LinkBudget, LinkNext
    PROVE  LinkBudget'
<1>1. UNCHANGED <<budget, hung>> => LinkBudget'
  BY DEF LinkBudget
<1>2. (Spend("drops") \/ Spend("commands") \/ Spend("pairs")) /\ UNCHANGED hung => LinkBudget'
  BY DEF Spend, LinkBudget
<1>3. CASE Command
  BY <1>1, <1>2, <1>3, Zenon DEF Command, CmdStart, CmdStop, RelayOff, RenameAgent, SessionShutdown, SessionStart
<1>4. CASE ResumeTask
  BY <1>1, <1>4, Zenon DEF ResumeTask, ResumeShutdown, ResumeKey, ResumeStartConnect, ResumeCheck, ResumeRename,
     FindKnownPeer, ResumeMessage, ResumePair, ResumePairAdd
<1>5. CASE Reconnecting
  BY <1>1, <1>5, Zenon DEF Reconnecting, ReconnectTimer, ReconnectFails, ReconnectSucceeds
<1>6. ASSUME NEW c \in Clients,
             GoHalfOpen(c) \/ Drop(c) \/ Watchdog(c) \/ OnRelayClose(c) \/ ConnectHangs(c)
      PROVE  LinkBudget'
  <2>1. CASE ConnectHangs(c)
    BY <2>1 DEF ConnectHangs, Spend, LinkBudget
  <2> QED
    BY <1>1, <1>2, <1>6, <2>1, Zenon DEF GoHalfOpen, Drop, Watchdog, OnRelayClose
<1>7. CASE OwnerStep
  BY <1>1, <1>2, <1>7, Zenon DEF OwnerStep, ProducerSweep, MeshJoined, OwnerSends, OwnerPairs, OwnerRevoked,
     OnPeerDisconnect
<1> QED
  BY <1>3, <1>4, <1>5, <1>6, <1>7 DEF LinkNext, Network

-----------------------------------------------------------------------------
(* The connection, besides flags, budget and the types of the tasks *)

LinkWeb ==
    /\ LinkData
    /\ NoOrphanClient /\ NeverStranded /\ RetriesOfOneGeneration
    /\ OnlyCurrentRelay /\ StatusTold /\ ChecksOfOneEpoch

\* Clients that lose their sockets, under a relay that stays or goes, leak none.
LEMMA SocketsClosed ==
    ASSUME LinkData, NoOrphanClient, KeptFn("start_connect"), KeptFn("reconnect"),
           \A c \in Clients :
               \/ socket'[c] = socket[c] /\ (relay = c => relay' = c)
               \/ socket'[c] \notin {"open", "halfopen", "connecting"}
               \/ socket'[c] = "halfopen" /\ relay = c /\ relay' = c
    PROVE  NoOrphanClient'
  BY DEF NoOrphanClient, KeptFn, LinkData

\* A step about owners, the bridge or other functions.
LEMMA Harmless ==
    ASSUME LinkWeb, UNCHANGED <<gen, st, relay, socket, timer, listening, epoch, producer, status>>,
           KeptFn("start_connect"), KeptFn("reconnect"), KeptFn("start_check"), KeptFn("shutdown"),
           disposed' => disposed, known' \subseteq Owners,
           active' = [o \in Owners |-> active'[o]],
           \A o \in Owners : active'[o] \in {active[o], NoClient, relay},
           bridge' \in {bridge, relay}
    PROVE  LinkWeb'
<1> USE DEF LinkWeb
<1>1. LinkData' /\ OnlyCurrentRelay'
  BY DEF LinkData, OnlyCurrentRelay
<1>2. NoOrphanClient'
  <2>1. \A c \in Clients : socket'[c] = socket[c] /\ (relay = c => relay' = c)
    OBVIOUS
  <2> QED
    BY <2>1, SocketsClosed
<1>3. NeverStranded' /\ RetriesOfOneGeneration'
  BY DEF NeverStranded, RetriesOfOneGeneration, KeptFn
<1>4. StatusTold'
  BY DEF StatusTold, KeptFn, RelayStatus
<1>5. ChecksOfOneEpoch'
  BY DEF ChecksOfOneEpoch, KeptFn
<1> QED
  BY <1>1, <1>2, <1>3, <1>4, <1>5

\* While the relay is off, a generation more or a bridge less changes nothing.
LEMMA IdleStep ==
    ASSUME LinkWeb, st = "idle",
           UNCHANGED <<st, relay, socket, timer, listening, active, epoch, producer>>,
           gen' \in {gen, gen + 1}, bridge' \in {bridge, NoClient},
           status' \in {status, "disconnected"}, known' = known,
           KeptFn("start_connect"), KeptFn("reconnect"), KeptFn("start_check")
    PROVE  LinkWeb'
<1> USE DEF LinkWeb
<1>1. LinkData' /\ OnlyCurrentRelay'
  BY DEF LinkData, OnlyCurrentRelay
<1>2. NoOrphanClient'
  <2>1. \A c \in Clients : socket'[c] = socket[c] /\ (relay = c => relay' = c)
    OBVIOUS
  <2> QED
    BY <2>1, SocketsClosed
<1>3. NeverStranded' /\ ChecksOfOneEpoch'
  BY DEF NeverStranded, ChecksOfOneEpoch, KeptFn
<1>4. RetriesOfOneGeneration'
  <2>1. \A t \in jobs' : t.fn = "reconnect" => t.gen \in 0 .. gen' /\ t.gen # gen'
    BY DEF RetriesOfOneGeneration, KeptFn, LinkData
  <2> QED
    BY <2>1 DEF RetriesOfOneGeneration, OnlyCurrentRelay, LinkData
<1>5. StatusTold'
  BY DEF StatusTold, RelayStatus, ChecksOfOneEpoch
<1> QED
  BY <1>1, <1>2, <1>3, <1>4, <1>5

LEMMA GoIdleStep ==
    ASSUME LinkWeb, GoIdle, known' = known,
           KeptFn("start_connect"), KeptFn("reconnect"), KeptFn("start_check")
    PROVE  LinkWeb'
<1> USE DEF LinkWeb
<1>1. LinkData'
  BY DEF LinkData, GoIdle, CloseClient, Detached, Sockets
<1>2. OnlyCurrentRelay' /\ StatusTold' /\ NeverStranded'
  BY DEF OnlyCurrentRelay, StatusTold, NeverStranded, GoIdle, Detached, RelayStatus
<1>3. NoOrphanClient'
  <2>1. ASSUME NEW c \in Clients
        PROVE  \/ socket'[c] = socket[c] /\ (relay = c => relay' = c)
               \/ socket'[c] \notin {"open", "halfopen", "connecting"}
    BY LinkAssumption DEF GoIdle, CloseClient, LinkData
  <2>2. \A c \in Clients :
               \/ socket'[c] = socket[c] /\ (relay = c => relay' = c)
               \/ socket'[c] \notin {"open", "halfopen", "connecting"}
               \/ socket'[c] = "halfopen" /\ relay = c /\ relay' = c
    BY <2>1
  <2> QED
    BY <2>2, SocketsClosed
<1>4. RetriesOfOneGeneration'
  <2>1. \A t \in jobs' : t.fn = "reconnect" => t.gen \in 0 .. gen' /\ t.gen # gen'
    BY DEF GoIdle, RetriesOfOneGeneration, KeptFn, LinkData
  <2> QED
    BY <2>1 DEF RetriesOfOneGeneration, GoIdle, LinkData
<1>5. ChecksOfOneEpoch'
  <2>1. \A t \in jobs' : t.fn = "start_check" => t.epoch \in 0 .. epoch' /\ t.epoch # epoch'
    BY DEF GoIdle, ChecksOfOneEpoch, KeptFn, LinkData
  <2> QED
    BY <2>1 DEF ChecksOfOneEpoch, GoIdle, LinkData
<1> QED
  BY <1>1, <1>2, <1>3, <1>4, <1>5

-----------------------------------------------------------------------------
(* Commands, and what they suspend *)

LEMMA CommandStep ==
    ASSUME LinkWeb, Command
    PROVE  LinkWeb'
<1> DEFINE Kept == KeptFn("start_connect") /\ KeptFn("reconnect") /\ KeptFn("start_check")
<1>1. jobs' = jobs => Kept
  BY DEF KeptFn
<1>2. CASE CmdStart
  <2>1. Kept
    BY <1>2 DEF CmdStart, BeginStart, KeptFn
  <2> QED
    BY <1>2, <2>1, IdleStep DEF CmdStart, BeginStart
<1>3. CASE CmdStop
  BY <1>1, <1>3, IdleStep, GoIdleStep DEF CmdStop, StayIdle, LinkWeb, LinkData
<1>4. CASE RelayOff
  BY <1>1, <1>4, IdleStep, GoIdleStep DEF RelayOff, RelayStatus, LinkWeb, LinkData
<1>5. CASE RenameAgent
  <2>1. Kept /\ KeptFn("shutdown")
    BY <1>5 DEF RenameAgent, KeptFn
  <2>2. CASE st = "started"
    BY <1>5, <2>1, <2>2, GoIdleStep DEF RenameAgent
  <2>3. CASE st # "started"
    BY <1>5, <2>1, <2>3, IdleStep DEF RenameAgent, LinkWeb, LinkData
  <2> QED
    BY <2>2, <2>3
<1>6. CASE SessionStart
  <2>1. Kept /\ KeptFn("shutdown")
    BY <1>6 DEF SessionStart, BeginStart, KeptFn
  <2>2. CASE deferred /\ st = "idle"
    BY <1>6, <2>1, <2>2, IdleStep DEF SessionStart, BeginStart
  <2>3. CASE ~ (deferred /\ st = "idle")
    <3>1. UNCHANGED <<gen, st, relay, socket, timer, listening, active, epoch, producer, bridge, status, known>>
          /\ (disposed' => disposed)
      BY <1>6, <2>3 DEF SessionStart
    <3> QED
      BY <2>1, <3>1, Harmless DEF LinkWeb, LinkData
  <2> QED
    BY <2>2, <2>3
<1>7. CASE SessionShutdown
  <2>1. CASE Attached = {}
    <3>1. Kept
      BY <1>1, <1>7, <2>1 DEF SessionShutdown
    <3> QED
      BY <1>7, <2>1, <3>1, IdleStep, GoIdleStep DEF SessionShutdown, StayIdle, LinkWeb, LinkData
  <2>2. CASE Attached # {}
    <3>1. relay # NoClient /\ st = "started" /\ timer = 0
      BY <2>2 DEF Attached, LinkWeb, OnlyCurrentRelay, LinkData, RetriesOfOneGeneration
    <3>2. Kept /\ [fn |-> "shutdown"] \in jobs'
      BY <1>7, <2>2 DEF SessionShutdown, KeptFn
    <3>3. BumpOnly /\ UNCHANGED <<bridge, known>>
      BY <1>7, <2>2 DEF SessionShutdown
    <3>4. LinkData' /\ OnlyCurrentRelay' /\ NeverStranded'
      BY <3>1, <3>3 DEF BumpOnly, LinkWeb, LinkData, OnlyCurrentRelay, NeverStranded
    <3>5. NoOrphanClient'
      <4>1. \A c \in Clients : socket'[c] = socket[c] /\ (relay = c => relay' = c)
        BY <3>3 DEF BumpOnly
      <4> QED
        BY <3>2, <4>1, SocketsClosed DEF LinkWeb
    <3>6. RetriesOfOneGeneration'
      <4>1. \A t \in jobs' : t.fn = "reconnect" => t.gen \in 0 .. gen' /\ t.gen # gen'
        BY <3>2, <3>3 DEF BumpOnly, RetriesOfOneGeneration, KeptFn, LinkWeb, LinkData
      <4> QED
        BY <3>1, <3>3, <4>1 DEF RetriesOfOneGeneration, BumpOnly, LinkData
    <3>7. StatusTold' /\ ChecksOfOneEpoch'
      BY <3>1, <3>2, <3>3 DEF BumpOnly, StatusTold, ChecksOfOneEpoch, KeptFn, LinkWeb
    <3> QED
      BY <3>4, <3>5, <3>6, <3>7 DEF LinkWeb
  <2> QED
    BY <2>1, <2>2
<1> QED
  BY <1>2, <1>3, <1>4, <1>5, <1>6, <1>7 DEF Command

-----------------------------------------------------------------------------
(* Sockets *)

LEMMA NetworkStep ==
    ASSUME LinkWeb, NEW c \in Clients, GoHalfOpen(c) \/ Drop(c) \/ Watchdog(c) \/ OnRelayClose(c)
    PROVE  LinkWeb'
<1>1. KeptFn("start_connect") /\ KeptFn("reconnect") /\ KeptFn("start_check") /\ KeptFn("shutdown")
  BY DEF KeptFn, GoHalfOpen, Drop, Watchdog, OnRelayClose
<1>2. NoOrphanClient'
  <2>1. LinkData /\ NoOrphanClient
    BY DEF LinkWeb
  <2>2. CASE GoHalfOpen(c)
    <3>1. \A d \in Clients :
             \/ socket'[d] = socket[d] /\ (relay = d => relay' = d)
             \/ socket'[d] = "halfopen" /\ relay = d /\ relay' = d
      BY <2>1, <2>2 DEF GoHalfOpen, NoOrphanClient, LinkData
    <3> QED
      BY <1>1, <2>1, <3>1, SocketsClosed
  <2>3. CASE Drop(c) \/ Watchdog(c)
    <3>1. \A d \in Clients :
             \/ socket'[d] = socket[d] /\ (relay = d => relay' = d)
             \/ socket'[d] \notin {"open", "halfopen", "connecting"}
      BY <2>1, <2>3 DEF Drop, Watchdog, LinkData
    <3> QED
      BY <1>1, <2>1, <3>1, SocketsClosed
  <2>4. CASE OnRelayClose(c)
    <3>1. \A d \in Clients :
             \/ socket'[d] = socket[d] /\ (relay = d => relay' = d)
             \/ socket'[d] \notin {"open", "halfopen", "connecting"}
      BY <2>1, <2>4 DEF OnRelayClose, LinkData
    <3> QED
      BY <1>1, <2>1, <3>1, SocketsClosed
  <2> QED
    BY <2>2, <2>3, <2>4
<1>3. CASE OnRelayClose(c) /\ relay = c /\ st = "started"
  <2> USE LinkAssumption DEF LinkWeb
  <2>1. timer = 0 /\ gen \in Nat
    BY <1>3 DEF RetriesOfOneGeneration, LinkData
  <2>2. /\ gen' = gen + 1 /\ timer' = gen + 1 /\ listening' = 0 /\ relay' = NoClient /\ bridge' = NoClient
        /\ active' = Detached /\ status' = "reconnecting" /\ socket' = [socket EXCEPT ![c] = "unused"]
        /\ UNCHANGED <<st, epoch, producer, disposed, known, jobs>>
    BY <1>3, <2>1 DEF OnRelayClose
  <2>3. LinkData' /\ OnlyCurrentRelay'
    BY <1>3, <2>1, <2>2 DEF LinkData, OnlyCurrentRelay, Detached, Sockets
  <2>4. NeverStranded' /\ StatusTold' /\ ChecksOfOneEpoch'
    BY <1>3, <2>2 DEF NeverStranded, StatusTold, RelayStatus, ChecksOfOneEpoch
  <2>5. RetriesOfOneGeneration'
    <3>1. \A t \in jobs' : t.fn = "reconnect" => t.gen \in 0 .. gen' /\ t.gen # gen'
      BY <2>1, <2>2 DEF RetriesOfOneGeneration
    <3> QED
      BY <1>3, <2>1, <2>2, <3>1 DEF RetriesOfOneGeneration
  <2> QED
    BY <1>2, <2>3, <2>4, <2>5
<1>4. CASE ~ (OnRelayClose(c) /\ relay = c /\ st = "started")
  <2>1. UNCHANGED <<gen, st, relay, timer, jobs, listening, active, known, epoch, producer, bridge, disposed, status>>
        /\ \E s \in Sockets : socket' = [socket EXCEPT ![c] = s]
    BY <1>4 DEF GoHalfOpen, Drop, Watchdog, OnRelayClose, Sockets
  <2>2. LinkData' /\ OnlyCurrentRelay'
    BY <2>1 DEF LinkWeb, LinkData, OnlyCurrentRelay
  <2>3. NeverStranded' /\ RetriesOfOneGeneration' /\ StatusTold' /\ ChecksOfOneEpoch'
    BY <2>1 DEF LinkWeb, NeverStranded, RetriesOfOneGeneration, StatusTold, RelayStatus, ChecksOfOneEpoch
  <2> QED
    BY <1>2, <2>2, <2>3 DEF LinkWeb
<1> QED
  BY <1>3, <1>4

-----------------------------------------------------------------------------
(* Connecting *)

\* A candidate whose socket changes is an unpublished one; the others keep theirs.
LEMMA CandidateSockets ==
    ASSUME LinkData, NoOrphanClient, NEW c \in Clients, NEW s,
           socket' = [socket EXCEPT ![c] = s],
           \/ relay' = relay
           \/ relay = NoClient /\ relay' = c,
           \/ s \in {"unused", "closing"}
           \/ s = "open" /\ relay' = c
           \/ s = "connecting" /\ \E u \in jobs' : u.fn \in {"start_connect", "reconnect"} /\ u.client = c,
           \A u \in jobs : u.fn \in {"start_connect", "reconnect"} => u \in jobs' \/ u.client = c
    PROVE  NoOrphanClient'
  BY LinkAssumption DEF NoOrphanClient, LinkData

LEMMA KeyStep ==
    ASSUME LinkWeb, NEW t \in jobs, t \in Tasks, NEW c \in Clients, ResumeKey(t, c)
    PROVE  LinkWeb'
<1> USE DEF LinkWeb
<1>1. KeptFn("reconnect") /\ KeptFn("start_check") /\ KeptFn("shutdown")
  BY DEF ResumeKey, KeptFn
<1>2. UNCHANGED <<gen, st, relay, timer, listening, active, known, epoch, producer, bridge, disposed, status>>
  BY DEF ResumeKey
<1>3. t.fn = "start_key" /\ jobs \ {t} \subseteq jobs'
  BY DEF ResumeKey
<1>4. CASE UNCHANGED socket
  <2>1. LinkData' /\ NoOrphanClient' /\ OnlyCurrentRelay'
    BY <1>2, <1>3, <1>4 DEF LinkData, NoOrphanClient, OnlyCurrentRelay
  <2> QED
    BY <1>1, <1>2, <2>1 DEF NeverStranded, RetriesOfOneGeneration, StatusTold, RelayStatus, ChecksOfOneEpoch, KeptFn
<1>5. CASE socket' # socket
  <2>1. /\ socket' = [socket EXCEPT ![c] = "connecting"]
        /\ [fn |-> "start_connect", gen |-> t.gen, client |-> c] \in jobs'
    BY <1>5 DEF ResumeKey
  <2>2. NoOrphanClient'
    <3>1. \E u \in jobs' : u.fn \in {"start_connect", "reconnect"} /\ u.client = c
      BY <2>1
    <3>2. \A u \in jobs : u.fn \in {"start_connect", "reconnect"} => u \in jobs' \/ u.client = c
      BY <1>3
    <3> QED
      BY <1>2, <2>1, <3>1, <3>2, CandidateSockets
  <2>3. LinkData' /\ OnlyCurrentRelay'
    BY <1>2, <2>1 DEF LinkData, OnlyCurrentRelay, Sockets
  <2> QED
    BY <1>1, <1>2, <2>2, <2>3 DEF NeverStranded, RetriesOfOneGeneration, StatusTold, RelayStatus, ChecksOfOneEpoch, KeptFn
<1> QED
  BY <1>4, <1>5

\* A candidate that is closed, not published.
LEMMA CandidateGone ==
    ASSUME LinkWeb, NEW t \in jobs, t.fn \in {"start_connect", "reconnect"}, t.client \in Clients,
           jobs' = jobs \ {t},
           socket' \in {CloseClient(t.client), [socket EXCEPT ![t.client] = "unused"]},
           UNCHANGED <<gen, st, relay, listening, active, known, epoch, producer, bridge, disposed, status>>,
           \/ timer' = timer /\ (t.fn = "reconnect" => t.gen # gen)
           \/ timer' = gen /\ t.fn = "reconnect" /\ t.gen = gen
    PROVE  LinkWeb'
<1> USE DEF LinkWeb
<1>1. PICK s \in {"unused", "closing"} : socket' = [socket EXCEPT ![t.client] = s]
  BY DEF CloseClient, LinkData
<1>2. NoOrphanClient'
  <2>1. \A u \in jobs : u.fn \in {"start_connect", "reconnect"} => u \in jobs' \/ u.client = t.client
    OBVIOUS
  <2> QED
    BY <1>1, <2>1, CandidateSockets
<1>3. LinkData' /\ OnlyCurrentRelay'
  BY <1>1 DEF LinkData, OnlyCurrentRelay, Sockets, RetriesOfOneGeneration
<1>4. StatusTold' /\ ChecksOfOneEpoch'
  BY DEF StatusTold, RelayStatus, ChecksOfOneEpoch
<1>5. NeverStranded' /\ RetriesOfOneGeneration'
  BY DEF NeverStranded, RetriesOfOneGeneration
<1> QED
  BY <1>2, <1>3, <1>4, <1>5

LEMMA StartConnectStep ==
    ASSUME LinkWeb, NEW t \in jobs, t \in Tasks, ResumeStartConnect(t)
    PROVE  LinkWeb'
<1> USE DEF LinkWeb
<1>1. t.fn = "start_connect" /\ t.client \in Clients
  BY TaskForms DEF ResumeStartConnect
<1>2. CASE st' = st
  <2>1. ~ (st = "idle" /\ st' = "started")
    BY <1>2
  <2>2. /\ jobs' = jobs \ {t} /\ UNCHANGED <<st, relay, listening, epoch, producer, topology>>
        /\ socket' \in {CloseClient(t.client), [socket EXCEPT ![t.client] = "unused"]}
    BY <2>1 DEF ResumeStartConnect, CurrentCandidate
  <2> QED
    BY <1>1, <2>2, CandidateGone DEF ResumeStartConnect
<1>3. CASE st' # st
  <2>1. /\ CurrentCandidate(t.gen) /\ st' = "started" /\ SetupRelayConnection(t.client)
        /\ epoch' = epoch + 1 /\ producer' = TRUE
        /\ jobs' = (jobs \ {t}) \cup {[fn |-> "start_check", epoch |-> epoch + 1, client |-> t.client]}
        /\ UNCHANGED <<gen, timer, active, known, bridge, disposed, status>>
    BY <1>3 DEF ResumeStartConnect
  <2>2. ~ disposed /\ relay = NoClient /\ timer = 0 /\ st = "idle"
        /\ relay' = t.client /\ listening' = gen /\ socket' = [socket EXCEPT ![t.client] = "open"]
        /\ t.client # NoClient
    BY <1>1, <2>1, LinkAssumption DEF CurrentCandidate, OnlyCurrentRelay, SetupRelayConnection
  <2>3. NoOrphanClient'
    <3>1. \A u \in jobs : u.fn \in {"start_connect", "reconnect"} => u \in jobs' \/ u.client = t.client
      BY <2>1
    <3> QED
      BY <1>1, <2>1, <2>2, <3>1, CandidateSockets
  <2>4. LinkData'
    BY <1>1, <2>1, <2>2 DEF LinkData, Sockets
  <2>5. OnlyCurrentRelay' /\ NeverStranded'
    BY <1>1, <2>1, <2>2 DEF OnlyCurrentRelay, NeverStranded, LinkData
  <2>6. RetriesOfOneGeneration'
    BY <1>1, <2>1, <2>2 DEF RetriesOfOneGeneration
  <2>7. StatusTold'
    BY <1>1, <2>1, <2>2 DEF StatusTold
  <2>8. ChecksOfOneEpoch'
    BY <1>1, <2>1, <2>2 DEF ChecksOfOneEpoch, LinkData
  <2> QED
    BY <2>3, <2>4, <2>5, <2>6, <2>7, <2>8
<1> QED
  BY <1>2, <1>3

LEMMA ReconnectStep ==
    ASSUME LinkWeb, NEW t \in jobs, t \in Tasks, ReconnectFails(t) \/ ReconnectSucceeds(t)
    PROVE  LinkWeb'
<1> USE DEF LinkWeb
<1>1. t.fn = "reconnect" /\ t.client \in Clients /\ t.client # NoClient /\ jobs' = jobs \ {t}
  BY TaskForms, LinkAssumption DEF ReconnectFails, ReconnectSucceeds
<1>2. (CurrentReconnect(t.gen) <=> t.gen = gen) /\ (t.gen = gen => timer = 0)
  BY <1>1 DEF CurrentReconnect, RetriesOfOneGeneration
<1>3. CASE ReconnectFails(t)
  <2>1. IF t.gen = gen THEN timer' = gen ELSE timer' = timer
    BY <1>2, <1>3 DEF ReconnectFails
  <2> QED
    BY <1>1, <1>3, <2>1, CandidateGone DEF ReconnectFails
<1>4. CASE ReconnectSucceeds(t) /\ t.gen # gen
  BY <1>1, <1>2, <1>4, CandidateGone DEF ReconnectSucceeds
<1>5. CASE ReconnectSucceeds(t) /\ t.gen = gen
  <2>1. /\ st = "started" /\ relay = NoClient /\ timer = 0
        /\ relay' = t.client /\ listening' = gen /\ socket' = [socket EXCEPT ![t.client] = "open"]
        /\ bridge' \in {bridge, t.client} /\ status' = "connected"
        /\ UNCHANGED <<gen, st, timer, active, known, epoch, producer, disposed>>
    BY <1>1, <1>2, <1>5 DEF ReconnectSucceeds, SetupRelayConnection, BridgeOver, CurrentReconnect, RetriesOfOneGeneration
  <2>2. NoOrphanClient'
    <3>1. \A u \in jobs : u.fn \in {"start_connect", "reconnect"} => u \in jobs' \/ u.client = t.client
      BY <1>1
    <3> QED
      BY <1>1, <2>1, <3>1, CandidateSockets
  <2>3. LinkData'
    BY <1>1, <2>1 DEF LinkData, Sockets
  <2>4. OnlyCurrentRelay' /\ NeverStranded'
    BY <1>1, <2>1 DEF OnlyCurrentRelay, NeverStranded, LinkData
  <2>5. RetriesOfOneGeneration'
    BY <1>1, <1>5, <2>1 DEF RetriesOfOneGeneration
  <2>6. StatusTold' /\ ChecksOfOneEpoch'
    BY <1>1, <2>1 DEF StatusTold, RelayStatus, ChecksOfOneEpoch
  <2> QED
    BY <2>2, <2>3, <2>4, <2>5, <2>6
<1> QED
  BY <1>3, <1>4, <1>5

LEMMA TimerStep ==
    ASSUME LinkWeb, NEW c \in Clients, ReconnectTimer(c)
    PROVE  LinkWeb'
<1> USE DEF LinkWeb
<1> DEFINE new == [fn |-> "reconnect", gen |-> gen, client |-> c]
<1>1. /\ timer = gen /\ st = "started" /\ relay = NoClient /\ timer' = 0
      /\ jobs' = jobs \cup {new}
      /\ socket' = [socket EXCEPT ![c] = "connecting"]
      /\ UNCHANGED <<gen, st, relay, listening, active, known, epoch, producer, bridge, disposed, status>>
  BY DEF ReconnectTimer, RetriesOfOneGeneration, CurrentReconnect
<1>8. new \in jobs' /\ new.fn = "reconnect" /\ new.gen = gen /\ new.client = c
  BY <1>1
<1>2. NoOrphanClient'
  <2>1. \E u \in jobs' : u.fn \in {"start_connect", "reconnect"} /\ u.client = c
    BY <1>8
  <2>2. \A u \in jobs : u.fn \in {"start_connect", "reconnect"} => u \in jobs' \/ u.client = c
    BY <1>1
  <2> QED
    BY <1>1, <2>1, <2>2, CandidateSockets
<1>3. LinkData'
  BY <1>1 DEF LinkData, Sockets
<1>7. OnlyCurrentRelay'
  BY <1>1 DEF OnlyCurrentRelay
<1>4. NeverStranded'
  BY <1>1, <1>8 DEF NeverStranded
<1>5. StatusTold' /\ ChecksOfOneEpoch'
  BY <1>1 DEF StatusTold, RelayStatus, ChecksOfOneEpoch
<1>6. RetriesOfOneGeneration'
  <2>1. \A t \in jobs : t.fn = "reconnect" => t.gen # gen
    BY <1>1, ReconnectTimer(c) DEF RetriesOfOneGeneration, ReconnectTimer
  <2> QED
    BY <1>1, <2>1 DEF RetriesOfOneGeneration, LinkData
<1> QED
  BY <1>2, <1>3, <1>4, <1>5, <1>6, <1>7

-----------------------------------------------------------------------------
(* Owners, the bridge, and the announcement *)

LEMMA CheckStep ==
    ASSUME LinkWeb, NEW t \in jobs, t \in Tasks, ResumeCheck(t)
    PROVE  LinkWeb'
<1> USE DEF LinkWeb
<1>1. t.fn = "start_check" /\ t.client \in Clients /\ t.client # NoClient /\ jobs' = jobs \ {t}
  BY TaskForms, LinkAssumption DEF ResumeCheck
<1>2. KeptFn("start_connect") /\ KeptFn("reconnect") /\ KeptFn("shutdown")
  BY <1>1 DEF KeptFn
<1>3. UNCHANGED <<gen, st, relay, socket, timer, listening, active, known, epoch, producer, bridge, disposed>>
  BY DEF ResumeCheck
<1>4. NoOrphanClient'
  <2>1. \A c \in Clients : socket'[c] = socket[c] /\ (relay = c => relay' = c)
    BY <1>3
  <2> QED
    BY <1>2, <2>1, SocketsClosed
<1>5. CASE ~ disposed /\ producer /\ t.epoch = epoch /\ relay = t.client
  <2>1. status' = "connected" /\ st = "started" /\ relay # NoClient
    BY <1>1, <1>5 DEF ResumeCheck, LinkData, OnlyCurrentRelay
  <2>2. LinkData' /\ OnlyCurrentRelay' /\ NeverStranded' /\ StatusTold'
    BY <1>3, <2>1 DEF LinkData, OnlyCurrentRelay, NeverStranded, StatusTold, RelayStatus
  <2>3. RetriesOfOneGeneration'
    BY <1>1, <1>3, <2>1 DEF RetriesOfOneGeneration
  <2>4. ChecksOfOneEpoch'
    BY <1>1, <1>2, <1>3, <2>1 DEF ChecksOfOneEpoch, KeptFn
  <2> QED
    BY <1>4, <2>2, <2>3, <2>4
<1>6. CASE ~ (~ disposed /\ producer /\ t.epoch = epoch /\ relay = t.client)
  <2>1. status' = status
    BY <1>6 DEF ResumeCheck
  <2>2. LinkData' /\ OnlyCurrentRelay' /\ NeverStranded' /\ RetriesOfOneGeneration'
    BY <1>2, <1>3, <2>1 DEF LinkData, OnlyCurrentRelay, NeverStranded, RetriesOfOneGeneration, KeptFn
  <2>3. ChecksOfOneEpoch'
    BY <1>1, <1>2, <1>3, <2>1 DEF ChecksOfOneEpoch, KeptFn
  <2>4. StatusTold'
    <3>1. CASE t.epoch = epoch /\ relay = t.client
      <4>1. disposed /\ st = "started"
        BY <1>1, <1>6, <3>1 DEF ChecksOfOneEpoch, LinkData, OnlyCurrentRelay
      <4> QED
        BY <1>2, <4>1 DEF ChecksOfOneEpoch, StatusTold, KeptFn
    <3>2. CASE ~ (t.epoch = epoch /\ relay = t.client)
      BY <1>1, <1>2, <1>3, <2>1, <3>2 DEF StatusTold, RelayStatus, KeptFn
    <3> QED
      BY <3>1, <3>2
  <2> QED
    BY <1>4, <2>2, <2>3, <2>4
<1> QED
  BY <1>5, <1>6

\* A function handling an owner's line resumes.
LEMMA HandlerStep ==
    ASSUME LinkWeb, NEW t \in jobs, t \in Tasks,
           FindKnownPeer(t) \/ ResumeMessage(t) \/ ResumePair(t) \/ ResumePairAdd(t)
    PROVE  LinkWeb'
<1> USE DEF LinkWeb
<1>1. t.fn \in {"message", "pair", "pair_add"} /\ t.owner \in Owners
  BY TaskForms DEF FindKnownPeer, ResumeMessage, ResumePair, ResumePairAdd
<1>2. PICK u : u.fn \in {"message", "pair", "pair_add"} /\ jobs' \in {jobs \ {t}, (jobs \ {t}) \cup {u}}
  <2>1. CASE FindKnownPeer(t)
    <3>1. PICK s \in {"yes", "no"} : jobs' = (jobs \ {t}) \cup {[t EXCEPT !.seen = s]}
      BY <2>1 DEF FindKnownPeer
    <3>2. [t EXCEPT !.seen = s].fn \in {"message", "pair"}
      BY <2>1, ReadTask DEF FindKnownPeer
    <3>3. PICK v : v = [t EXCEPT !.seen = s]
      OBVIOUS
    <3>4. v.fn \in {"message", "pair", "pair_add"} /\ jobs' = (jobs \ {t}) \cup {v}
      BY <3>1, <3>2, <3>3
    <3> QED
      BY <3>4
  <2>2. CASE ResumeMessage(t) \/ ResumePair(t) \/ ResumePairAdd(t)
    BY <1>1, <2>2 DEF ResumeMessage, ResumePair, ResumePairAdd
  <2> QED
    BY <2>1, <2>2
<1>3. KeptFn("start_connect") /\ KeptFn("reconnect") /\ KeptFn("start_check") /\ KeptFn("shutdown")
  BY <1>1, <1>2 DEF KeptFn
<1>4. active' = active \/ (active' = [active EXCEPT ![t.owner] = t.client] /\ t.client = relay)
  BY DEF FindKnownPeer, ResumeMessage, ResumePair, ResumePairAdd, AttachOwner, ListenerAuthority
<1>5. known' \subseteq Owners
  BY <1>1 DEF FindKnownPeer, ResumeMessage, ResumePair, ResumePairAdd, LinkData
<1>6. active' = [o \in Owners |-> active'[o]] /\ \A o \in Owners : active'[o] \in {active[o], NoClient, relay}
  BY <1>4 DEF LinkData
<1>7. UNCHANGED <<gen, st, relay, socket, timer, listening, epoch, producer, status, disposed, bridge>>
  BY DEF FindKnownPeer, ResumeMessage, ResumePair, ResumePairAdd
<1> QED
  BY <1>3, <1>5, <1>6, <1>7, Harmless

LEMMA OwnersStep ==
    ASSUME LinkWeb, OwnerStep
    PROVE  LinkWeb'
<1> USE DEF LinkWeb
<1> DEFINE Kept == KeptFn("start_connect") /\ KeptFn("reconnect") /\ KeptFn("start_check") /\ KeptFn("shutdown")
<1>1. jobs' = jobs => Kept
  BY DEF KeptFn
<1>2. active' = active => active' = [o \in Owners |-> active'[o]]
                         /\ \A o \in Owners : active'[o] \in {active[o], NoClient, relay}
  BY DEF LinkData
<1>3. CASE ProducerSweep \/ MeshJoined
  <2>1. active' = [o \in Owners |-> active'[o]] /\ \A o \in Owners : active'[o] \in {active[o], NoClient, relay}
    BY <1>2, <1>3 DEF ProducerSweep, MeshJoined
  <2>2. /\ UNCHANGED <<gen, st, relay, socket, timer, listening, epoch, producer, status, disposed>>
        /\ known' \subseteq Owners /\ bridge' \in {bridge, relay}
    BY <1>3 DEF ProducerSweep, MeshJoined, BridgeOver, LinkData
  <2>3. Kept
    BY <1>1, <1>3 DEF ProducerSweep, MeshJoined
  <2> QED
    BY <2>1, <2>2, <2>3, Harmless
<1>4. CASE \E o \in Owners : OwnerSends(o) \/ OwnerPairs(o)
  <2>1. Kept
    BY <1>4 DEF OwnerSends, OwnerPairs, KeptFn
  <2>2. /\ UNCHANGED <<gen, st, relay, socket, timer, listening, epoch, producer, status, disposed, bridge, active>>
        /\ known' \subseteq Owners
    BY <1>4 DEF OwnerSends, OwnerPairs, LinkData
  <2> QED
    BY <1>2, <2>1, <2>2, Harmless
<1>5. CASE \E o \in Owners : OwnerRevoked(o) \/ OnPeerDisconnect(o)
  <2>1. PICK o \in Owners : OwnerRevoked(o) \/ OnPeerDisconnect(o)
    BY <1>5
  <2>2. /\ UNCHANGED <<gen, st, relay, socket, timer, listening, epoch, producer, status, disposed, bridge, jobs>>
        /\ known' \subseteq Owners /\ active' = [active EXCEPT ![o] = NoClient]
    BY <2>1 DEF OwnerRevoked, OnPeerDisconnect, LinkData
  <2>3. active' = [p \in Owners |-> active'[p]] /\ \A p \in Owners : active'[p] \in {active[p], NoClient, relay}
    BY <2>2 DEF LinkData
  <2> QED
    BY <1>1, <2>2, <2>3, Harmless
<1> QED
  BY <1>3, <1>4, <1>5 DEF OwnerStep

LEMMA ShutdownStep ==
    ASSUME LinkWeb, ResumeShutdown
    PROVE  LinkWeb'
<1>1. KeptFn("start_connect") /\ KeptFn("reconnect") /\ KeptFn("start_check")
  BY DEF ResumeShutdown, KeptFn
<1> QED
  BY <1>1, IdleStep, GoIdleStep DEF ResumeShutdown, StayIdle, LinkWeb, LinkData

LEMMA RenameStep ==
    ASSUME LinkWeb, NEW t \in jobs, ResumeRename(t)
    PROVE  LinkWeb'
<1> USE DEF LinkWeb
<1>1. KeptFn("start_connect") /\ KeptFn("reconnect") /\ KeptFn("start_check") /\ KeptFn("shutdown")
  BY DEF ResumeRename, KeptFn
<1>2. UNCHANGED <<st, relay, socket, timer, listening, active, known, epoch, producer, bridge, disposed, status>>
  BY DEF ResumeRename
<1>3. CASE st = "idle"
  BY <1>1, <1>2, <1>3, IdleStep DEF ResumeRename
<1>4. CASE st # "idle"
  <2>1. gen' = gen
    BY <1>4 DEF ResumeRename
  <2> QED
    BY <1>1, <1>2, <2>1, Harmless DEF LinkData
<1> QED
  BY <1>3, <1>4

-----------------------------------------------------------------------------
(* The tasks, and the theorem *)

LEMMA TasksStep ==
    ASSUME LinkData, jobs \subseteq Tasks, LinkNext
    PROVE  jobs' \subseteq Tasks
<1>1. CASE Command
  <2>1. gen + 1 \in Nat
    BY DEF LinkData
  <2> QED
    BY <1>1, <2>1, TaskForms, RenameTask DEF Command, CmdStart, CmdStop, RelayOff, RenameAgent, SessionShutdown,
       SessionStart, BeginStart
<1>2. CASE ResumeShutdown
  BY <1>2 DEF ResumeShutdown
<1>3. ASSUME NEW t \in jobs, NEW c \in Clients,
             \/ ResumeKey(t, c) \/ ResumeStartConnect(t) \/ ResumeCheck(t) \/ ResumeRename(t)
      PROVE  jobs' \subseteq Tasks
  <2>1. t \in Tasks /\ gen + 1 \in Nat /\ epoch + 1 \in Nat
    BY DEF LinkData
  <2>2. t.fn = "start_key" => t.gen \in Nat
    BY <2>1, TaskForms
  <2>3. t.fn = "start_connect" => t.client \in Clients
    BY <2>1, TaskForms
  <2> QED
    BY <1>3, <2>1, <2>2, <2>3, TaskForms DEF ResumeKey, ResumeStartConnect, ResumeCheck, ResumeRename
<1>4. ASSUME NEW t \in jobs, FindKnownPeer(t) \/ ResumeMessage(t) \/ ResumePair(t) \/ ResumePairAdd(t)
      PROVE  jobs' \subseteq Tasks
  <2>1. t.fn \in {"message", "pair"} =>
           t.gen \in Nat /\ t.client \in Clients /\ t.owner \in Owners
    BY TaskForms
  <2>2. CASE FindKnownPeer(t)
    <3>1. PICK s \in {"yes", "no"} : jobs' = (jobs \ {t}) \cup {[t EXCEPT !.seen = s]}
      BY <2>2 DEF FindKnownPeer
    <3>2. [t EXCEPT !.seen = s] \in Tasks
      BY <2>2, ReadTask DEF FindKnownPeer
    <3> QED
      BY <3>1, <3>2
  <2>3. CASE ResumePair(t)
    <3>1. [fn |-> "pair_add", gen |-> t.gen, client |-> t.client, owner |-> t.owner] \in Tasks
      BY <2>1, <2>3, TaskForms DEF ResumePair
    <3> QED
      BY <2>3, <3>1 DEF ResumePair
  <2>4. CASE ResumeMessage(t) \/ ResumePairAdd(t)
    BY <2>4 DEF ResumeMessage, ResumePairAdd
  <2> QED
    BY <1>4, <2>2, <2>3, <2>4
<1>5. CASE Reconnecting
  BY <1>5, TaskForms DEF Reconnecting, ReconnectTimer, ReconnectFails, ReconnectSucceeds, LinkData
<1>6. CASE Network
  BY <1>6 DEF Network, GoHalfOpen, Drop, Watchdog, OnRelayClose, ConnectHangs
<1>7. CASE OwnerStep
  <2>1. ASSUME NEW o \in Owners, OwnerSends(o) \/ OwnerPairs(o)
        PROVE  jobs' \subseteq Tasks
    <3>1. relay \in Clients /\ gen \in Nat
      BY <2>1 DEF OwnerSends, OwnerPairs, LinkData
    <3>2. /\ [fn |-> "message", gen |-> gen, client |-> relay, owner |-> o, seen |-> "unread"] \in Tasks
          /\ [fn |-> "pair", gen |-> gen, client |-> relay, owner |-> o, seen |-> "unread"] \in Tasks
      BY <3>1, TaskForms
    <3> QED
      BY <2>1, <3>2 DEF OwnerSends, OwnerPairs
  <2>2. ASSUME NEW o \in Owners, OwnerRevoked(o) \/ OnPeerDisconnect(o) PROVE jobs' \subseteq Tasks
    BY <2>2 DEF OwnerRevoked, OnPeerDisconnect
  <2>3. CASE ProducerSweep \/ MeshJoined
    BY <2>3 DEF ProducerSweep, MeshJoined
  <2> QED
    BY <1>7, <2>1, <2>2, <2>3 DEF OwnerStep
<1>8. CASE ResumeTask
  <2>1. ASSUME NEW t \in jobs, ResumeStartConnect(t) \/ ResumeCheck(t) \/ ResumeRename(t)
        PROVE  jobs' \subseteq Tasks
    <3>1. t \in Tasks /\ epoch + 1 \in Nat /\ gen + 1 \in Nat
      BY DEF LinkData
    <3> QED
      BY <2>1, <3>1, TaskForms DEF ResumeStartConnect, ResumeCheck, ResumeRename
  <2> QED
    BY <1>2, <1>3, <1>4, <1>8, <2>1 DEF ResumeTask
<1> QED
  BY <1>1, <1>5, <1>6, <1>7, <1>8 DEF LinkNext

LEMMA HangStep ==
    ASSUME LinkWeb, NEW c \in Clients, ConnectHangs(c)
    PROVE  LinkWeb'
<1>1. UNCHANGED <<gen, st, relay, socket, timer, jobs, listening, active, known, epoch, producer,
                  bridge, disposed, status>>
  BY DEF ConnectHangs
<1> QED
  BY <1>1 DEF LinkWeb, LinkData, NoOrphanClient, NeverStranded, RetriesOfOneGeneration,
     OnlyCurrentRelay, StatusTold, RelayStatus, ChecksOfOneEpoch

LEMMA WebStep ==
    ASSUME LinkWeb, jobs \subseteq Tasks, LinkNext
    PROVE  LinkWeb'
<1>1. CASE Command \/ OwnerStep \/ ResumeShutdown
  BY <1>1, CommandStep, OwnersStep, ShutdownStep
<1>2. CASE Network
  BY <1>2, NetworkStep, HangStep DEF Network
<1>3. CASE Reconnecting
  BY <1>3, TimerStep, ReconnectStep DEF Reconnecting
<1>4. CASE ResumeTask
  BY <1>1, <1>4, KeyStep, StartConnectStep, CheckStep, RenameStep, HandlerStep DEF ResumeTask
<1> QED
  BY <1>1, <1>2, <1>3, <1>4 DEF LinkNext

LEMMA LinkInitially ==
    ASSUME LinkInit
    PROVE  LinkWeb /\ LinkFlags /\ LinkBudget /\ jobs \subseteq Tasks
<1>1. LinkFlags
  BY Zenon DEF LinkInit, LinkFlags
<1>2. LinkBudget /\ jobs \subseteq Tasks
  BY LinkAssumption DEF LinkInit, LinkBudget
<1>3. LinkWeb
  BY LinkAssumption DEF LinkInit, LinkWeb, LinkData, NoOrphanClient, NeverStranded, RetriesOfOneGeneration,
     OnlyCurrentRelay, StatusTold, ChecksOfOneEpoch, RelayStatus, Detached, Sockets
<1> QED
  BY <1>1, <1>2, <1>3

(***************************************************************************)
(* Whatever is suspended when a command, a lost connection or a session    *)
(* replacement changes relay_lifecycle.ts: no socket is leaked, a relay    *)
(* that is on and not connected has a retry of a generation that will be   *)
(* accepted, owners and the bridge run over the published client only, and *)
(* RPC clients were told the state that is so.                             *)
(***************************************************************************)
THEOREM LinkSafe == LinkSpec => []LinkInv
<1> DEFINE Inductive == LinkWeb /\ LinkFlags /\ LinkBudget /\ jobs \subseteq Tasks
<1>1. LinkInit => Inductive
  BY LinkInitially
<1>2. Inductive /\ [LinkNext]_linkVars => Inductive'
  <2> SUFFICES ASSUME Inductive, [LinkNext]_linkVars PROVE Inductive'
    OBVIOUS
  <2>1. CASE LinkNext
    BY <2>1, WebStep, LinkFlagsStep, BudgetStep, TasksStep DEF LinkWeb
  <2>2. CASE UNCHANGED linkVars
    <3>1. LinkFlags' /\ LinkBudget' /\ (jobs \subseteq Tasks)'
      BY <2>2 DEF linkVars, LinkFlags, LinkBudget
    <3>2. LinkWeb'
      BY <2>2 DEF linkVars, LinkWeb, LinkData, NoOrphanClient, NeverStranded, RetriesOfOneGeneration,
         OnlyCurrentRelay, StatusTold, ChecksOfOneEpoch, RelayStatus
    <3> QED
      BY <3>1, <3>2
  <2> QED
    BY <2>1, <2>2
<1>3. Inductive => LinkInv
  BY LinkTypesSplit DEF LinkWeb, LinkInv
<1> QED
  BY <1>1, <1>2, <1>3, PTL DEF LinkSpec
=============================================================================
