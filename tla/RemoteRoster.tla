---------------------------- MODULE RemoteRoster ----------------------------
(***************************************************************************)
(* How the brokers of two machines learn each other's peers: the control   *)
(* frames peers_request and peers_update of session/broker_remote.ts, the  *)
(* cache they fill, its time to live, and the topology that says whose     *)
(* frames count.  Frames travel through the relay in order and may be      *)
(* lost; PiForwardClient drops what it cannot send without telling anyone. *)
(***************************************************************************)
EXTENDS Naturals, Sequences, FiniteSets

CONSTANTS
    Sites,      \* machines, by public key
    Peers,      \* addresses a local roster may hold
    Labels,     \* routing aliases
    MaxWire,    \* MAX_PEER_ROSTER: how many peers a frame may carry
    MaxQueue,   \* frames under way between two machines
    MaxChanges  \* changes of rosters, topologies and bridges, and losses

ASSUME RosterAssumption ==
    /\ IsFiniteSet(Sites) /\ IsFiniteSet(Peers) /\ IsFiniteSet(Labels)
    /\ MaxWire \in Nat /\ MaxQueue \in Nat \ {0} /\ MaxChanges \in Nat

VARIABLES
    roster,     \* Broker.localPeerInfos() of each machine
    told,       \* the roster's last change was announced, or needs no announcing
    life,       \* lifecycle of the machine's current BrokerRemote, "none" before the first
    alias,      \* routing.siblingByPubkey: the alias of each sibling
    cache,      \* remotePeers
    owed,       \* topologyRefreshNeeded
    fills,      \* pendingFills
    net,        \* control frames from one machine to another
    changes     \* what is left of MaxChanges

rosterVars == <<roster, told, life, alias, cache, owed, fills, net, changes>>

NoSibling == "no sibling"
Empty == [known |-> FALSE, peers |-> {}]
Cached(S) == [known |-> TRUE, peers |-> S]
Pairs == Sites \X Sites

RosterTypeOK ==
    /\ roster \in [Sites -> SUBSET Peers]
    /\ told \in [Sites -> BOOLEAN]
    /\ life \in [Sites -> {"none", "dormant", "active", "detached"}]
    /\ alias \in [Sites -> [Sites -> Labels \cup {NoSibling}]]
    /\ cache \in [Sites -> [Sites -> [known : BOOLEAN, peers : SUBSET Peers]]]
    /\ owed \in [Sites -> SUBSET Sites] /\ fills \in [Sites -> SUBSET Sites]
    /\ \A pq \in Pairs : Len(net[pq]) <= MaxQueue
    /\ changes \in 0 .. MaxChanges

Siblings(p) == {q \in Sites : alias[p][q] # NoSibling}

(* isBoundedPeerRoster and isBoundedPeerAddresses, what _localPeersBody throws on. *)
Bounded(S) == Cardinality(S) <= MaxWire

Request == [type |-> "peers_request", peers |-> {}]
Update(S) == [type |-> "peers_update", peers |-> S]

(* _sendControlEnvelope: best effort; what does not fit the queue is lost. *)
Queued(q, fs) == IF Len(q) + Len(fs) <= MaxQueue THEN q \o fs ELSE q

SendAll(p, T, fs) ==
    net' = [pq \in Pairs |-> IF pq[1] = p /\ pq[2] \in T THEN Queued(net[pq], fs) ELSE net[pq]]

(* buildRoutingState: a sibling is never the machine itself, aliases are distinct. *)
RoutingStates(p) ==
    {f \in [Sites -> Labels \cup {NoSibling}] :
        /\ f[p] = NoSibling
        /\ \A q, r \in Sites : q # r /\ f[q] # NoSibling => f[q] # f[r]}

RosterInit ==
    /\ roster = [p \in Sites |-> {}]
    /\ told = [p \in Sites |-> TRUE]
    /\ life = [p \in Sites |-> "none"]
    /\ alias \in {f \in [Sites -> [Sites -> Labels \cup {NoSibling}]] :
                    \A p \in Sites : f[p] \in RoutingStates(p)}
    /\ cache = [p \in Sites |-> [q \in Sites |-> Empty]]
    /\ owed = [p \in Sites |-> {}] /\ fills = [p \in Sites |-> {}]
    /\ net = [pq \in Pairs |-> <<>>]
    /\ changes = MaxChanges

Change == changes > 0 /\ changes' = changes - 1

-----------------------------------------------------------------------------
(* _bootstrapWithSiblings: ask every sibling, and tell it. *)
Bootstrap(p) == SendAll(p, Siblings(p), <<Request, Update(roster[p])>>)

(* activate(): a roster that does not fit the wire undoes it for good. *)
Activate(p) ==
    /\ life[p] = "dormant"
    /\ IF Bounded(roster[p])
       THEN /\ Bootstrap(p)
            /\ life' = [life EXCEPT ![p] = "active"]
            /\ owed' = [owed EXCEPT ![p] = {}]
       ELSE /\ life' = [life EXCEPT ![p] = "detached"]
            /\ UNCHANGED <<net, owed>>
    /\ UNCHANGED <<roster, told, alias, cache, fills, changes>>

Built(p) == life[p] \in {"dormant", "active"}

DetachRemote(p) ==
    /\ Built(p) /\ Change
    /\ life' = [life EXCEPT ![p] = "detached"]
    /\ owed' = [owed EXCEPT ![p] = {}] /\ fills' = [fills EXCEPT ![p] = {}]
    /\ UNCHANGED <<roster, told, alias, cache, net>>

(* The mesh node attaches its first bridge, on the topology it has. *)
Construct(p) ==
    /\ life[p] = "none"
    /\ life' = [life EXCEPT ![p] = "dormant"]
    /\ UNCHANGED <<roster, told, alias, cache, owed, fills, net, changes>>

(* It builds another BrokerRemote on the topology it retained. *)
Rebuild(p) ==
    /\ life[p] = "detached"
    /\ life' = [life EXCEPT ![p] = "dormant"]
    /\ cache' = [cache EXCEPT ![p] = [q \in Sites |-> Empty]]
    /\ UNCHANGED <<roster, told, alias, owed, fills, net, changes>>

(***************************************************************************)
(* setTopology: what is known of machines that are no longer siblings is   *)
(* dropped first; then new and relabelled siblings, and those whose last   *)
(* refresh failed, are asked and told.  The refresh fails when the local   *)
(* roster does not fit the wire, and is owed.                              *)
(***************************************************************************)
SetRouting(p, f) ==
    /\ Built(p) /\ Change
    /\ f \in RoutingStates(p) /\ f # alias[p]
    /\ alias' = [alias EXCEPT ![p] = f]
    /\ cache' = [cache EXCEPT ![p] =
          [q \in Sites |-> IF f[q] = NoSibling THEN Empty ELSE @[q]]]
    /\ fills' = [fills EXCEPT ![p] = {q \in @ : f[q] # NoSibling}]
    /\ LET kept == {q \in owed[p] : f[q] # NoSibling}
           refresh == kept \cup {q \in Sites : f[q] # NoSibling /\ f[q] # alias[p][q]}
       IN  IF life[p] = "active" /\ Bounded(roster[p])
           THEN /\ SendAll(p, refresh, <<Request, Update(roster[p])>>)
                /\ owed' = [owed EXCEPT ![p] = kept \ refresh]
           ELSE /\ owed' = [owed EXCEPT ![p] = IF life[p] = "active" THEN refresh ELSE kept]
                /\ UNCHANGED net
    /\ UNCHANGED <<roster, told, life>>

(* Mutated form of Reannounce: only after a refresh that failed. *)
ReannounceOwed(p) ==
    /\ life[p] = "active" /\ owed[p] # {}
    /\ Bounded(roster[p])
    /\ Bootstrap(p)
    /\ owed' = [owed EXCEPT ![p] = {}]
    /\ UNCHANGED <<roster, told, life, alias, cache, fills, changes>>

(* The interval timer of an active bridge. *)
Reannounce(p) ==
    /\ life[p] = "active" /\ Siblings(p) # {}
    /\ Bounded(roster[p])
    /\ Bootstrap(p)
    /\ owed' = [owed EXCEPT ![p] = {}]
    /\ UNCHANGED <<roster, told, life, alias, cache, fills, changes>>

(* A local agent joins or leaves; the leader hears of it and asks its broker. *)
LocalPeersChange(p, S) ==
    /\ S # roster[p] /\ Change
    /\ roster' = [roster EXCEPT ![p] = S]
    /\ told' = [told EXCEPT ![p] = FALSE]
    /\ UNCHANGED <<life, alias, cache, owed, fills, net>>

OnLocalPeersChanged(p) ==
    /\ ~ told[p]
    /\ told' = [told EXCEPT ![p] = TRUE]
    /\ IF life[p] = "active" /\ Bounded(roster[p])
       THEN SendAll(p, Siblings(p), <<Update(roster[p])>>)
       ELSE UNCHANGED net
    /\ UNCHANGED <<roster, life, alias, cache, owed, fills, changes>>

(* Mutated form of Heard: any machine's frames count. *)
HeardFromAnyone(p, q) == life[p] = "active" /\ p # q

(* Only an active bridge listens, and only to a current sibling. *)
Heard(p, q) == life[p] = "active" /\ q \in Siblings(p)

(***************************************************************************)
(* handleIncoming of a control frame that is heard or not.  An update      *)
(* fills the cache and releases its waiters; a request is answered with    *)
(* the roster of the moment, if it fits.                                   *)
(***************************************************************************)
HandleControl(q, p) ==
    LET f == Head(net[<<q, p>>])
        rest == [net EXCEPT ![<<q, p>>] = Tail(@)]
        heard == Heard(p, q)
    IN  /\ net[<<q, p>>] # <<>>
        /\ \/ /\ heard /\ f.type = "peers_update"
              /\ cache' = [cache EXCEPT ![p][q] = Cached(f.peers)]
              /\ fills' = [fills EXCEPT ![p] = @ \ {q}]
              /\ net' = rest
           \/ /\ heard /\ f.type = "peers_request" /\ Bounded(roster[p])
              /\ net' = [rest EXCEPT ![<<p, q>>] = Queued(@, <<Update(roster[p])>>)]
              /\ UNCHANGED <<cache, fills>>
           \/ /\ ~ heard \/ (f.type = "peers_request" /\ ~ Bounded(roster[p]))
              /\ net' = rest
              /\ UNCHANGED <<cache, fills>>
        /\ UNCHANGED <<roster, told, life, alias, owed, changes>>

(* The relay or a link loses the frame. *)
LoseControl(q, p) ==
    /\ net[<<q, p>>] # <<>> /\ Change
    /\ net' = [net EXCEPT ![<<q, p>>] = Tail(@)]
    /\ UNCHANGED <<roster, told, life, alias, cache, owed, fills>>

(* _remoteInfosByPubkey meets an entry older than CACHE_TTL_MS. *)
ExpireCache(p, q) ==
    /\ cache[p][q].known /\ Change
    /\ cache' = [cache EXCEPT ![p][q] = Empty]
    /\ UNCHANGED <<roster, told, life, alias, owed, fills, net>>

(* _routeToCanonicalSibling of a message finds nothing cached. *)
FillOnRoute(p, q) ==
    /\ life[p] = "active" /\ q \in Siblings(p)
    /\ ~ cache[p][q].known
    /\ Change
    /\ SendAll(p, {q}, <<Request>>)
    /\ fills' = [fills EXCEPT ![p] = @ \cup {q}]
    /\ UNCHANGED <<roster, told, life, alias, cache, owed>>

FillTimeout(p, q) ==
    /\ q \in fills[p]
    /\ fills' = [fills EXCEPT ![p] = @ \ {q}]
    /\ UNCHANGED <<roster, told, life, alias, cache, owed, net, changes>>

RosterNext ==
    \E p \in Sites :
        \/ Construct(p) \/ Activate(p) \/ DetachRemote(p) \/ Rebuild(p)
        \/ Reannounce(p) \/ OnLocalPeersChanged(p)
        \/ \E f \in RoutingStates(p) : SetRouting(p, f)
        \/ \E S \in SUBSET Peers : LocalPeersChange(p, S)
        \/ \E q \in Sites : HandleControl(q, p) \/ LoseControl(q, p)
              \/ ExpireCache(p, q) \/ FillOnRoute(p, q) \/ FillTimeout(p, q)

RosterSpec == RosterInit /\ [][RosterNext]_rosterVars

(* Interval timers fire, notices are handled, and the relay delivers. *)
RosterFairness ==
    \A p \in Sites :
        /\ WF_rosterVars(Activate(p)) /\ WF_rosterVars(Rebuild(p))
        /\ WF_rosterVars(Reannounce(p)) /\ WF_rosterVars(OnLocalPeersChanged(p))
        /\ \A q \in Sites :
              WF_rosterVars(HandleControl(q, p)) /\ WF_rosterVars(FillTimeout(p, q))

-----------------------------------------------------------------------------
(* Properties *)

(***************************************************************************)
(* Nothing is known, awaited or owed of a machine that is not a sibling    *)
(* now: an update under way while it was removed does not bring it back.   *)
(***************************************************************************)
OnlySiblingsKnown ==
    \A p, q \in Sites :
        /\ cache[p][q].known => alias[p][q] # NoSibling
        /\ q \in owed[p] \cup fills[p] => alias[p][q] # NoSibling /\ Built(p)

(* A bridge whose own roster does not fit the wire does not come up at all. *)
Mutual(p, q) ==
    /\ life[p] # "none" /\ life[q] # "none"
    /\ q \in Siblings(p) /\ p \in Siblings(q)
    /\ Bounded(roster[p]) /\ Bounded(roster[q])

(***************************************************************************)
(* Machines that stay each other's siblings end up with the other's        *)
(* roster: lost frames, expiry, rebuilt bridges and asymmetric topologies  *)
(* only delay it, and no older update overtakes a newer one for good.      *)
(***************************************************************************)
RosterConverges == RosterFairness =>
    \A p, q \in Sites : p # q =>
        (<>[]Mutual(p, q) => <>[](cache[p][q] = Cached(roster[q])))
==============================================================================
