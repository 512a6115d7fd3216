----------------------------- MODULE OwnerTrust -----------------------------
(***************************************************************************)
(* Which Owners this machine trusts: the pairing records of peers.json     *)
(* (pairing/storage.ts), the pair request that adds one                    *)
(* (session/relay_lifecycle.ts, pairing/qr.ts), and SelfRevoke             *)
(* (mesh/self_revoke.ts), whose sweeps fetch each Owner's signed           *)
(* membership and remove the records of an Owner that has dropped this     *)
(* machine.  Storage mutations of one process run one at a time; between   *)
(* two awaits of a sweep anything else may run.  A record of another       *)
(* process is only ever removed here: storage.ts makes no promise about a  *)
(* re-pair in another process.                                             *)
(***************************************************************************)
EXTENDS Naturals, FiniteSets, Sequences, Functions

CONSTANTS
    Principals,     \* Owners
    Spellings,      \* spellings an Owner's key may have in peers.json; 1 is the usual one
    MaxVersions,    \* membership lists an Owner signs
    MaxPairings,    \* pair requests over a behaviour
    MaxMishaps      \* failed storage operations, foreign removals, new producers

ASSUME TrustAssumption ==
    /\ IsFiniteSet(Principals) /\ 1 \in Spellings /\ Spellings \subseteq Nat
    /\ MaxVersions \in Nat /\ MaxPairings \in Nat /\ MaxMishaps \in Nat

Handles == Principals \X Spellings
HandlesOf(o) == {h \in Handles : h[1] = o}

VARIABLES
    records,    \* peers.json: the raw handles in it
    slotToken,  \* _ownerSlotTokens
    signed,     \* per Owner, for each version it signed: is this machine a member?
    floor,      \* lastSeenVersion, 0 for none
    memberAt,   \* version of the membershipByOwner entry, 0 for none
    pendingRev, \* pendingRevocations
    authority,  \* lifecycleGeneration
    sweep,      \* the sweep in flight
    again,      \* requestFreshCheck waits for it
    published,  \* Owners in previousTopology
    qr,         \* the one pairing token
    asking,     \* Owners whose pair request is in flight, and how far
    serial,     \* history: which pairing a record stems from
    due,        \* history: a revocation was signed after the Owner's last pairing
    pairings, mishaps

trustVars == <<records, slotToken, signed, floor, memberAt, pendingRev, authority, sweep,
               again, published, qr, asking, serial, due, pairings, mishaps>>

NoSweep == [at |-> "none"]
NotStarted == [at |-> "off"]
NoPending == [none |-> TRUE]
SweepSteps == {"snap", "fetch", "remove", "removed", "publish"}

TrustTypeOK ==
    /\ records \subseteq Handles
    /\ slotToken \in [Principals -> Nat] /\ serial \in [Handles -> Nat]
    /\ \A o \in Principals : Len(signed[o]) <= MaxVersions
    /\ floor \in [Principals -> 0 .. MaxVersions]
    /\ memberAt \in [Principals -> 0 .. MaxVersions]
    /\ \A o \in Principals : pendingRev[o] = NoPending \/ DOMAIN pendingRev[o].toks \subseteq HandlesOf(o)
    /\ authority \in Nat /\ (sweep \in {NoSweep, NotStarted} \/ sweep.at \in SweepSteps)
    /\ again \in BOOLEAN /\ published \subseteq Principals
    /\ qr \in {"none", "fresh", "consumed"}
    /\ asking \in [Principals -> {"no", "lookup", "adding"}]
    /\ due \in [Principals -> BOOLEAN]
    /\ pairings \in 0 .. MaxPairings /\ mishaps \in 0 .. MaxMishaps

TrustInit ==
    /\ records \in SUBSET Handles
    /\ slotToken = [o \in Principals |-> 0] /\ serial = [h \in Handles |-> 0]
    /\ signed = [o \in Principals |-> <<TRUE>>]
    /\ floor = [o \in Principals |-> 0] /\ memberAt = [o \in Principals |-> 0]
    /\ pendingRev = [o \in Principals |-> NoPending]
    /\ authority = 0 /\ sweep = NotStarted /\ again = FALSE /\ published = {}
    /\ qr = "none" /\ asking = [o \in Principals |-> "no"]
    /\ due = [o \in Principals |-> FALSE]
    /\ pairings = MaxPairings /\ mishaps = MaxMishaps

Mishap == mishaps > 0 /\ mishaps' = mishaps - 1

pairingVars == <<qr, asking, pairings>>
producerVars == <<floor, memberAt, pendingRev, published>>
historyVars == <<serial, due>>

-----------------------------------------------------------------------------
(* Pairing *)

(* QRSession.issueToken: the previous token is forgotten. *)
issueToken ==
    /\ qr # "fresh" /\ pairings > 0
    /\ qr' = "fresh"
    /\ UNCHANGED <<records, slotToken, signed, producerVars, authority, sweep, again,
                   asking, historyVars, pairings, mishaps>>

(* The token's lifetime is over, or another was issued: consumeToken refuses it. *)
tokenExpires ==
    /\ qr = "fresh" /\ qr' = "none"
    /\ UNCHANGED <<records, slotToken, signed, producerVars, authority, sweep, again,
                   asking, historyVars, pairings, mishaps>>

(* _handlePairRequest starts with _findKnownPeer, which reads peers.json. *)
PairRequest(o) ==
    /\ asking[o] = "no" /\ pairings > 0 /\ pairings' = pairings - 1
    /\ asking' = [asking EXCEPT ![o] = "lookup"]
    /\ UNCHANGED <<records, slotToken, signed, producerVars, authority, sweep, again,
                   qr, historyVars, mishaps>>

(***************************************************************************)
(* A known Owner is confirmed without a token; an unknown one consumes the *)
(* token, and the sweep in flight loses its authority before addPeer is    *)
(* queued.                                                                 *)
(***************************************************************************)
PairLookup(o) ==
    /\ asking[o] = "lookup"
    /\ IF HandlesOf(o) \cap records # {} \/ qr # "fresh"
       THEN asking' = [asking EXCEPT ![o] = "no"] /\ UNCHANGED <<qr, authority>>
       ELSE /\ qr' = "consumed"
            /\ asking' = [asking EXCEPT ![o] = "adding"]
            /\ authority' = authority + 1
    /\ UNCHANGED <<records, slotToken, signed, producerVars, sweep, again, historyVars,
                   pairings, mishaps>>

(* addPeer, then requestFreshCheck. *)
addPeer(o) ==
    /\ asking[o] = "adding"
    /\ asking' = [asking EXCEPT ![o] = "no"]
    /\ \/ /\ records' = records \cup {<<o, 1>>}
          /\ slotToken' = [slotToken EXCEPT ![o] = @ + 1]
          /\ serial' = [serial EXCEPT ![<<o, 1>>] = @ + 1]
          /\ due' = [due EXCEPT ![o] = FALSE]
          /\ again' = TRUE
          /\ UNCHANGED mishaps
       \/ Mishap /\ UNCHANGED <<records, slotToken, historyVars, again>>
    /\ UNCHANGED <<signed, producerVars, authority, sweep, qr, pairings>>

(* _cmdRevoke: removePeer of one exact handle; no authority is invalidated. *)
removePeer(h) ==
    /\ h \in records
    /\ records' = records \ {h}
    /\ slotToken' = [slotToken EXCEPT ![h[1]] = @ + 1]
    /\ UNCHANGED <<signed, producerVars, authority, sweep, again, pairingVars,
                   historyVars, mishaps>>

(* Another process of the machine removes the record: this one's token stays. *)
ForeignRemove(h) ==
    /\ h \in records /\ Mishap
    /\ records' = records \ {h}
    /\ UNCHANGED <<slotToken, signed, producerVars, authority, sweep, again, pairingVars,
                   historyVars>>

(* An Owner signs its next membership list. *)
Sign(o, member) ==
    /\ Len(signed[o]) < MaxVersions
    /\ signed' = [signed EXCEPT ![o] = Append(@, member)]
    /\ due' = [due EXCEPT ![o] = ~ member /\ HandlesOf(o) \cap records # {}]
    /\ UNCHANGED <<records, slotToken, producerVars, authority, sweep, again, pairingVars,
                   serial, mishaps>>

-----------------------------------------------------------------------------
(* SelfRevoke *)

HasAuthority == sweep.gen = authority

(* start(): the first sweep at once, the others on the timer. *)
start ==
    /\ sweep = NotStarted
    /\ sweep' = [at |-> "snap", gen |-> authority]
    /\ UNCHANGED <<records, slotToken, signed, producerVars, authority, again, pairingVars,
                   historyVars, mishaps>>

(* checkOnce, on the timer or after a pairing; one sweep at a time. *)
checkOnce ==
    /\ sweep = NoSweep
    /\ sweep' = [at |-> "snap", gen |-> authority]
    /\ again' = FALSE
    /\ UNCHANGED <<records, slotToken, signed, producerVars, authority, pairingVars,
                   historyVars, mishaps>>

(* Any await of a sweep that has lost its authority ends it. *)
SweepStale ==
    /\ sweep.at \in SweepSteps /\ ~ HasAuthority
    /\ sweep' = NoSweep
    /\ UNCHANGED <<records, slotToken, signed, producerVars, authority, again,
                   pairingVars, historyVars, mishaps>>

NextOwner(left) ==
    IF left = {} THEN [at |-> "publish", gen |-> sweep.gen]
    ELSE [at |-> "fetch", gen |-> sweep.gen, left |-> left, toks |-> sweep.toks,
          seen |-> sweep.seen]

(* The sweep turns to the pending revocation of o. *)
Removals(o, left) ==
    [at |-> "remove", gen |-> sweep.gen, left |-> left, toks |-> sweep.toks,
     seen |-> sweep.seen, owner |-> o]

(* The removal of h has been awaited; hit tells whether there was a record. *)
Removed(h) ==
    [at |-> "removed", gen |-> sweep.gen, left |-> sweep.left, toks |-> sweep.toks,
     seen |-> sweep.seen, owner |-> sweep.owner, handle |-> h, hit |-> h \in records]

Present == {h[1] : h \in records}

(* _pruneStateNotIn: what belongs to Owners no longer in the file is forgotten. *)
Pruned(f, empty) == [o \in Principals |-> IF o \in Present THEN f[o] ELSE empty]

(* snapshotOwnerPubkeys: the tokens of the records there are. *)
Snapshot ==
    /\ sweep.at = "snap" /\ HasAuthority
    /\ pendingRev' = Pruned(pendingRev, NoPending)
    /\ memberAt' = Pruned(memberAt, 0) /\ floor' = Pruned(floor, 0)
    /\ sweep' = IF Present = {} THEN [at |-> "publish", gen |-> sweep.gen]
                ELSE [at |-> "fetch", gen |-> sweep.gen, left |-> Present,
                      toks |-> [h \in records |-> slotToken[h[1]]],
                      seen |-> [h \in records |-> serial[h]]]
    /\ UNCHANGED <<records, slotToken, signed, authority, again, published, pairingVars,
                   historyVars, mishaps>>

(* peers.json cannot be read: the topology known so far is published. *)
SnapshotFails ==
    /\ sweep.at = "snap" /\ HasAuthority /\ Mishap
    /\ sweep' = [at |-> "publish", gen |-> sweep.gen]
    /\ UNCHANGED <<records, slotToken, signed, producerVars, authority, again,
                   pairingVars, historyVars>>

(* No usable envelope: 304 or 404, unavailable, or an answer that is refused. *)
FetchNothing(o) ==
    /\ sweep.at = "fetch" /\ HasAuthority /\ o \in sweep.left
    /\ sweep' = IF pendingRev[o] = NoPending THEN NextOwner(sweep.left \ {o})
                ELSE Removals(o, sweep.left \ {o})
    /\ UNCHANGED <<records, slotToken, signed, producerVars, authority, again,
                   pairingVars, historyVars, mishaps>>

(* An invalid response, envelope or slot: the membership is dropped as well. *)
FetchInvalid(o) ==
    /\ sweep.at = "fetch" /\ HasAuthority /\ o \in sweep.left
    /\ Mishap
    /\ memberAt' = [memberAt EXCEPT ![o] = 0]
    /\ sweep' = IF pendingRev[o] = NoPending THEN NextOwner(sweep.left \ {o})
                ELSE Removals(o, sweep.left \ {o})
    /\ UNCHANGED <<records, slotToken, signed, floor, pendingRev, published, authority,
                   again, pairingVars, historyVars>>

(* A newer list with this machine on it supersedes an older pending revocation. *)
FetchMember(o, v) ==
    /\ sweep.at = "fetch" /\ HasAuthority /\ o \in sweep.left
    /\ v \in DOMAIN signed[o] /\ v > floor[o] /\ signed[o][v]
    /\ pendingRev' = [pendingRev EXCEPT ![o] = NoPending]
    /\ floor' = [floor EXCEPT ![o] = v] /\ memberAt' = [memberAt EXCEPT ![o] = v]
    /\ sweep' = NextOwner(sweep.left \ {o})
    /\ UNCHANGED <<records, slotToken, signed, published, authority, again, pairingVars,
                   historyVars, mishaps>>

(* A newer list without this machine: every record of the snapshot is to go. *)
FetchRevoked(o, v) ==
    /\ sweep.at = "fetch" /\ HasAuthority /\ o \in sweep.left
    /\ v \in DOMAIN signed[o] /\ v > floor[o] /\ ~ signed[o][v]
    /\ floor' = [floor EXCEPT ![o] = v] /\ memberAt' = [memberAt EXCEPT ![o] = 0]
    /\ LET mine == HandlesOf(o) \cap DOMAIN sweep.toks
       IN  pendingRev' = [pendingRev EXCEPT ![o] =
               [prev |-> floor[o], toks |-> Restrict(sweep.toks, mine),
                seen |-> Restrict(sweep.seen, mine)]]
    /\ sweep' = Removals(o, sweep.left \ {o})
    /\ UNCHANGED <<records, slotToken, signed, published, authority, again, pairingVars,
                   historyVars, mishaps>>

Removing(h) ==
    /\ sweep.at = "remove" /\ HasAuthority
    /\ h \in DOMAIN pendingRev[sweep.owner].toks

(* Mutated form of conditionalRemovePeer: the token is not compared. *)
removePeerOfSweep(h) ==
    /\ Removing(h)
    /\ records' = records \ {h}
    /\ slotToken' = IF h \in records THEN [slotToken EXCEPT ![h[1]] = @ + 1] ELSE slotToken
    /\ sweep' = Removed(h)
    /\ UNCHANGED <<signed, producerVars, authority, again, pairingVars, historyVars, mishaps>>

(***************************************************************************)
(* conditionalRemovePeer with the token of the snapshot: token, authority  *)
(* and the synchronous write are one step.                                 *)
(***************************************************************************)
conditionalRemovePeer(h) ==
    LET o == h[1]
    IN  /\ Removing(h) /\ pendingRev[o].toks[h] = slotToken[o]
        /\ records' = records \ {h}
        /\ slotToken' = IF h \in records THEN [slotToken EXCEPT ![o] = @ + 1] ELSE slotToken
        /\ sweep' = Removed(h)
        /\ UNCHANGED <<signed, producerVars, authority, again, pairingVars, historyVars,
                       mishaps>>

(***************************************************************************)
(* Its continuation, if the authority is still there: the other spellings  *)
(* go on with the token the removal made.                                  *)
(***************************************************************************)
RecordRemoved ==
    /\ sweep.at = "removed" /\ HasAuthority
    /\ LET o == sweep.owner
           p == pendingRev[o]
           rest == DOMAIN p.toks \ {sweep.handle}
       IN  /\ pendingRev' = [pendingRev EXCEPT ![o] =
                 IF rest = {} THEN NoPending
                 ELSE [p EXCEPT !.toks = [g \in rest |->
                          IF sweep.hit THEN slotToken[o] ELSE @[g]]]]
           /\ sweep' = IF rest = {} THEN NextOwner(sweep.left)
                       ELSE Removals(o, sweep.left)
    /\ UNCHANGED <<records, slotToken, signed, floor, memberAt, published, authority, again,
                   pairingVars, historyVars, mishaps>>

(* Mutated form of RemovalStale: the floor of the dropped revocation is kept. *)
RemovalStaleKeepsFloor(h) ==
    /\ Removing(h) /\ pendingRev[h[1]].toks[h] # slotToken[h[1]]
    /\ pendingRev' = [pendingRev EXCEPT ![h[1]] = NoPending]
    /\ sweep' = NoSweep
    /\ UNCHANGED <<records, slotToken, signed, floor, memberAt, published, authority, again,
                   pairingVars, historyVars, mishaps>>

(* The slot changed hands: the revocation and its floor are forgotten. *)
RemovalStale(h) ==
    LET o == h[1]
    IN  /\ Removing(h) /\ pendingRev[o].toks[h] # slotToken[o]
        /\ pendingRev' = [pendingRev EXCEPT ![o] = NoPending]
        /\ floor' = [floor EXCEPT ![o] = pendingRev[o].prev]
        /\ sweep' = NoSweep
        /\ UNCHANGED <<records, slotToken, signed, memberAt, published, authority, again,
                       pairingVars, historyVars, mishaps>>

(* The storage throws: what is pending stays pending. *)
RemovalFails(h) ==
    /\ Removing(h) /\ Mishap
    /\ sweep' = NextOwner(sweep.left)
    /\ UNCHANGED <<records, slotToken, signed, producerVars, authority, again,
                   pairingVars, historyVars>>

(* buildTopologySnapshot, as far as whose memberships it is made of. *)
Topology == {o \in Principals : memberAt[o] > 0}

(* _publishTopology, and the end of the sweep. *)
Publish ==
    /\ sweep.at = "publish" /\ HasAuthority
    /\ published' = Topology
    /\ sweep' = NoSweep
    /\ UNCHANGED <<records, slotToken, signed, floor, memberAt, pendingRev, authority,
                   again, pairingVars, historyVars, mishaps>>

(* stop(), and a new SelfRevoke with the next relay session. *)
NewProducer ==
    /\ sweep # NotStarted /\ Mishap
    /\ authority' = authority + 1
    /\ sweep' = NoSweep /\ again' = FALSE
    /\ floor' = [o \in Principals |-> 0] /\ memberAt' = [o \in Principals |-> 0]
    /\ pendingRev' = [o \in Principals |-> NoPending] /\ published' = {}
    /\ UNCHANGED <<records, slotToken, signed, pairingVars, historyVars>>

SweepStep ==
    \/ SweepStale \/ Snapshot \/ Publish
    \/ \E o \in Principals : 
          \/ FetchNothing(o)
          \/ \E v \in 1 .. MaxVersions : FetchMember(o, v) \/ FetchRevoked(o, v)
    \/ RecordRemoved
    \/ \E h \in Handles : conditionalRemovePeer(h) \/ RemovalStale(h)

TrustNext ==
    \/ issueToken \/ tokenExpires \/ start \/ checkOnce
    \/ \E o \in Principals :
          \/ PairRequest(o) \/ PairLookup(o) \/ addPeer(o) \/ FetchInvalid(o)
          \/ \E member \in BOOLEAN : Sign(o, member)
    \/ \E h \in Handles : removePeer(h) \/ ForeignRemove(h) \/ RemovalFails(h)
    \/ SweepStep \/ SnapshotFails \/ NewProducer

TrustSpec == TrustInit /\ [][TrustNext]_trustVars

(* The sweep timer ticks and its awaits settle; the relay has the newest list. *)
TrustFairness ==
    /\ WF_trustVars(checkOnce) /\ WF_trustVars(SweepStep)
    /\ \A o \in Principals :
          SF_trustVars(FetchRevoked(o, Len(signed[o])))

-----------------------------------------------------------------------------
(* Properties *)

(***************************************************************************)
(* A sweep removes a record only if it is the one the revocation was about *)
(* when its Owner was looked up: a delayed revocation never takes away a   *)
(* pairing made since in this process, however removals, re-pairings,      *)
(* failed writes and restarts of the producer come in between.             *)
(***************************************************************************)
RepairKept ==
    [][\A h \in records \ records' :
          sweep.at = "remove" /\ h[1] = sweep.owner /\ sweep' # sweep
             => pendingRev[h[1]].seen[h] = serial[h]]_trustVars

(***************************************************************************)
(* An Owner's list that drops this machine, signed after its last pairing, *)
(* is applied once the producer runs: its records go, whatever fails on    *)
(* the way.                                                                *)
(***************************************************************************)
RevocationApplied == TrustFairness =>
    \A o \in Principals :
        (due[o] /\ sweep # NotStarted) ~> (~ due[o] \/ HandlesOf(o) \cap records = {})
==============================================================================
