------------------------------ MODULE HostProofs ------------------------------
(***************************************************************************)
(* Theorems about what the sessions of one machine share: the per-folder   *)
(* lock, the pairings and their revocation, the agents that write to each  *)
(* other, and the key of the machine.                                      *)
(***************************************************************************)
EXTENDS CwdLock, OwnerTrust, AgentExchange, MachineIdentity, SequenceTheorems, TLAPS

-----------------------------------------------------------------------------
(***************************************************************************)
(* The per-folder lock.  The inductive invariant is IInv of CwdLock:       *)
(* exclusion itself is not inductive, because a bind only looks at the     *)
(* path; NameAgreement ties each live socket to the path.                  *)
(***************************************************************************)

\* The initial states of the lock satisfy the inductive invariant.
LEMMA InitIInv == Init => IInv
<1> SUFFICES ASSUME Init PROVE IInv
  OBVIOUS
<1>1. TypeOK
  <2>1. disturbed \in [Procs -> BOOLEAN]
    BY Zenon DEF Init
  <2>2. pc \in [Procs -> Points]
    BY DEF Init, Points
  <2>3. crashes \in 0..MaxCrashes
    BY LockConstants DEF Init
  <2>4. theft \in BOOLEAN /\ path \in Procs \cup {NoFile, StaleFile}
    BY DEF Init
  <2>q. QED
    BY <2>1, <2>2, <2>3, <2>4 DEF TypeOK
<1>2. NameAgreement
  BY LockConstants DEF Init, NameAgreement, Live, Stale
<1>q. QED
  BY <1>1, <1>2 DEF IInv

\* Every step of acquireCwdLock, release and every death keeps the types.
LEMMA NextType == TypeOK /\ [Next]_vars => TypeOK'
<1> SUFFICES ASSUME TypeOK, [Next]_vars PROVE TypeOK'
  OBVIOUS
<1> USE LockConstants DEF TypeOK, Points
<1>1. ASSUME NEW p \in Procs, acquireCwdLock(p) PROVE TypeOK'
  BY <1>1 DEF acquireCwdLock, Goto
<1>2. ASSUME NEW p \in Procs, BindOk(p) PROVE TypeOK'
  BY <1>2 DEF BindOk, Goto
<1>3. ASSUME NEW p \in Procs, BindInUse(p) PROVE TypeOK'
  BY <1>3 DEF BindInUse, Goto
<1>4. ASSUME NEW p \in Procs, Listen(p) PROVE TypeOK'
  BY <1>4 DEF Listen, Goto
<1>5. ASSUME NEW p \in Procs, ProbeLive(p) PROVE TypeOK'
  BY <1>5 DEF ProbeLive, Goto
<1>6. ASSUME NEW p \in Procs, ProbeDead(p) PROVE TypeOK'
  BY <1>6 DEF ProbeDead, Goto
<1>7. ASSUME NEW p \in Procs, removeStaleSock(p) PROVE TypeOK'
  BY <1>7 DEF removeStaleSock, UnlinkPath, Goto
<1>8. ASSUME NEW p \in Procs, release(p) PROVE TypeOK'
  BY <1>8 DEF release, UnlinkPath, Goto
<1>9. ASSUME NEW p \in Procs, Crash(p) PROVE TypeOK'
  BY <1>9 DEF Crash, Goto
<1>10. ASSUME NEW p \in Procs, Close(p) PROVE TypeOK'
  BY <1>10 DEF Close, Goto
<1>11. CASE UNCHANGED vars
  BY <1>11 DEF vars
<1>q. QED
  BY <1>1, <1>2, <1>3, <1>4, <1>5, <1>6, <1>7, <1>8, <1>9, <1>10, <1>11
     DEF Next, Attempt

\* Every step keeps the agreement between live sockets and the lock path.
LEMMA NextNameAgreement == IInv /\ [Next]_vars => NameAgreement'
<1> SUFFICES ASSUME IInv, [Next]_vars PROVE NameAgreement'
  OBVIOUS
<1> USE LockConstants DEF IInv, TypeOK, NameAgreement, Points, Live, Stale
<1>1. ASSUME NEW p \in Procs, acquireCwdLock(p) PROVE NameAgreement'
  BY <1>1 DEF acquireCwdLock, Goto
<1>2. ASSUME NEW p \in Procs, BindOk(p) PROVE NameAgreement'
  <2>1. ASSUME ~theft, NEW q \in Procs, Live(q)' PROVE path' = q
    BY <1>2, <2>1 DEF BindOk, Goto
  <2>2. path' = p /\ Live(p)'
    BY <1>2 DEF BindOk, Goto
  <2>q. QED
    BY <1>2, <2>1, <2>2 DEF BindOk, Goto
<1>3. ASSUME NEW p \in Procs, BindInUse(p) PROVE NameAgreement'
  BY <1>3 DEF BindInUse, Goto
<1>4. ASSUME NEW p \in Procs, Listen(p) PROVE NameAgreement'
  BY <1>4 DEF Listen, Goto
<1>5. ASSUME NEW p \in Procs, ProbeLive(p) PROVE NameAgreement'
  BY <1>5 DEF ProbeLive, Goto
<1>6. ASSUME NEW p \in Procs, ProbeDead(p) PROVE NameAgreement'
  BY <1>6 DEF ProbeDead, Goto
<1>7. ASSUME NEW p \in Procs, removeStaleSock(p) PROVE NameAgreement'
  <2>1. ASSUME ~theft' PROVE \A q \in Procs : ~Live(q)'
    BY <1>7, <2>1 DEF removeStaleSock, UnlinkPath, Goto
  <2>2. path' = NoFile
    BY <1>7 DEF removeStaleSock, UnlinkPath
  <2>q. QED
    BY <2>1, <2>2
<1>8. ASSUME NEW p \in Procs, release(p) PROVE NameAgreement'
  <2>1. ASSUME ~theft' PROVE \A q \in Procs : ~Live(q)'
    BY <1>8, <2>1 DEF release, UnlinkPath, Goto
  <2>2. path' = NoFile
    BY <1>8 DEF release, UnlinkPath
  <2>q. QED
    BY <2>1, <2>2
<1>9. ASSUME NEW p \in Procs, Crash(p) PROVE NameAgreement'
  BY <1>9 DEF Crash, Goto
<1>10. ASSUME NEW p \in Procs, Close(p) PROVE NameAgreement'
  BY <1>10 DEF Close, Goto
<1>11. CASE UNCHANGED vars
  BY <1>11 DEF vars
<1>q. QED
  BY <1>1, <1>2, <1>3, <1>4, <1>5, <1>6, <1>7, <1>8, <1>9, <1>10, <1>11
     DEF Next, Attempt

\* The invariant the lock is built on: types, and the agreement between the
\* live sockets of cwd_lock.ts and the directory entry they were bound to.
THEOREM Agreement == Spec => []IInv
<1>1. IInv /\ [Next]_vars => IInv'
  BY NextType, NextNameAgreement DEF IInv
<1>q. QED
  BY InitIInv, <1>1, PTL DEF Spec

\* Two processes own a bound lock socket together only after one of them has
\* unlinked the live socket of the other: the sole source of double holders.
THEOREM Exclusion == Spec => []ExclusiveUnlessUnlinked
<1>1. IInv => ExclusiveUnlessUnlinked
  BY DEF IInv, NameAgreement, ExclusiveUnlessUnlinked
<1>q. QED
  BY Agreement, <1>1, PTL

\* acquireCwdLock answers { ok: false } only while another process owns a lock
\* socket, or when some process died during the attempt.
THEOREM Refusal == Spec => RefusalJustified
<1> DEFINE Justified == \A p \in Procs :
             pc[p] \in {"probe", "rebind"} /\ pc'[p] = "idle"
               => \/ disturbed'[p]
                  \/ \E q \in Procs \ {p} : Live(q)
<1>1. IInv /\ [Next]_vars => [Justified]_vars
  <2> SUFFICES ASSUME IInv, Next,
                      NEW p \in Procs, pc[p] \in {"probe", "rebind"}, pc'[p] = "idle"
               PROVE  disturbed'[p] \/ \E q \in Procs \ {p} : Live(q)
    BY DEF Justified
  <2> USE LockConstants DEF IInv, TypeOK, NameAgreement
  <2>1. CASE \E r \in Procs : Crash(r)
    BY <2>1 DEF Crash
  <2>2. CASE \E r \in Procs : ProbeLive(r)
    <3>1. PICK r \in Procs : ProbeLive(r)
      BY <2>2
    <3>2. r = p
      BY <3>1 DEF ProbeLive, Goto
    <3>q. QED
      BY <3>1, <3>2 DEF ProbeLive, Listening, Live
  <2>3. CASE \E r \in Procs : BindInUse(r)
    <3>1. PICK r \in Procs : BindInUse(r)
      BY <2>3
    <3>2. r = p /\ pc[p] = "rebind"
      BY <3>1 DEF BindInUse, Goto
    <3>3. CASE path \in Procs
      BY <3>2, <3>3 DEF Live
    <3>4. CASE Stale
      BY <3>1, <3>2, <3>4 DEF BindInUse
    <3>q. QED
      BY <3>1, <3>3, <3>4 DEF BindInUse, Stale
  <2>4. CASE \E r \in Procs : acquireCwdLock(r) \/ BindOk(r) \/ Listen(r)
                              \/ ProbeDead(r) \/ removeStaleSock(r) \/ release(r)
                              \/ Close(r)
    BY <2>4 DEF acquireCwdLock, BindOk, Listen, ProbeDead, removeStaleSock,
                release, Close, Goto
  <2>q. QED
    BY <2>1, <2>2, <2>3, <2>4 DEF Next, Attempt
<1>q. QED
  BY Agreement, <1>1, PTL DEF Spec, RefusalJustified

-----------------------------------------------------------------------------
(***************************************************************************)
(* Pairings and revocation.  A removal compares one number, the token of   *)
(* the Owner's slot; the proof is that this number speaks for every record *)
(* of the Owner, also after a removal of the sweep itself has moved it on: *)
(* the authority taken from a sweep before a pairing is stored makes sure  *)
(* that nothing is paired between a removal and the continuation that      *)
(* reads the new token.                                                    *)
(***************************************************************************)

PendingFn == DOMAIN pendingRev = Principals /\ pendingRev = [o \in Principals |-> pendingRev[o]]

TrustTypes ==
    /\ records \subseteq Handles
    /\ slotToken \in [Principals -> Nat] /\ serial \in [Handles -> Nat]
    /\ asking \in [Principals -> {"no", "lookup", "adding"}]
    /\ authority \in Nat
    /\ sweep.at \in SweepSteps => sweep.gen \in Nat /\ sweep.gen <= authority
    /\ PendingFn

\* Tokens of one Owner's records: none is ahead of the slot's, and where it is
\* the slot's the record is the one that was seen.
Sound(toks, seen, h) ==
    /\ toks[h] \in Nat /\ toks[h] <= slotToken[h[1]]
    /\ toks[h] = slotToken[h[1]] => seen[h] = serial[h]

OneToken(o, p) ==
    /\ p = [prev |-> p.prev, toks |-> p.toks, seen |-> p.seen]
    /\ DOMAIN p.toks \subseteq HandlesOf(o)
    /\ \A g, h \in DOMAIN p.toks : p.toks[g] = p.toks[h]
    /\ \A h \in DOMAIN p.toks : Sound(p.toks, p.seen, h)

PendingSound ==
    \A o \in Principals : pendingRev[o] # NoPending => OneToken(o, pendingRev[o])

Owners == {h[1] : h \in DOMAIN sweep.toks}

SweepSound ==
    sweep.at \in {"fetch", "remove", "removed"} =>
        /\ DOMAIN sweep.toks \subseteq Handles
        /\ \A g, h \in DOMAIN sweep.toks : g[1] = h[1] => sweep.toks[g] = sweep.toks[h]
        /\ \A h \in DOMAIN sweep.toks : Sound(sweep.toks, sweep.seen, h)
        /\ sweep.left \subseteq Owners
        /\ sweep.at # "fetch" => sweep.owner \in Owners /\ pendingRev[sweep.owner] # NoPending

\* Between a removal that took a record away and its continuation, every
\* record still to go is the one that was seen.
HitSound ==
    sweep.at = "removed" /\ sweep.hit /\ HasAuthority =>
        LET p == pendingRev[sweep.owner]
        IN  \A h \in DOMAIN p.toks : p.seen[h] = serial[h]

\* An Owner whose pairing is about to be stored has no record, and no sweep
\* that may go on knows of one.
AddingAway ==
    \A o \in Principals : asking[o] = "adding" =>
        /\ HandlesOf(o) \cap records = {}
        /\ sweep.at \in {"fetch", "remove", "removed"} /\ HasAuthority => o \notin Owners

TokenInv == TrustTypes /\ PendingSound /\ SweepSound /\ HitSound /\ AddingAway

LEMMA HandleOwners ==
    /\ \A h \in Handles : h[1] \in Principals /\ h \in HandlesOf(h[1])
    /\ \A o \in Principals : \A h \in HandlesOf(o) : h \in Handles /\ h[1] = o
    /\ \A o \in Principals : <<o, 1>> \in HandlesOf(o)
  BY TrustAssumption DEF Handles, HandlesOf

-----------------------------------------------------------------------------
(* Steps that leave records, tokens and the sweep alone *)

LEMMA IdleStep ==
    ASSUME TokenInv,
           UNCHANGED <<records, slotToken, serial, pendingRev, sweep, authority>>,
           asking' \in [Principals -> {"no", "lookup", "adding"}],
           \A o \in Principals : asking'[o] = "adding" => asking[o] = "adding"
    PROVE  TokenInv'
  BY DEF TokenInv, TrustTypes, PendingFn, PendingSound, OneToken, SweepSound, HitSound, AddingAway, Sound,
         Owners, HasAuthority

LEMMA OtherStep ==
    ASSUME TokenInv,
           \/ issueToken \/ tokenExpires
           \/ \E o \in Principals : PairRequest(o) \/ \E member \in BOOLEAN : Sign(o, member)
    PROVE  TokenInv'
<1>1. /\ UNCHANGED <<records, slotToken, serial, pendingRev, sweep, authority>>
      /\ asking' \in [Principals -> {"no", "lookup", "adding"}]
      /\ \A o \in Principals : asking'[o] = "adding" => asking[o] = "adding"
  <2>1. CASE issueToken \/ tokenExpires \/ \E o \in Principals, member \in BOOLEAN : Sign(o, member)
    BY <2>1 DEF TokenInv, TrustTypes, PendingFn, issueToken, tokenExpires, Sign, pairingVars,
                historyVars, producerVars
  <2>2. CASE \E o \in Principals : PairRequest(o)
    BY <2>2 DEF TokenInv, TrustTypes, PendingFn, PairRequest, producerVars, historyVars
  <2> QED
    BY <2>1, <2>2
<1> QED
  BY <1>1, IdleStep

\* A pair request that goes on to store its Owner takes the authority from the
\* sweep in flight.
LEMMA LookupStep ==
    ASSUME TokenInv, NEW o \in Principals, PairLookup(o)
    PROVE  TokenInv'
<1>1. UNCHANGED <<records, slotToken, serial, pendingRev, sweep>>
  BY DEF PairLookup, producerVars, historyVars
<1>2. CASE asking' = [asking EXCEPT ![o] = "no"] /\ UNCHANGED authority
  BY <1>1, <1>2, IdleStep DEF TokenInv, TrustTypes, PendingFn
<1>3. CASE /\ asking' = [asking EXCEPT ![o] = "adding"]
           /\ authority' = authority + 1
           /\ HandlesOf(o) \cap records = {}
  <2>1. TrustTypes'
    BY <1>1, <1>3 DEF TokenInv, TrustTypes, PendingFn
  <2>2. sweep.at \in SweepSteps => ~ HasAuthority'
    BY <1>1, <1>3 DEF TokenInv, TrustTypes, PendingFn, HasAuthority
  <2>3. PendingSound' /\ SweepSound'
    BY <1>1 DEF TokenInv, PendingSound, OneToken, SweepSound, Sound, Owners
  <2>4. HitSound' /\ AddingAway'
    BY <1>1, <1>3, <2>2
       DEF TokenInv, TrustTypes, PendingFn, HitSound, AddingAway, SweepSteps
  <2> QED
    BY <2>1, <2>3, <2>4 DEF TokenInv
<1> QED
  BY <1>2, <1>3 DEF PairLookup

-----------------------------------------------------------------------------
(* Steps that change records *)

\* A token that moves on takes every older copy out of use.
LEMMA TokenMoves ==
    ASSUME TokenInv, NEW o \in Principals,
           UNCHANGED <<pendingRev, sweep>>,
           slotToken' = [slotToken EXCEPT ![o] = @ + 1],
           \A h \in Handles : h[1] # o => serial'[h] = serial[h]
    PROVE  PendingSound' /\ SweepSound'
<1>1. \A toks, seen : \A h \in Handles : Sound(toks, seen, h) => Sound(toks, seen, h)'
  BY HandleOwners DEF TokenInv, TrustTypes, PendingFn, Sound
<1>2. PendingSound'
  BY <1>1, HandleOwners DEF TokenInv, PendingSound, OneToken
<1>3. SweepSound'
  BY <1>1 DEF TokenInv, SweepSound, Owners
<1> QED
  BY <1>2, <1>3

LEMMA AddStep ==
    ASSUME TokenInv, NEW o \in Principals, addPeer(o)
    PROVE  TokenInv'
<1>1. /\ UNCHANGED <<pendingRev, sweep, authority>>
      /\ asking[o] = "adding" /\ asking' = [asking EXCEPT ![o] = "no"]
  BY DEF addPeer, producerVars
<1>2. CASE UNCHANGED <<records, slotToken, historyVars>>
  BY <1>1, <1>2, IdleStep DEF TokenInv, TrustTypes, PendingFn, historyVars
<1>3. CASE /\ records' = records \cup {<<o, 1>>}
           /\ slotToken' = [slotToken EXCEPT ![o] = @ + 1]
           /\ serial' = [serial EXCEPT ![<<o, 1>>] = @ + 1]
  <2>1. <<o, 1>> \in Handles /\ \A h \in Handles : h[1] # o => h # <<o, 1>>
    BY HandleOwners
  <2>2. TrustTypes'
    BY <1>1, <1>3, <2>1 DEF TokenInv, TrustTypes, PendingFn
  <2>3. PendingSound' /\ SweepSound'
    BY <1>1, <1>3, <2>1, TokenMoves DEF TokenInv, TrustTypes, PendingFn
  <2>4. HitSound'
    <3> SUFFICES ASSUME sweep.at = "removed", sweep.hit, HasAuthority
                 PROVE  \A h \in DOMAIN pendingRev[sweep.owner].toks :
                           pendingRev[sweep.owner].seen[h] = serial'[h]
      BY <1>1 DEF HitSound, HasAuthority
    <3>1. sweep.owner \in Owners /\ sweep.owner # o /\ pendingRev[sweep.owner] # NoPending
      BY <1>1 DEF TokenInv, AddingAway, SweepSound
    <3>2. sweep.owner \in Principals
      BY <3>1, HandleOwners DEF TokenInv, SweepSound, Owners
    <3>3. DOMAIN pendingRev[sweep.owner].toks \subseteq HandlesOf(sweep.owner)
      BY <3>1, <3>2 DEF TokenInv, PendingSound, OneToken
    <3>4. \A h \in DOMAIN pendingRev[sweep.owner].toks : h \in Handles /\ h # <<o, 1>>
      BY <3>1, <3>2, <3>3, <2>1, HandleOwners
    <3> QED
      BY <3>4, <1>3 DEF TokenInv, HitSound, TrustTypes
  <2>5. AddingAway'
    <3> SUFFICES ASSUME NEW q \in Principals, asking'[q] = "adding"
                 PROVE  /\ HandlesOf(q) \cap records' = {}
                        /\ sweep.at \in {"fetch", "remove", "removed"} /\ HasAuthority
                              => q \notin Owners
      BY <1>1 DEF AddingAway, HasAuthority, Owners
    <3>1. q # o /\ asking[q] = "adding"
      BY <1>1 DEF TokenInv, TrustTypes, PendingFn
    <3> QED
      BY <3>1, <1>3, <2>1, HandleOwners DEF TokenInv, AddingAway
  <2> QED
    BY <2>2, <2>3, <2>4, <2>5 DEF TokenInv
<1> QED
  BY <1>2, <1>3 DEF addPeer

LEMMA UserRemoveStep ==
    ASSUME TokenInv, NEW h \in Handles, removePeer(h) \/ ForeignRemove(h)
    PROVE  TokenInv'
<1>1. /\ UNCHANGED <<serial, pendingRev, sweep, authority, asking>>
      /\ records' = records \ {h}
  BY DEF removePeer, ForeignRemove, producerVars, pairingVars, historyVars
<1>2. \/ UNCHANGED slotToken
      \/ slotToken' = [slotToken EXCEPT ![h[1]] = @ + 1]
  BY DEF removePeer, ForeignRemove
<1>3. TrustTypes'
  BY <1>1, <1>2, HandleOwners DEF TokenInv, TrustTypes, PendingFn
<1>4. PendingSound' /\ SweepSound'
  <2>1. CASE UNCHANGED slotToken
    BY <1>1, <2>1 DEF TokenInv, PendingSound, OneToken, SweepSound, Sound, Owners
  <2>2. CASE slotToken' = [slotToken EXCEPT ![h[1]] = @ + 1]
    BY <1>1, <2>2, HandleOwners, TokenMoves
  <2> QED
    BY <1>2, <2>1, <2>2
<1>5. HitSound' /\ AddingAway'
  BY <1>1 DEF TokenInv, HitSound, AddingAway, Owners, HasAuthority
<1> QED
  BY <1>3, <1>4, <1>5 DEF TokenInv

-----------------------------------------------------------------------------
(* Steps of a sweep *)

AtOwner == {"fetch", "remove", "removed"}

\* A sweep that starts, turns to publishing or ends.
LEMMA SweepElsewhere ==
    ASSUME TokenInv, PendingSound', PendingFn',
           UNCHANGED <<records, slotToken, serial, asking>>,
           authority' \in Nat, authority' >= authority,
           sweep'.at \notin AtOwner,
           sweep'.at \in SweepSteps => sweep'.gen = authority /\ sweep'.gen \in Nat
    PROVE  TokenInv'
<1>1. TrustTypes'
  BY DEF TokenInv, TrustTypes
<1>2. SweepSound' /\ HitSound' /\ AddingAway'
  BY DEF TokenInv, SweepSound, HitSound, AddingAway, AtOwner
<1> QED
  BY <1>1, <1>2 DEF TokenInv

\* A sweep that goes on with the records it knows.
LEMMA SweepGoesOn ==
    ASSUME TokenInv, PendingSound', PendingFn',
           sweep.at \in AtOwner, HasAuthority,
           UNCHANGED <<records, slotToken, serial, asking, authority>>,
           NEW left \in SUBSET sweep.left,
           \/ sweep' = NextOwner(left)
           \/ \E o \in Owners : sweep' = Removals(o, left) /\ pendingRev'[o] # NoPending
    PROVE  TokenInv'
<1>1. CASE sweep' = [at |-> "publish", gen |-> sweep.gen]
  BY <1>1, SweepElsewhere DEF TokenInv, TrustTypes, HasAuthority, AtOwner
<1>2. CASE sweep'.at \in {"fetch", "remove"} /\ sweep'.gen = sweep.gen /\ sweep'.left = left
           /\ sweep'.toks = sweep.toks /\ sweep'.seen = sweep.seen
           /\ (sweep'.at = "remove" => sweep'.owner \in Owners /\ pendingRev'[sweep'.owner] # NoPending)
  <2>1. TrustTypes'
    BY <1>2 DEF TokenInv, TrustTypes, HasAuthority
  <2>2. Owners' = Owners
    BY <1>2 DEF Owners
  <2>3. SweepSound'
    BY <1>2, <2>2 DEF TokenInv, SweepSound, Sound, AtOwner
  <2>4. HitSound' /\ AddingAway'
    BY <1>2, <2>2 DEF TokenInv, HitSound, AddingAway, HasAuthority, AtOwner
  <2> QED
    BY <2>1, <2>3, <2>4 DEF TokenInv
<1> QED
  BY <1>1, <1>2 DEF NextOwner, Removals

\* Unless a sweep is at an Owner's records, what is pending stays or goes.
LEMMA PendingKept ==
    ASSUME TokenInv, UNCHANGED <<slotToken, serial>>, PendingFn',
           \A o \in Principals : pendingRev'[o] \in {pendingRev[o], NoPending}
    PROVE  PendingSound'
  BY DEF TokenInv, PendingSound, OneToken, Sound

LEMMA OnePending ==
    ASSUME TokenInv, UNCHANGED <<slotToken, serial>>, NEW o \in Principals, NEW p,
           p # NoPending => OneToken(o, p),
           pendingRev' = [pendingRev EXCEPT ![o] = p]
    PROVE  PendingFn' /\ PendingSound' /\ pendingRev'[o] = p
<1>1. PendingFn' /\ pendingRev'[o] = p
      /\ \A q \in Principals : q # o => pendingRev'[q] = pendingRev[q]
  BY DEF TokenInv, TrustTypes, PendingFn
<1>2. \A q, r : OneToken(q, r) => OneToken(q, r)'
  BY DEF OneToken, Sound
<1> QED
  BY <1>1, <1>2 DEF TokenInv, PendingSound

LEMMA SweepOwners ==
    ASSUME TokenInv, sweep.at \in AtOwner
    PROVE  /\ Owners \subseteq Principals /\ sweep.left \subseteq Owners
           /\ sweep.at # "fetch" => sweep.owner \in Owners /\ pendingRev[sweep.owner] # NoPending
  BY HandleOwners DEF TokenInv, SweepSound, Owners, AtOwner

LEMMA EndsStep ==
    ASSUME TokenInv, start \/ checkOnce \/ SweepStale \/ SnapshotFails \/ Publish \/ NewProducer
    PROVE  TokenInv'
<1>1. CASE start \/ checkOnce \/ SweepStale \/ SnapshotFails \/ Publish
  <2>1. UNCHANGED <<records, slotToken, serial, asking, pendingRev, authority>>
    BY <1>1 DEF start, checkOnce, SweepStale, SnapshotFails, Publish, producerVars,
                pairingVars, historyVars
  <2>2. sweep' \in {NoSweep, [at |-> "snap", gen |-> authority],
                    [at |-> "publish", gen |-> authority]}
    BY <1>1 DEF start, checkOnce, SweepStale, SnapshotFails, Publish, HasAuthority
  <2>3. PendingFn' /\ authority \in Nat
    BY <2>1 DEF TokenInv, TrustTypes, PendingFn
  <2>4. PendingSound'
    BY <2>1, <2>3, PendingKept
  <2> QED
    BY <2>1, <2>2, <2>3, <2>4, SweepElsewhere DEF NoSweep, AtOwner, SweepSteps
<1>2. CASE NewProducer
  <2>1. /\ UNCHANGED <<records, slotToken, serial, asking>>
        /\ pendingRev' = [o \in Principals |-> NoPending]
        /\ authority' = authority + 1 /\ sweep' = NoSweep
    BY <1>2 DEF NewProducer, pairingVars, historyVars
  <2>2. PendingFn' /\ authority \in Nat
    BY <2>1 DEF TokenInv, TrustTypes, PendingFn
  <2>3. PendingSound'
    BY <2>1, <2>2, PendingKept
  <2> QED
    BY <2>1, <2>2, <2>3, SweepElsewhere DEF NoSweep, AtOwner, SweepSteps
<1> QED
  BY <1>1, <1>2

LEMMA SnapshotStep ==
    ASSUME TokenInv, Snapshot
    PROVE  TokenInv'
<1>1. /\ UNCHANGED <<records, slotToken, serial, asking, authority>>
      /\ pendingRev' = Pruned(pendingRev, NoPending) /\ HasAuthority /\ sweep.at = "snap"
  BY DEF Snapshot, pairingVars, historyVars
<1>2. PendingFn'
  BY <1>1 DEF Pruned, PendingFn
<1>3. PendingSound'
  BY <1>1, <1>2, PendingKept DEF Pruned
<1>4. CASE sweep' = [at |-> "publish", gen |-> sweep.gen]
  BY <1>1, <1>2, <1>3, <1>4, SweepElsewhere
     DEF TokenInv, TrustTypes, HasAuthority, AtOwner
<1>5. CASE sweep' = [at |-> "fetch", gen |-> sweep.gen, left |-> Present,
                     toks |-> [h \in records |-> slotToken[h[1]]],
                     seen |-> [h \in records |-> serial[h]]]
  <2>1. TrustTypes'
    BY <1>1, <1>2, <1>5 DEF TokenInv, TrustTypes, HasAuthority
  <2>2. Owners' = Present
    BY <1>5 DEF Owners, Present
  <2>3. SweepSound'
    BY <1>1, <1>5, <2>2, HandleOwners DEF TokenInv, TrustTypes, SweepSound, Sound
  <2>4. HitSound' /\ AddingAway'
    BY <1>1, <1>5, <2>2, HandleOwners
       DEF TokenInv, TrustTypes, HitSound, AddingAway, Present
  <2> QED
    BY <1>3, <2>1, <2>3, <2>4 DEF TokenInv
<1> QED
  BY <1>4, <1>5 DEF Snapshot

LEMMA FetchStep ==
    ASSUME TokenInv, NEW o \in Principals,
           \/ FetchNothing(o) \/ FetchInvalid(o)
           \/ \E v \in 1 .. MaxVersions : FetchMember(o, v) \/ FetchRevoked(o, v)
    PROVE  TokenInv'
<1>1. /\ UNCHANGED <<records, slotToken, serial, asking, authority>>
      /\ sweep.at = "fetch" /\ sweep.at \in AtOwner /\ HasAuthority /\ o \in sweep.left
  BY DEF FetchNothing, FetchInvalid, FetchMember, FetchRevoked, producerVars, pairingVars,
         historyVars, AtOwner
<1>2. o \in Owners /\ sweep.left \ {o} \in SUBSET sweep.left
  BY <1>1, SweepOwners
<1>3. CASE FetchNothing(o) \/ FetchInvalid(o)
  <2>1. /\ UNCHANGED pendingRev
        /\ \/ sweep' = NextOwner(sweep.left \ {o})
           \/ sweep' = Removals(o, sweep.left \ {o}) /\ pendingRev[o] # NoPending
    BY <1>3 DEF FetchNothing, FetchInvalid, producerVars
  <2>2. PendingFn'
    BY <2>1 DEF TokenInv, TrustTypes, PendingFn
  <2>3. PendingSound'
    BY <1>1, <2>1, <2>2, PendingKept
  <2> QED
    BY <1>1, <1>2, <2>1, <2>2, <2>3, SweepGoesOn
<1>4. CASE \E v \in 1 .. MaxVersions : FetchMember(o, v)
  <2>1. /\ pendingRev' = [pendingRev EXCEPT ![o] = NoPending]
        /\ sweep' = NextOwner(sweep.left \ {o})
    BY <1>4 DEF FetchMember
  <2>2. PendingFn'
    BY <2>1 DEF TokenInv, TrustTypes, PendingFn
  <2>3. PendingSound'
    BY <1>1, <2>1, <2>2, PendingKept DEF TokenInv, TrustTypes, PendingFn
  <2> QED
    BY <1>1, <1>2, <2>1, <2>2, <2>3, SweepGoesOn
<1>5. CASE \E v \in 1 .. MaxVersions : FetchRevoked(o, v)
  <2> DEFINE theirs == HandlesOf(o) \cap DOMAIN sweep.toks
             toks == [h \in theirs |-> sweep.toks[h]]
             seen == [h \in theirs |-> sweep.seen[h]]
             p == [prev |-> floor[o], toks |-> toks, seen |-> seen]
  <2>1. /\ pendingRev' = [pendingRev EXCEPT ![o] = p]
        /\ sweep' = Removals(o, sweep.left \ {o})
    BY <1>5 DEF FetchRevoked, Restrict
  <2>2. \A h \in theirs : h \in DOMAIN sweep.toks /\ h[1] = o /\ Sound(sweep.toks, sweep.seen, h)
    BY <1>1, HandleOwners DEF TokenInv, SweepSound, AtOwner
  <2>3. \A g, h \in theirs : toks[g] = toks[h]
    BY <2>2, <1>1 DEF TokenInv, SweepSound
  <2>4. \A h \in theirs : Sound(toks, seen, h)
    BY <2>2 DEF Sound
  <2>5. OneToken(o, p)
    <3> HIDE DEF theirs
    <3>1. DOMAIN toks = theirs /\ theirs \subseteq HandlesOf(o)
      BY DEF theirs
    <3> HIDE DEF toks, seen
    <3> QED
      BY <3>1, <2>3, <2>4 DEF OneToken
  <2>6. p # NoPending
    BY DEF NoPending
  <2> HIDE DEF p
  <2>7. PendingFn' /\ PendingSound' /\ pendingRev'[o] = p
    BY <1>1, <2>1, <2>5, OnePending
  <2> QED
    BY <1>1, <1>2, <2>1, <2>6, <2>7, SweepGoesOn
<1> QED
  BY <1>3, <1>4, <1>5

LEMMA GiveUpStep ==
    ASSUME TokenInv, NEW h \in Handles, RemovalStale(h) \/ RemovalFails(h)
    PROVE  TokenInv'
<1>1. /\ UNCHANGED <<records, slotToken, serial, asking, authority>>
      /\ sweep.at \in AtOwner /\ HasAuthority /\ h[1] \in Principals
  BY HandleOwners DEF RemovalStale, RemovalFails, Removing, producerVars, pairingVars,
         historyVars, AtOwner
<1>2. CASE RemovalStale(h)
  <2>1. pendingRev' = [pendingRev EXCEPT ![h[1]] = NoPending] /\ sweep' = NoSweep
    BY <1>2 DEF RemovalStale
  <2>2. PendingFn'
    BY <2>1 DEF TokenInv, TrustTypes, PendingFn
  <2>3. PendingSound'
    BY <1>1, <2>1, <2>2, PendingKept DEF TokenInv, TrustTypes, PendingFn
  <2> QED
    BY <1>1, <2>1, <2>2, <2>3, SweepElsewhere
       DEF NoSweep, AtOwner, SweepSteps, TokenInv, TrustTypes
<1>3. CASE RemovalFails(h)
  <2>1. UNCHANGED pendingRev /\ sweep' = NextOwner(sweep.left)
    BY <1>3 DEF RemovalFails, producerVars
  <2>2. PendingFn'
    BY <2>1 DEF TokenInv, TrustTypes, PendingFn
  <2>3. PendingSound'
    BY <1>1, <2>1, <2>2, PendingKept
  <2> QED
    BY <1>1, <2>1, <2>2, <2>3, SweepGoesOn
<1> QED
  BY <1>2, <1>3

\* The token of the record that goes speaks for all that are pending with it.
LEMMA MatchSpeaksForAll ==
    ASSUME TokenInv, NEW h \in Handles, conditionalRemovePeer(h)
    PROVE  /\ h \in DOMAIN pendingRev[sweep.owner].toks /\ h[1] = sweep.owner
           /\ \A g \in DOMAIN pendingRev[sweep.owner].toks :
                 pendingRev[sweep.owner].seen[g] = serial[g]
<1>1. /\ sweep.at = "remove" /\ sweep.at \in AtOwner
      /\ h \in DOMAIN pendingRev[sweep.owner].toks
      /\ pendingRev[h[1]].toks[h] = slotToken[h[1]]
  BY DEF conditionalRemovePeer, Removing, AtOwner
<1>2. sweep.owner \in Principals /\ pendingRev[sweep.owner] # NoPending
  BY <1>1, SweepOwners
<1>3. /\ DOMAIN pendingRev[sweep.owner].toks \subseteq HandlesOf(sweep.owner)
      /\ \A f, g \in DOMAIN pendingRev[sweep.owner].toks :
            pendingRev[sweep.owner].toks[f] = pendingRev[sweep.owner].toks[g]
      /\ \A g \in DOMAIN pendingRev[sweep.owner].toks :
            Sound(pendingRev[sweep.owner].toks, pendingRev[sweep.owner].seen, g)
  BY <1>2 DEF TokenInv, PendingSound, OneToken
<1>4. \A g \in DOMAIN pendingRev[sweep.owner].toks : g[1] = sweep.owner
  BY <1>2, <1>3, HandleOwners
<1>5. \A g \in DOMAIN pendingRev[sweep.owner].toks :
         pendingRev[sweep.owner].toks[g] = slotToken[g[1]]
  BY <1>1, <1>3, <1>4
<1> QED
  BY <1>1, <1>2, <1>3, <1>4, <1>5 DEF Sound

LEMMA RemoveStep ==
    ASSUME TokenInv, NEW h \in Handles, conditionalRemovePeer(h)
    PROVE  TokenInv'
<1>1. /\ UNCHANGED <<serial, pendingRev, authority, asking>>
      /\ sweep' = Removed(h) /\ records' = records \ {h}
      /\ sweep.at = "remove" /\ sweep.at \in AtOwner /\ HasAuthority
  BY DEF conditionalRemovePeer, Removing, producerVars, pairingVars, historyVars, AtOwner
<1>2. \/ UNCHANGED slotToken
      \/ slotToken' = [slotToken EXCEPT ![h[1]] = @ + 1]
  BY DEF conditionalRemovePeer
<1>3. /\ sweep'.at = "removed" /\ sweep'.gen = sweep.gen /\ sweep'.left = sweep.left
      /\ sweep'.toks = sweep.toks /\ sweep'.seen = sweep.seen /\ sweep'.owner = sweep.owner
  BY <1>1 DEF Removed
<1>4. \A toks, seen : \A g \in Handles : Sound(toks, seen, g) => Sound(toks, seen, g)'
  BY <1>1, <1>2, HandleOwners DEF TokenInv, TrustTypes, Sound
<1>5. Owners' = Owners
  BY <1>3 DEF Owners
<1>6. TrustTypes'
  BY <1>1, <1>2, <1>3, HandleOwners DEF TokenInv, TrustTypes, PendingFn, HasAuthority
<1>7. PendingSound'
  BY <1>1, <1>4, HandleOwners DEF TokenInv, PendingSound, OneToken
<1>8. SweepSound'
  BY <1>1, <1>3, <1>4, <1>5 DEF TokenInv, SweepSound
<1>9. HitSound'
  BY <1>1, <1>3, MatchSpeaksForAll DEF HitSound
<1>10. AddingAway'
  BY <1>1, <1>3, <1>5 DEF TokenInv, AddingAway, HasAuthority
<1> QED
  BY <1>6, <1>7, <1>8, <1>9, <1>10 DEF TokenInv

LEMMA ContinueStep ==
    ASSUME TokenInv, RecordRemoved
    PROVE  TokenInv'
<1> DEFINE o == sweep.owner
           q == pendingRev[o]
           rest == DOMAIN q.toks \ {sweep.handle}
           toks == [g \in rest |-> IF sweep.hit THEN slotToken[o] ELSE q.toks[g]]
           p == IF rest = {} THEN NoPending ELSE [q EXCEPT !.toks = toks]
<1>1. /\ UNCHANGED <<records, slotToken, serial, asking, authority>>
      /\ sweep.at = "removed" /\ sweep.at \in AtOwner /\ HasAuthority
      /\ pendingRev' = [pendingRev EXCEPT ![o] = p]
      /\ sweep' = IF rest = {} THEN NextOwner(sweep.left) ELSE Removals(o, sweep.left)
  BY DEF RecordRemoved, pairingVars, historyVars, AtOwner
<1>2. o \in Owners /\ o \in Principals /\ q # NoPending
  BY <1>1, SweepOwners
<1>3. OneToken(o, q)
  BY <1>2 DEF TokenInv, PendingSound
<1>4. rest # {} => p = [prev |-> q.prev, toks |-> toks, seen |-> q.seen]
  BY <1>3 DEF OneToken
<1>5. \A g \in rest : g \in DOMAIN q.toks /\ g[1] = o /\ Sound(q.toks, q.seen, g)
  BY <1>2, <1>3, HandleOwners DEF OneToken
<1>6. \A f, g \in rest : toks[f] = toks[g]
  BY <1>3 DEF OneToken
<1>7. \A g \in rest : Sound(toks, q.seen, g)
  <2>1. CASE sweep.hit
    <3>1. \A g \in DOMAIN q.toks : q.seen[g] = serial[g]
      BY <1>1, <2>1 DEF TokenInv, HitSound
    <3>2. slotToken[o] \in Nat
      BY <1>2 DEF TokenInv, TrustTypes
    <3> QED
      BY <2>1, <3>1, <3>2, <1>5 DEF Sound
  <2>2. CASE ~ sweep.hit
    BY <2>2, <1>5 DEF Sound
  <2> QED
    BY <2>1, <2>2
<1>8. p # NoPending => OneToken(o, p)
  <2>1. rest \subseteq HandlesOf(o) /\ DOMAIN toks = rest
    BY <1>3 DEF OneToken
  <2> HIDE DEF toks, rest
  <2> QED
    BY <1>4, <1>6, <1>7, <2>1 DEF OneToken
<1>9. rest # {} => p # NoPending
  BY <1>4 DEF NoPending
<1> HIDE DEF p, rest
<1>10. PendingFn' /\ PendingSound' /\ pendingRev'[o] = p
  BY <1>1, <1>2, <1>8, OnePending
<1> QED
  BY <1>1, <1>2, <1>9, <1>10, SweepGoesOn

-----------------------------------------------------------------------------
(* The invariant and the property *)

LEMMA TokenInit == TrustInit => TokenInv
<1> SUFFICES ASSUME TrustInit PROVE TokenInv
  OBVIOUS
<1>1. TrustTypes
  BY DEF TrustInit, TrustTypes, PendingFn, NotStarted, SweepSteps
<1>2. PendingSound /\ SweepSound /\ HitSound /\ AddingAway
  BY DEF TrustInit, PendingSound, SweepSound, HitSound, AddingAway, NotStarted
<1> QED
  BY <1>1, <1>2 DEF TokenInv

LEMMA TokenNext == TokenInv /\ [TrustNext]_trustVars => TokenInv'
<1> SUFFICES ASSUME TokenInv, [TrustNext]_trustVars PROVE TokenInv'
  OBVIOUS
<1>1. CASE issueToken \/ tokenExpires
           \/ \E o \in Principals : PairRequest(o) \/ \E member \in BOOLEAN : Sign(o, member)
  BY <1>1, OtherStep
<1>2. CASE \E o \in Principals : PairLookup(o) \/ addPeer(o)
  BY <1>2, LookupStep, AddStep
<1>3. CASE start \/ checkOnce \/ SweepStale \/ SnapshotFails \/ Publish \/ NewProducer
  BY <1>3, EndsStep
<1>4. CASE Snapshot
  BY <1>4, SnapshotStep
<1>5. CASE \E o \in Principals :
              \/ FetchNothing(o) \/ FetchInvalid(o)
              \/ \E v \in 1 .. MaxVersions : FetchMember(o, v) \/ FetchRevoked(o, v)
  BY <1>5, FetchStep
<1>6. CASE \E h \in Handles : removePeer(h) \/ ForeignRemove(h)
  BY <1>6, UserRemoveStep
<1>7. CASE \E h \in Handles : RemovalStale(h) \/ RemovalFails(h)
  BY <1>7, GiveUpStep
<1>8. CASE \E h \in Handles : conditionalRemovePeer(h)
  BY <1>8, RemoveStep
<1>9. CASE RecordRemoved
  BY <1>9, ContinueStep
<1>10. CASE UNCHANGED trustVars
  BY <1>10, IdleStep DEF trustVars, TokenInv, TrustTypes
<1> QED
  BY <1>1, <1>2, <1>3, <1>4, <1>5, <1>6, <1>7, <1>8, <1>9, <1>10 DEF TrustNext, SweepStep

\* A step that takes records away is the sweep's removal, or leaves it alone.
LEMMA OnlyRemovals ==
    ASSUME TrustNext, records \ records' # {}
    PROVE  \/ sweep' = sweep
           \/ \E h \in Handles : conditionalRemovePeer(h) /\ records \ records' \subseteq {h}
<1>1. CASE \E h \in Handles : conditionalRemovePeer(h)
  BY <1>1 DEF conditionalRemovePeer
<1>2. CASE \E h \in Handles : removePeer(h) \/ ForeignRemove(h)
  BY <1>2 DEF removePeer, ForeignRemove
<1>3. CASE \E o \in Principals : addPeer(o)
  BY <1>3 DEF addPeer
<1>4. CASE \/ issueToken \/ tokenExpires
           \/ \E o \in Principals : PairRequest(o) \/ PairLookup(o)
                 \/ \E member \in BOOLEAN : Sign(o, member)
  BY <1>4 DEF issueToken, tokenExpires, PairRequest, PairLookup, Sign
<1>5. CASE start \/ checkOnce \/ SweepStale \/ SnapshotFails \/ Publish \/ NewProducer
           \/ Snapshot \/ RecordRemoved
  BY <1>5 DEF start, checkOnce, SweepStale, SnapshotFails, Publish, NewProducer, Snapshot,
              RecordRemoved
<1>6. CASE \E o \in Principals :
              \/ FetchNothing(o) \/ FetchInvalid(o)
              \/ \E v \in 1 .. MaxVersions : FetchMember(o, v) \/ FetchRevoked(o, v)
  BY <1>6 DEF FetchNothing, FetchInvalid, FetchMember, FetchRevoked
<1>7. CASE \E h \in Handles : RemovalStale(h) \/ RemovalFails(h)
  BY <1>7 DEF RemovalStale, RemovalFails
<1> QED
  BY <1>1, <1>2, <1>3, <1>4, <1>5, <1>6, <1>7 DEF TrustNext, SweepStep

\* For any number of Owners, spellings, pairings and failures: a delayed
\* revocation never removes a pairing made since in this process
\* (storage.ts, conditionalRemovePeer; self_revoke.ts, _retryPending).
THEOREM RepairSafe == TrustSpec => RepairKept
<1>1. TrustInit => TokenInv
  BY TokenInit
<1>2. TokenInv /\ [TrustNext]_trustVars => TokenInv'
  BY TokenNext
<1>3. TokenInv /\ [TrustNext]_trustVars =>
        [\A h \in records \ records' :
            sweep.at = "remove" /\ h[1] = sweep.owner /\ sweep' # sweep
               => pendingRev[h[1]].seen[h] = serial[h]]_trustVars
  <2> SUFFICES ASSUME TokenInv, TrustNext, NEW h \in records \ records', sweep' # sweep
               PROVE  pendingRev[h[1]].seen[h] = serial[h]
    OBVIOUS
  <2>1. h \in Handles /\ conditionalRemovePeer(h)
    BY OnlyRemovals
  <2> QED
    BY <2>1, MatchSpeaksForAll
<1> QED
  BY <1>1, <1>2, <1>3, PTL DEF TrustSpec, RepairKept

-----------------------------------------------------------------------------
(***************************************************************************)
(* Agents that wait for each other.  A wait begins only when nothing in    *)
(* the inbox would end it, and each arrival is matched against the waits   *)
(* of its addressee: so a waiting agent's inbox never holds an answer, nor *)
(* a fresh request (NothingMissed), and two waits on each other's request  *)
(* exclude themselves.                                                     *)
(***************************************************************************)

PostsTyped ==
    /\ posted \in Seq(Message)
    /\ box \in [Talkers -> SUBSET (DOMAIN posted)]
    /\ call \in [Talkers -> {NoCall} \cup [op : {"ack", "wait"}, re : DOMAIN posted]]

\* What an agent is blocked on is a request.
CallsAskRequests ==
    \A a \in Talkers : call[a].op # "none" => posted[call[a].re].re = NoReply

\* Nothing that would end a wait, or interrupt it, has been left in the inbox.
NothingMissed ==
    \A a \in Talkers : call[a].op = "wait" =>
        \A i \in box[a] : ~ Matches(i, call[a]) /\ ~ Interrupts(i)

ExchangeInv == PostsTyped /\ CallsAskRequests /\ NothingMissed

\* Posts are only added to.
Grown == /\ DOMAIN posted \subseteq DOMAIN posted'
         /\ \A i \in DOMAIN posted : posted'[i] = posted[i]

CallsOf(S) == {NoCall} \cup [op : {"ack", "wait"}, re : S]

LEMMA CallShapes ==
    /\ NoCall.op = "none"
    /\ \A S : /\ NoCall \in CallsOf(S)
              /\ \A r \in S : [op |-> "wait", re |-> r] \in CallsOf(S) /\ [op |-> "ack", re |-> r] \in CallsOf(S)
              /\ \A c \in CallsOf(S) : c.op # "none" => c.op \in {"ack", "wait"} /\ c.re \in S
    /\ \A S, T : S \subseteq T => CallsOf(S) \subseteq CallsOf(T)
  BY DEF NoCall, CallsOf

LEMMA Posted ==
    ASSUME PostsTyped, NEW a \in Talkers, NEW b \in Talkers, NEW re \in 0 .. MaxSends, Post(a, b, re)
    PROVE  /\ posted' \in Seq(Message) /\ Grown
           /\ Len(posted) + 1 \in DOMAIN posted' /\ posted'[Len(posted) + 1].re = re
<1>1. [from |-> a, to |-> b, re |-> re] \in Message
  BY DEF Message
<1>2. posted \in Seq(Message) /\ posted' = Append(posted, [from |-> a, to |-> b, re |-> re])
  BY DEF Post, PostsTyped
<1>3. /\ posted' \in Seq(Message) /\ Len(posted') = Len(posted) + 1
      /\ \A i \in 1 .. Len(posted) : posted'[i] = posted[i]
      /\ posted'[Len(posted) + 1] = [from |-> a, to |-> b, re |-> re]
  BY <1>1, <1>2, AppendProperties
<1>4. DOMAIN posted = 1 .. Len(posted) /\ Len(posted) \in Nat /\ DOMAIN posted' = 1 .. Len(posted')
  BY <1>2, <1>3, LenProperties
<1> QED
  BY <1>3, <1>4 DEF Grown

\* An agent's call changes at most, nothing else that the invariant reads; what
\* has aged interrupts no more.
LEMMA CallMoves ==
    ASSUME ExchangeInv, posted' \in Seq(Message), Grown, box' = box, aged \subseteq aged',
           NEW a \in Talkers, NEW c,
           \/ call' = call /\ c = call[a]
           \/ call' = [call EXCEPT ![a] = c],
           \/ c = call[a]
           \/ /\ c \in CallsOf(DOMAIN posted')
              /\ c.op # "none" => posted'[c.re].re = NoReply
              /\ c.op = "wait" => \A i \in box[a] : ~ Matches(i, c) /\ ~ Interrupts(i)
    PROVE  ExchangeInv'
<1> USE DEF ExchangeInv
<1>1. \A b \in Talkers : /\ call[b] \in CallsOf(DOMAIN posted) /\ box[b] \subseteq DOMAIN posted
                         /\ call[b] \in CallsOf(DOMAIN posted')
  <2>1. \A b \in Talkers : call[b] \in CallsOf(DOMAIN posted) /\ box[b] \subseteq DOMAIN posted
    BY DEF PostsTyped, CallsOf
  <2>2. CallsOf(DOMAIN posted) \subseteq CallsOf(DOMAIN posted')
    BY CallShapes DEF Grown
  <2> QED
    BY <2>1, <2>2
<1>2. call' = [b \in Talkers |-> IF b = a THEN c ELSE call[b]]
  BY DEF PostsTyped
<1>3. \A b \in Talkers : call[b].op # "none" => posted'[call[b].re].re = NoReply
  <2>1. \A b \in Talkers : call[b].op # "none" => call[b].re \in DOMAIN posted
    BY <1>1, CallShapes
  <2> QED
    BY <2>1 DEF CallsAskRequests, Grown
<1>4. PostsTyped'
  <2>1. call' \in [Talkers -> CallsOf(DOMAIN posted')]
    BY <1>1, <1>2
  <2>2. box' \in [Talkers -> SUBSET (DOMAIN posted')]
    BY DEF PostsTyped, Grown
  <2> QED
    BY <2>1, <2>2 DEF PostsTyped, CallsOf
<1>5. CallsAskRequests'
  <2>1. c.op # "none" => posted'[c.re].re = NoReply
    BY <1>3
  <2> QED
    BY <1>2, <1>3, <2>1 DEF CallsAskRequests
<1>6. \A b \in Talkers : call'[b].op = "wait" => \A i \in box[b] : ~ Matches(i, call'[b]) /\ ~ Interrupts(i)
  <2>1. c.op = "wait" => \A i \in box[a] : ~ Matches(i, c) /\ ~ Interrupts(i)
    BY DEF NothingMissed
  <2> QED
    BY <1>2, <2>1 DEF NothingMissed
<1>7. \A b \in Talkers : \A i \in box[b] : posted'[i] = posted[i]
  BY <1>1 DEF Grown
<1>8. NothingMissed'
  <2>1. \A b \in Talkers : call'[b].op = "wait" =>
           \A i \in box'[b] : posted'[i].re # call'[b].re /\ ~ (posted'[i].re = NoReply /\ i \notin aged')
    BY <1>6, <1>7 DEF Matches, Interrupts
  <2> QED
    BY <2>1 DEF NothingMissed, Matches, Interrupts
<1> QED
  BY <1>4, <1>5, <1>8

LEMMA Still ==
    ASSUME posted' = posted, PostsTyped
    PROVE  posted' \in Seq(Message) /\ Grown
  BY DEF PostsTyped, Grown

LEMMA WaitStep ==
    ASSUME ExchangeInv, NEW a \in Talkers, NEW i \in DOMAIN posted, posted[i].re = NoReply,
           Wait(a, i), UNCHANGED <<posted, box, aged>>
    PROVE  ExchangeInv'
<1>1. PICK c : /\ call' = [call EXCEPT ![a] = c]
               /\ \/ c = NoCall
                  \/ /\ c = [op |-> "wait", re |-> i]
                     /\ \A j \in box[a] : posted[j].re # i /\ ~ Interrupts(j)
  BY DEF Wait
<1>2. c \in CallsOf(DOMAIN posted') /\ (c.op # "none" => posted'[c.re].re = NoReply)
  <2>1. [op |-> "wait", re |-> i] \in CallsOf(DOMAIN posted) /\ NoCall \in CallsOf(DOMAIN posted)
    BY CallShapes
  <2>2. c.op # "none" => c.re = i
    BY <1>1 DEF NoCall
  <2> QED
    BY <1>1, <2>1, <2>2
<1>3. c.op = "wait" => \A j \in box[a] : ~ Matches(j, c) /\ ~ Interrupts(j)
  BY <1>1, CallShapes DEF Matches
<1> QED
  BY <1>1, <1>2, <1>3, Still, CallMoves DEF ExchangeInv

LEMMA DeliverStep ==
    ASSUME ExchangeInv, NEW i \in DOMAIN posted, DeliverToAgent(i)
    PROVE  ExchangeInv'
<1> DEFINE a == posted[i].to
           woken == call[a].op = "wait" /\ (Matches(i, call[a]) \/ Interrupts(i))
<1> USE DEF ExchangeInv
<1>1. a \in Talkers
  <2>1. posted[i] \in Message
    BY ElementOfSeq, LenProperties DEF PostsTyped
  <2> QED
    BY <2>1 DEF Message
<1>2. /\ UNCHANGED <<posted, aged>> /\ box' = [box EXCEPT ![a] = @ \cup {i}]
      /\ call' = IF woken THEN [call EXCEPT ![a] = NoCall] ELSE call
  BY DEF DeliverToAgent, Add
<1>3. \A b \in Talkers : /\ call'[b] = IF b = a /\ woken THEN NoCall ELSE call[b]
                         /\ box'[b] = IF b = a THEN box[b] \cup {i} ELSE box[b]
  BY <1>1, <1>2 DEF PostsTyped
<1>4. PostsTyped'
  <2>1. call' \in [Talkers -> {NoCall} \cup [op : {"ack", "wait"}, re : DOMAIN posted]]
    BY <1>2 DEF PostsTyped
  <2>2. box' \in [Talkers -> SUBSET (DOMAIN posted)]
    BY <1>2 DEF PostsTyped
  <2> QED
    BY <1>2, <2>1, <2>2 DEF PostsTyped
<1>5. CallsAskRequests'
  BY <1>2, <1>3, CallShapes DEF CallsAskRequests
<1>6. NothingMissed'
  <2> SUFFICES ASSUME NEW b \in Talkers, call'[b].op = "wait", NEW j \in box'[b]
               PROVE  posted[j].re # call'[b].re /\ ~ (posted[j].re = NoReply /\ j \notin aged)
    BY <1>2 DEF NothingMissed, Matches, Interrupts
  <2>1. call'[b] = call[b] /\ ~ (b = a /\ woken)
    BY <1>3, CallShapes
  <2>2. CASE j \in box[b]
    BY <2>1, <2>2 DEF NothingMissed, Matches, Interrupts
  <2>3. CASE j \notin box[b]
    BY <1>3, <2>1, <2>3 DEF Matches, Interrupts
  <2> QED
    BY <2>2, <2>3
<1> QED
  BY <1>4, <1>5, <1>6

\* What is under way, queued or shown to an agent has been posted.
MailTyped ==
    /\ transit \subseteq DOMAIN posted
    /\ todo \in [Talkers -> SUBSET (DOMAIN posted)]
    /\ pend \in [Talkers -> Seq(DOMAIN posted)]

LEMMA PendGrows ==
    ASSUME MailTyped, Grown
    PROVE  pend \in [Talkers -> Seq(DOMAIN posted')]
<1>1. ASSUME NEW a \in Talkers PROVE pend[a] \in Seq(DOMAIN posted')
  BY SeqMonotonic DEF MailTyped, Grown
<1> QED
  BY <1>1 DEF MailTyped

LEMMA MailPosted ==
    ASSUME ExchangeInv, MailTyped, NEW a \in Talkers, NEW b \in Talkers, NEW re \in 0 .. MaxSends, Post(a, b, re),
           pend' = pend, \A c \in Talkers : todo'[c] \subseteq todo[c],
           todo' = [c \in Talkers |-> todo'[c]]
    PROVE  MailTyped'
<1>1. posted' \in Seq(Message) /\ Grown /\ Len(posted) + 1 \in DOMAIN posted'
  BY Posted DEF ExchangeInv
<1>2. transit' \subseteq DOMAIN posted'
  BY <1>1 DEF Post, MailTyped, Grown
<1>3. todo' \in [Talkers -> SUBSET (DOMAIN posted')]
  BY <1>1 DEF MailTyped, Grown
<1> QED
  BY <1>1, <1>2, <1>3, PendGrows DEF MailTyped

LEMMA MailMoves ==
    ASSUME MailTyped, posted' = posted, transit' \subseteq transit, PostsTyped,
           \/ todo' = todo
           \/ \E a \in Talkers : \E S : S \subseteq DOMAIN posted /\ todo' = [todo EXCEPT ![a] = @ \cup S],
           \/ pend' = pend
           \/ \E a \in Talkers : pend' = [pend EXCEPT ![a] = <<>>]
           \/ \E a \in Talkers : \E i \in DOMAIN posted : pend' = [pend EXCEPT ![a] = Append(@, i)]
    PROVE  MailTyped'
<1>1. transit' \subseteq DOMAIN posted
  BY DEF MailTyped
<1>2. todo' \in [Talkers -> SUBSET (DOMAIN posted)]
  BY DEF MailTyped
<1>3. \A q \in Seq(DOMAIN posted), i \in DOMAIN posted : Append(q, i) \in Seq(DOMAIN posted)
  BY AppendProperties
<1>4. <<>> \in Seq(DOMAIN posted)
  BY EmptySeq
<1>5. pend' \in [Talkers -> Seq(DOMAIN posted)]
  <2>1. ASSUME NEW a \in Talkers, NEW i \in DOMAIN posted, pend' = [pend EXCEPT ![a] = Append(@, i)]
        PROVE  pend' \in [Talkers -> Seq(DOMAIN posted)]
    <3>1. Append(pend[a], i) \in Seq(DOMAIN posted)
      BY <1>3 DEF MailTyped
    <3> QED
      BY <2>1, <3>1 DEF MailTyped
  <2>2. ASSUME NEW a \in Talkers, pend' = [pend EXCEPT ![a] = <<>>]
        PROVE  pend' \in [Talkers -> Seq(DOMAIN posted)]
    BY <1>4, <2>2 DEF MailTyped
  <2>3. pend' = pend => pend' \in [Talkers -> Seq(DOMAIN posted)]
    BY DEF MailTyped
  <2> QED
    BY <2>1, <2>2, <2>3
<1> QED
  BY <1>1, <1>2, <1>5 DEF MailTyped

-----------------------------------------------------------------------------
(* The steps *)

LEMMA SendStep ==
    ASSUME ExchangeInv, MailTyped, NEW a \in Talkers,
           \/ \E b \in Talkers : AgentRequest(a, b)
           \/ \E i \in MsgIds : Answer(a, i)
    PROVE  ExchangeInv' /\ MailTyped'
<1> USE DEF ExchangeInv
<1>1. ASSUME NEW b \in Talkers, AgentRequest(a, b)
      PROVE  ExchangeInv' /\ MailTyped'
  <2>1. NoReply \in 0 .. MaxSends /\ Post(a, b, NoReply)
    BY <1>1, ExchangeAssumption DEF AgentRequest, NoReply
  <2> DEFINE c == [op |-> "ack", re |-> Len(posted) + 1]
  <2>2. /\ posted' \in Seq(Message) /\ Grown
        /\ Len(posted) + 1 \in DOMAIN posted' /\ posted'[Len(posted) + 1].re = NoReply
    BY <2>1, Posted
  <2>3. /\ call' = [call EXCEPT ![a] = c] /\ UNCHANGED <<box, aged, pend, todo>>
        /\ c \in CallsOf(DOMAIN posted') /\ posted'[c.re].re = NoReply /\ c.op # "wait"
    BY <1>1, <2>2, CallShapes DEF AgentRequest
  <2>4. todo' = [d \in Talkers |-> todo'[d]]
    BY <2>3 DEF MailTyped
  <2> HIDE DEF c
  <2> QED
    BY <2>1, <2>2, <2>3, <2>4, CallMoves, MailPosted
<1>2. ASSUME NEW i \in MsgIds, Answer(a, i)
      PROVE  ExchangeInv' /\ MailTyped'
  <2>1. i \in DOMAIN posted
    BY <1>2 DEF Answer, MailTyped
  <2>2. posted[i] \in Message
    BY <2>1, ElementOfSeq, LenProperties DEF PostsTyped
  <2>3. posted[i].from \in Talkers /\ i \in 0 .. MaxSends /\ Post(a, posted[i].from, i)
    BY <1>2, <2>2, ExchangeAssumption DEF Answer, Message, MsgIds
  <2>4. UNCHANGED <<box, aged, pend, call>> /\ todo' = [todo EXCEPT ![a] = @ \ {i}]
    BY <1>2 DEF Answer
  <2>5. posted' \in Seq(Message) /\ Grown
    BY <2>3, Posted
  <2>6. todo' = [d \in Talkers |-> todo'[d]] /\ \A d \in Talkers : todo'[d] \subseteq todo[d]
    BY <2>4 DEF MailTyped
  <2> QED
    BY <2>3, <2>4, <2>5, <2>6, CallMoves, MailPosted
<1> QED
  BY <1>1, <1>2

LEMMA WaitsStep ==
    ASSUME ExchangeInv, MailTyped, NEW a \in Talkers,
           AckReceived(a) \/ CallEnds(a) \/ \E i \in MsgIds : WaitMessage(a, i)
    PROVE  ExchangeInv' /\ MailTyped'
<1> USE DEF ExchangeInv
<1>1. ASSUME NEW i \in DOMAIN posted, Wait(a, i), UNCHANGED <<posted, box, transit, pend>>
      PROVE  MailTyped'
  <2>1. \E S : S \subseteq DOMAIN posted /\ todo' = [todo EXCEPT ![a] = @ \cup S]
    BY <1>1 DEF Wait, PostsTyped
  <2> QED
    BY <1>1, <2>1, MailMoves
<1>2. CASE AckReceived(a)
  <2>1. call[a].re \in DOMAIN posted /\ posted[call[a].re].re = NoReply
    BY <1>2, CallShapes DEF AckReceived, CallsAskRequests, PostsTyped, CallsOf
  <2> QED
    BY <1>1, <1>2, <2>1, WaitStep DEF AckReceived
<1>3. CASE CallEnds(a)
  BY <1>3, Still, CallMoves, CallShapes, MailMoves DEF CallEnds
<1>4. ASSUME NEW i \in MsgIds, WaitMessage(a, i)
      PROVE  ExchangeInv' /\ MailTyped'
  BY <1>1, <1>4, WaitStep DEF WaitMessage
<1> QED
  BY <1>2, <1>3, <1>4

LEMMA ArrivalStep ==
    ASSUME ExchangeInv, MailTyped, NEW i \in transit, DeliverToAgent(i)
    PROVE  ExchangeInv' /\ MailTyped'
<1>1. i \in DOMAIN posted /\ posted[i].to \in Talkers
  <2>1. i \in DOMAIN posted
    BY DEF MailTyped
  <2>2. posted[i] \in Message
    BY <2>1, ElementOfSeq, LenProperties DEF ExchangeInv, PostsTyped
  <2> QED
    BY <2>1, <2>2 DEF Message
<1>2. Seen({i}) \subseteq DOMAIN posted
  BY <1>1 DEF Seen
<1>3. MailTyped'
  BY <1>1, <1>2, MailMoves DEF DeliverToAgent, Add, ExchangeInv
<1> QED
  BY <1>1, <1>3, DeliverStep

\* Runs, drains and the passing of time.
LEMMA RunStep ==
    ASSUME ExchangeInv, MailTyped, NEW a \in Talkers,
           \/ Drain(a) \/ AgentStart(a) \/ AgentEnd(a)
           \/ \E g \in settles[a] : SettleRun(a, g)
           \/ \E i \in MsgIds : Ages(i)
    PROVE  ExchangeInv' /\ MailTyped'
<1>1. UNCHANGED <<posted, box, call, transit>> /\ aged \subseteq aged'
  BY DEF Drain, AgentStart, AgentEnd, SettleRun, Ages
<1>2. ExchangeInv'
  BY <1>1, Still, CallMoves DEF ExchangeInv
<1>3. ASSUME NEW S, S = Seen({i \in {pend[a][k] : k \in DOMAIN pend[a]} : ~ \E j \in DOMAIN posted : posted[j].re = i})
      PROVE  S \subseteq DOMAIN posted
  <2>1. \A k \in DOMAIN pend[a] : pend[a][k] \in DOMAIN posted
    BY ElementOfSeq, LenProperties DEF MailTyped
  <2> QED
    BY <1>3, <2>1 DEF Seen
<1>4. MailTyped'
  <2>1. CASE Drain(a)
    BY <1>1, <1>3, <2>1, MailMoves DEF Drain, ExchangeInv
  <2>2. CASE ~ Drain(a)
    BY <1>1, <2>2, MailMoves DEF AgentStart, AgentEnd, SettleRun, Ages, ExchangeInv
  <2> QED
    BY <2>1, <2>2
<1> QED
  BY <1>2, <1>4

LEMMA ExchangeInitially ==
    ASSUME ExchangeInit
    PROVE  ExchangeInv /\ MailTyped
<1>1. posted = <<>> /\ posted \in Seq(Message) /\ DOMAIN posted = {}
  BY EmptySeq DEF ExchangeInit
<1>2. \A S : <<>> \in Seq(S)
  BY EmptySeq
<1>3. MailTyped
  BY <1>1, <1>2 DEF ExchangeInit, MailTyped
<1>4. PostsTyped
  BY <1>1 DEF ExchangeInit, PostsTyped
<1>5. CallsAskRequests /\ NothingMissed
  BY CallShapes DEF ExchangeInit, CallsAskRequests, NothingMissed
<1> QED
  BY <1>3, <1>4, <1>5 DEF ExchangeInv

(***************************************************************************)
(* For any agents and messages, and whatever arrives, ages, ends or throws *)
(* between two steps of the tools: `MeshInbox.wait' leaves nobody blocked  *)
(* on a reply it has, and no two agents wait for each other on requests    *)
(* both have been shown, unless both requests outlived the grace period.   *)
(***************************************************************************)
THEOREM NobodyWaitsInACircle == ExchangeSpec => []NoMutualWait
<1>1. ExchangeInit => ExchangeInv /\ MailTyped
  BY ExchangeInitially
<1>2. ExchangeInv /\ MailTyped /\ [ExchangeNext]_exchangeVars => ExchangeInv' /\ MailTyped'
  <2> SUFFICES ASSUME ExchangeInv, MailTyped, [ExchangeNext]_exchangeVars PROVE ExchangeInv' /\ MailTyped'
    OBVIOUS
  <2>1. CASE UNCHANGED exchangeVars
    BY <2>1 DEF exchangeVars, ExchangeInv, PostsTyped, CallsAskRequests, NothingMissed, Matches, Interrupts,
       MailTyped
  <2>2. CASE \E i \in MsgIds : Ages(i)
    <3>1. CASE Talkers = {}
      BY <2>2, <3>1 DEF Ages, ExchangeInv, PostsTyped, CallsAskRequests, NothingMissed, MailTyped
    <3> QED
      BY <2>2, <3>1, RunStep
  <2>3. CASE ExchangeNext
    BY <2>2, <2>3, SendStep, WaitsStep, ArrivalStep, RunStep DEF ExchangeNext
  <2> QED
    BY <2>1, <2>3
<1>3. ExchangeInv => NoMutualWait
  <2> SUFFICES ASSUME ExchangeInv, NEW a \in Talkers, call[a].op = "wait"
               PROVE  /\ ~ \E i \in box[a] : posted[i].re = call[a].re
                      /\ \A b \in Talkers : call[b].op = "wait" /\ a # b =>
                            ~ ( /\ call[a].re \in box[b] /\ call[b].re \in box[a]
                                /\ call[a].re \notin aged \/ call[b].re \notin aged )
    BY DEF NoMutualWait
  <2>1. \A b \in Talkers : call[b].op = "wait" => \A i \in box[b] : posted[i].re # call[b].re
                                /\ ~ (posted[i].re = NoReply /\ i \notin aged)
    BY DEF ExchangeInv, NothingMissed, Matches, Interrupts
  <2>2. \A b \in Talkers : call[b].op = "wait" => posted[call[b].re].re = NoReply
    BY DEF ExchangeInv, CallsAskRequests
  <2> QED
    BY <2>1, <2>2
<1> QED
  BY <1>1, <1>2, <1>3, PTL DEF ExchangeSpec

-----------------------------------------------------------------------------
(***************************************************************************)
(* The key of the machine.  A process that is about to mint has looked in  *)
(* the places it may look in; SearchedRight says for each step what a      *)
(* process at it has already ruled out about the time it began.            *)
(***************************************************************************)

IdentityShapes ==
    /\ step \in [Users -> Steps] /\ heard \in [Users -> {"nothing", "empty", "threw"}]
    /\ DOMAIN mine = Users /\ DOMAIN began = Users
    /\ \A p \in Users : \E r, d, b, x \in BOOLEAN :
          began[p] = [ring |-> r, disk |-> d, paired |-> b, blind |-> x]
    /\ minted \in Nat /\ torn \in BOOLEAN

\* What a process found when it began does not go away unnoticed.
BeganHolds(p) ==
    /\ began[p].ring => ring # NoKey
    /\ began[p].disk => disk # NoKey
    /\ began[p].paired => devices # {}

\* A process that has looked in the file, or in the keyring, found nothing there.
LookedInFile(p) ==
    \/ step[p] \in {"peers", "mint"}
    \/ p \notin KeychainUsers /\ step[p] \in {"ring", "legacy", "promote"}
LookedInRing(p) ==
    \/ p \in KeychainUsers /\ step[p] \in {"file", "peers", "mint"}
    \/ p \in FileUsers /\ CoreKeyring /\ step[p] \in {"peers", "mint"}

SearchedRight(p) ==
    /\ step[p] \notin {"idle", "pairing", "writing"} => mine[p] = NoKey
    /\ step[p] \in {"idle", "pairing", "writing"} => heard[p] = "nothing"
    /\ LookedInFile(p) => ~ began[p].disk
    /\ LookedInRing(p) => heard[p] # "nothing"
    /\ step[p] \in {"legacy", "promote"} \/ heard[p] = "empty" => ~ began[p].ring
    /\ step[p] = "mint" =>
          (began[p].paired => began[p].blind) /\ ~ (heard[p] = "threw" /\ CoreKeyring)

IdentityInv == IdentityShapes /\ \A p \in Users : BeganHolds(p) /\ SearchedRight(p)

\* A process takes a step of its own; the write of peers.json is on its own.
Own(p) ==
    \/ Resolve(p) \/ ReadRing(p) \/ ReadLegacy(p) \/ PromoteLegacy(p) \/ DropLegacy(p)
    \/ ReadFile(p) \/ CheckPeers(p) \/ Mint(p)
    \/ provisionFileIdentity(p) \/ PairDevice(p) \/ TruncatePeers(p) \/ Exit(p) \/ Die(p)
    \/ \E k \in Keys : UnpairDevice(p, k)

LEMMA BeganShapes ==
    /\ ~ Fresh.ring /\ ~ Fresh.disk /\ ~ Fresh.paired
    /\ \E r, d, b, x \in BOOLEAN : Fresh = [ring |-> r, disk |-> d, paired |-> b, blind |-> x]
    /\ \A r, d, b, x : /\ [ring |-> r, disk |-> d, paired |-> b, blind |-> x].ring = r
                       /\ [ring |-> r, disk |-> d, paired |-> b, blind |-> x].disk = d
                       /\ [ring |-> r, disk |-> d, paired |-> b, blind |-> x].paired = b
                       /\ [ring |-> r, disk |-> d, paired |-> b, blind |-> x].blind = x
<1>1. ~ Fresh.ring /\ ~ Fresh.disk /\ ~ Fresh.paired
  BY DEF Fresh
<1>2. \E r, d, b, x \in BOOLEAN : Fresh = [ring |-> r, disk |-> d, paired |-> b, blind |-> x]
  BY DEF Fresh
<1>3. \A r, d, b, x : /\ [ring |-> r, disk |-> d, paired |-> b, blind |-> x].ring = r
                     /\ [ring |-> r, disk |-> d, paired |-> b, blind |-> x].disk = d
                     /\ [ring |-> r, disk |-> d, paired |-> b, blind |-> x].paired = b
                     /\ [ring |-> r, disk |-> d, paired |-> b, blind |-> x].blind = x
  OBVIOUS
<1> QED
  BY <1>1, <1>2, <1>3

\* All records gone from peers.json, or a look at one that cannot be parsed.
LEMMA Amended ==
    ASSUME NEW r, NEW d, NEW b, NEW x, NEW e, e = [ring |-> r, disk |-> d, paired |-> b, blind |-> x],
           NEW y
    PROVE  /\ [e EXCEPT !.paired = y] = [ring |-> r, disk |-> d, paired |-> y, blind |-> x]
           /\ [e EXCEPT !.blind = y] = [ring |-> r, disk |-> d, paired |-> b, blind |-> y]
  OBVIOUS

\* Nobody takes an entry away: neither the keyring's nor the file's.
LEMMA StoresKept ==
    ASSUME IdentityInv, NEW p \in Users, Own(p)
    PROVE  /\ ring # NoKey => ring' # NoKey
           /\ disk # NoKey => disk' # NoKey
           /\ devices # {} => devices' # {}
<1>1. minted + 2 # NoKey /\ LegacyKey # NoKey
  BY DEF IdentityInv, IdentityShapes, NoKey, LegacyKey
<1>2. ring # NoKey => ring' # NoKey
  BY <1>1 DEF Own, Resolve, ReadRing, ReadLegacy, PromoteLegacy, DropLegacy, ReadFile, CheckPeers, Mint, GoMint,
     provisionFileIdentity, PairDevice, UnpairDevice, TruncatePeers, Exit, Die, peersVars
<1>3. disk # NoKey => disk' # NoKey
  BY <1>1 DEF Own, Resolve, ReadRing, ReadLegacy, PromoteLegacy, DropLegacy, ReadFile, CheckPeers, Mint, GoMint,
     provisionFileIdentity, PairDevice, UnpairDevice, TruncatePeers, Exit, Die, peersVars
<1>4. devices # {} => devices' # {}
  BY DEF Own, Resolve, ReadRing, ReadLegacy, PromoteLegacy, DropLegacy, ReadFile, CheckPeers, Mint, GoMint,
     provisionFileIdentity, PairDevice, UnpairDevice, TruncatePeers, Exit, Die, peersVars
<1> QED
  BY <1>2, <1>3, <1>4

\* What p remembers of the search that it begins or goes on with.
LEMMA Remembered ==
    ASSUME IdentityInv, NEW p \in Users, Own(p)
    PROVE  \/ began' = began
           \/ began' = [began EXCEPT ![p] = Fresh]
           \/ began' = [began EXCEPT ![p] = [ring |-> ring # NoKey, disk |-> disk # NoKey,
                                      paired |-> devices # {}, blind |-> FALSE]]
              /\ Resolve(p)
           \/ began' = [began EXCEPT ![p].blind = torn]
  BY DEF Own, Resolve, ReadRing, ReadLegacy, PromoteLegacy, DropLegacy, ReadFile, CheckPeers, Mint, GoMint,
     provisionFileIdentity, PairDevice, UnpairDevice, TruncatePeers, Exit, Die, peersVars,
     Finish, Return, Fail, Continue, AfterRing

\* A look at peers.json is remembered beside what was there at the start.
LEMMA Looked ==
    ASSUME IdentityInv, NEW p \in Users, began' = [began EXCEPT ![p].blind = torn]
    PROVE  /\ \E r, d, b, x \in BOOLEAN : began'[p] = [ring |-> r, disk |-> d, paired |-> b, blind |-> x]
           /\ began'[p].ring = began[p].ring /\ began'[p].disk = began[p].disk
           /\ began'[p].paired = began[p].paired /\ began'[p].blind = torn
<1>1. PICK r \in BOOLEAN, d \in BOOLEAN, b \in BOOLEAN, x \in BOOLEAN :
        began[p] = [ring |-> r, disk |-> d, paired |-> b, blind |-> x]
  BY DEF IdentityInv, IdentityShapes
<1>2. began'[p] = [began[p] EXCEPT !.blind = torn]
  BY DEF IdentityInv, IdentityShapes
<1>3. began'[p] = [ring |-> r, disk |-> d, paired |-> b, blind |-> torn]
  BY <1>1, <1>2, Amended
<1>4. torn \in BOOLEAN
  BY DEF IdentityInv, IdentityShapes
<1>5. /\ began'[p].ring = began[p].ring /\ began'[p].disk = began[p].disk
      /\ began'[p].paired = began[p].paired /\ began'[p].blind = torn
  BY <1>1, <1>3, BeganShapes
<1> QED
  BY <1>3, <1>4, <1>5, Zenon

LEMMA BeganStep ==
    ASSUME IdentityInv, NEW p \in Users, Own(p)
    PROVE  \A q \in Users : BeganHolds(q)'
<1> USE DEF IdentityInv
<1>1. ASSUME NEW q \in Users, began'[q] = began[q] \/ began'[q] = Fresh
      PROVE  BeganHolds(q)'
  BY <1>1, StoresKept, BeganShapes DEF BeganHolds
<1>2. CASE Resolve(p)
  <2>1. /\ UNCHANGED <<ring, disk, devices>>
        /\ began' = [began EXCEPT ![p] = [ring |-> ring # NoKey, disk |-> disk # NoKey,
                                      paired |-> devices # {}, blind |-> FALSE]]
    BY <1>2 DEF Resolve, peersVars
  <2>2. BeganHolds(p)'
    <3> DEFINE r == ring # NoKey
               d == disk # NoKey
               b == devices # {}
               no == FALSE
    <3>1. began'[p] = [ring |-> r, disk |-> d, paired |-> b, blind |-> no]
      BY <2>1 DEF IdentityShapes
    <3> HIDE DEF r, d, b, no
    <3>2. began'[p].ring = r /\ began'[p].disk = d /\ began'[p].paired = b
      BY <3>1, BeganShapes
    <3> QED
      BY <2>1, <3>2 DEF BeganHolds, r, d, b
  <2>3. ASSUME NEW q \in Users, q # p PROVE began'[q] = began[q]
    BY <2>1, <2>3
  <2> QED
    BY <1>1, <2>2, <2>3
<1>3. CASE began' = began \/ began' = [began EXCEPT ![p] = Fresh]
  <2>1. \A q \in Users : began'[q] = began[q] \/ began'[q] = Fresh
    BY <1>3 DEF IdentityShapes
  <2> QED
    BY <1>1, <2>1
<1>4. CASE began' = [began EXCEPT ![p].blind = torn]
  <2>1. ASSUME NEW q \in Users, q # p PROVE BeganHolds(q)'
    BY <1>1, <1>4, <2>1
  <2>2. BeganHolds(p)'
    <3>1. began'[p].ring = began[p].ring /\ began'[p].disk = began[p].disk /\ began'[p].paired = began[p].paired
      BY <1>4, Looked
    <3> QED
      BY <3>1, StoresKept DEF BeganHolds
  <2> QED
    BY <2>1, <2>2
<1> QED
  BY <1>2, <1>3, <1>4, Remembered

\* The step of one process leaves the search of another alone.
LEMMA OthersSearch ==
    ASSUME IdentityInv, NEW p \in Users, Own(p), NEW q \in Users, q # p
    PROVE  SearchedRight(q)'
<1>1. began'[q] = began[q]
  BY Remembered DEF IdentityInv, IdentityShapes
<1>2. step'[q] = step[q] /\ heard'[q] = heard[q] /\ mine'[q] = mine[q]
  BY DEF Own, Resolve, ReadRing, ReadLegacy, PromoteLegacy, DropLegacy, ReadFile, CheckPeers, Mint, GoMint,
     provisionFileIdentity, PairDevice, UnpairDevice, TruncatePeers, Exit, Die, peersVars,
     Finish, Return, Fail, Continue, AfterRing, StepTo, IdentityInv, IdentityShapes
<1> QED
  BY <1>1, <1>2 DEF IdentityInv, SearchedRight, LookedInFile, LookedInRing

LEMMA ShapesStep ==
    ASSUME IdentityInv, NEW p \in Users, Own(p)
    PROVE  IdentityShapes'
<1> USE DEF IdentityInv, IdentityShapes
<1>1. step' \in [Users -> Steps] /\ heard' \in [Users -> {"nothing", "empty", "threw"}]
  BY DEF Own, Resolve, ReadRing, ReadLegacy, PromoteLegacy, DropLegacy, ReadFile, CheckPeers, Mint, GoMint,
     provisionFileIdentity, PairDevice, UnpairDevice, TruncatePeers, Exit, Die, peersVars,
     Finish, Return, Fail, Continue, AfterRing, StepTo, Steps
<1>2. DOMAIN mine' = Users /\ minted' \in Nat
  BY DEF Own, Resolve, ReadRing, ReadLegacy, PromoteLegacy, DropLegacy, ReadFile, CheckPeers, Mint, GoMint,
     provisionFileIdentity, PairDevice, UnpairDevice, TruncatePeers, Exit, Die, peersVars, Return, Fail, AfterRing
<1>3. \A q \in Users : \E r, d, b, x \in BOOLEAN :
         began'[q] = [ring |-> r, disk |-> d, paired |-> b, blind |-> x]
  <2> DEFINE found == [ring |-> ring # NoKey, disk |-> disk # NoKey, paired |-> devices # {}, blind |-> FALSE]
  <2>1. \E r, d, b, x \in BOOLEAN : found = [ring |-> r, disk |-> d, paired |-> b, blind |-> x]
    <3>1. (ring # NoKey) \in BOOLEAN /\ (disk # NoKey) \in BOOLEAN /\ (devices # {}) \in BOOLEAN
          /\ FALSE \in BOOLEAN
      BY Zenon
    <3> QED
      BY <3>1, Zenon
  <2>2. DOMAIN began = Users
    OBVIOUS
  <2>3. \A q \in Users : \/ began'[q] = began[q] \/ began'[q] = Fresh \/ began'[q] = found
                         \/ began' = [began EXCEPT ![p].blind = torn] /\ q = p
    <3> HIDE DEF found
    <3>1. \/ began' = began \/ began' = [began EXCEPT ![p] = Fresh]
          \/ began' = [began EXCEPT ![p] = found] \/ began' = [began EXCEPT ![p].blind = torn]
      BY Remembered DEF found
    <3> QED
      BY <2>2, <3>1
  <2>4. \E r, d, b, x \in BOOLEAN : Fresh = [ring |-> r, disk |-> d, paired |-> b, blind |-> x]
    BY BeganShapes
  <2> HIDE DEF found
  <2> TAKE q \in Users
  <2>5. \/ began'[q] = began[q] \/ began'[q] = Fresh \/ began'[q] = found
        \/ began' = [began EXCEPT ![p].blind = torn] /\ q = p
    BY <2>3
  <2>6. CASE began'[q] = began[q]
    BY <2>6, Zenon
  <2>7. CASE began'[q] = Fresh
    BY <2>4, <2>7, Zenon
  <2>8. CASE began'[q] = found
    BY <2>1, <2>8, Zenon
  <2>9. CASE began' = [began EXCEPT ![p].blind = torn] /\ q = p
    BY <2>9, Looked
  <2> QED
    BY <2>5, <2>6, <2>7, <2>8, <2>9
<1>4. DOMAIN began' = Users
  BY Remembered, Zenon
<1>5. torn' \in BOOLEAN
  <2>1. torn' = torn \/ torn' = TRUE
    BY DEF Own, Resolve, ReadRing, ReadLegacy, PromoteLegacy, DropLegacy, ReadFile, CheckPeers, Mint,
       provisionFileIdentity, PairDevice, UnpairDevice, TruncatePeers, Exit, Die, peersVars
  <2> QED
    BY <2>1, Zenon
<1> QED
  BY <1>1, <1>2, <1>3, <1>4, <1>5

\* A process that leaves, or has the key of its run, is searching no more.
LEMMA Left ==
    ASSUME IdentityInv, NEW p \in Users, Finish(p)
    PROVE  SearchedRight(p)'
<1>1. step'[p] = "idle" /\ heard'[p] = "nothing"
  BY DEF Finish, StepTo, IdentityInv, IdentityShapes
<1> QED
  BY <1>1 DEF SearchedRight, LookedInFile, LookedInRing

LEMMA RingSearch ==
    ASSUME IdentityInv, NEW p \in Users, ReadRing(p) \/ ReadLegacy(p) \/ PromoteLegacy(p)
    PROVE  SearchedRight(p)'
<1> USE DEF IdentityInv
<1>1. /\ ~ began[p].ring \/ At(p, "ring")
      /\ mine[p] = NoKey
      /\ began[p].ring => ring # NoKey
      /\ p \notin KeychainUsers => ~ began[p].disk
  BY DEF ReadRing, ReadLegacy, PromoteLegacy, At, SearchedRight, BeganHolds, LookedInFile
<1>2. CASE Finish(p)
  BY <1>2, Left
<1>3. ASSUME NEW next \in {"ring", "legacy", "promote"}, Continue(p, next), UNCHANGED mine,
             next # "ring" => ~ began[p].ring, heard[p] = "empty" => ~ began[p].ring
      PROVE  SearchedRight(p)'
  <2>1. step'[p] = next /\ heard'[p] = heard[p] /\ began'[p] = began[p] /\ mine'[p] = NoKey
    BY <1>1, <1>3 DEF Continue, StepTo, IdentityShapes
  <2> QED
    BY <1>1, <1>3, <2>1 DEF SearchedRight, LookedInFile, LookedInRing
<1>4. CASE Continue(p, "drop") /\ ~ began[p].ring /\ UNCHANGED mine
  <2>1. step'[p] = "drop" /\ began'[p] = began[p] /\ mine'[p] = NoKey
    BY <1>1, <1>4 DEF Continue, StepTo, IdentityShapes
  <2> QED
    BY <1>4, <2>1 DEF SearchedRight, LookedInFile, LookedInRing
<1>5. ASSUME NEW said \in {"threw", "empty"}, AfterRing(p, said), said = "empty" => ~ began[p].ring
      PROVE  SearchedRight(p)'
  <2>1. /\ step'[p] = (IF p \in KeychainUsers THEN "file" ELSE "peers") /\ heard'[p] = said
        /\ began'[p] = began[p] /\ mine'[p] = NoKey
    BY <1>1, <1>5 DEF AfterRing, StepTo, IdentityShapes
  <2> QED
    BY <1>1, <1>5, <2>1 DEF SearchedRight, LookedInFile, LookedInRing
<1>6. heard[p] = "empty" => ~ began[p].ring
  BY DEF SearchedRight
<1>7. CASE ReadRing(p)
  BY <1>1, <1>2, <1>3, <1>5, <1>6, <1>7 DEF ReadRing, Return
<1>8. CASE ReadLegacy(p) \/ PromoteLegacy(p)
  <2>1. ~ began[p].ring
    BY <1>8 DEF ReadLegacy, PromoteLegacy, At, SearchedRight
  <2> QED
    BY <1>3, <1>4, <1>5, <1>6, <1>8, <2>1 DEF ReadLegacy, PromoteLegacy
<1> QED
  BY <1>7, <1>8

LEMMA FileSearch ==
    ASSUME IdentityInv, NEW p \in Users, ReadFile(p)
    PROVE  SearchedRight(p)'
<1> USE DEF IdentityInv
<1>1. CASE Finish(p)
  BY <1>1, Left
<1>2. CASE /\ Continue(p, IF p \in FileUsers /\ CoreKeyring THEN "ring" ELSE "peers")
           /\ UNCHANGED mine /\ disk = NoKey
  <2>1. /\ step'[p] = (IF p \in FileUsers /\ CoreKeyring THEN "ring" ELSE "peers") /\ heard'[p] = heard[p]
        /\ began'[p] = began[p] /\ mine'[p] = mine[p]
    BY <1>2 DEF Continue, StepTo, IdentityShapes
  <2>2. At(p, "file") /\ SearchedRight(p) /\ ~ began[p].disk
    BY <1>2 DEF ReadFile, BeganHolds
  <2>3. mine[p] = NoKey /\ (p \in KeychainUsers => heard[p] # "nothing")
        /\ (heard[p] = "empty" => ~ began[p].ring)
    BY <2>2 DEF At, SearchedRight, LookedInRing
  <2>4. p \in FileUsers => p \notin KeychainUsers
    BY IdentityAssumption
  <2> QED
    BY <2>1, <2>2, <2>3, <2>4 DEF SearchedRight, LookedInFile, LookedInRing
<1> QED
  BY <1>1, <1>2 DEF ReadFile, Return, Fail

LEMMA PeersSearch ==
    ASSUME IdentityInv, NEW p \in Users, CheckPeers(p)
    PROVE  SearchedRight(p)'
<1> USE DEF IdentityInv
<1>1. CASE Finish(p)
  BY <1>1, Left
<1>2. CASE GoMint(p) /\ ~ (heard[p] = "threw" /\ CoreKeyring) /\ listPeers = {}
  <2>1. step'[p] = "mint" /\ heard'[p] = heard[p] /\ mine'[p] = mine[p]
    BY <1>2 DEF GoMint, StepTo, IdentityShapes
  <2>2. /\ began'[p].ring = began[p].ring /\ began'[p].disk = began[p].disk
        /\ began'[p].paired = began[p].paired /\ began'[p].blind = torn
    BY <1>2, Looked DEF GoMint
  <2>3. At(p, "peers") /\ SearchedRight(p) /\ (began[p].paired => torn)
    BY <1>2 DEF CheckPeers, BeganHolds, listPeers
  <2> QED
    BY <1>2, <2>1, <2>2, <2>3 DEF SearchedRight, LookedInFile, LookedInRing, At
<1> QED
  BY <1>1, <1>2 DEF CheckPeers, Fail

LEMMA OwnSearch ==
    ASSUME IdentityInv, NEW p \in Users, Own(p)
    PROVE  SearchedRight(p)'
<1> USE DEF IdentityInv
<1>1. CASE ReadRing(p) \/ ReadLegacy(p) \/ PromoteLegacy(p) \/ ReadFile(p) \/ CheckPeers(p)
  BY <1>1, RingSearch, FileSearch, PeersSearch
<1>2. CASE DropLegacy(p) \/ Mint(p)
  BY <1>2, Left DEF DropLegacy, Mint, Return, Fail
<1>3. CASE Resolve(p)
  <2>1. /\ step'[p] = (IF p \in KeychainUsers THEN "ring" ELSE "file") /\ heard'[p] = heard[p]
        /\ mine'[p] = NoKey
    BY <1>3 DEF Resolve, StepTo, IdentityShapes
  <2>2. heard[p] = "nothing"
    BY <1>3 DEF Resolve, At, SearchedRight
  <2> QED
    BY <2>1, <2>2 DEF SearchedRight, LookedInFile, LookedInRing
<1>4. CASE \/ provisionFileIdentity(p) \/ PairDevice(p) \/ TruncatePeers(p) \/ Exit(p) \/ Die(p)
           \/ \E k \in Keys : UnpairDevice(p, k)
  <2>1. /\ step'[p] \in {"idle", "pairing", "writing"} /\ step[p] \in {"idle", "pairing", "writing"}
        /\ heard'[p] = heard[p] /\ began'[p] = began[p]
    BY <1>4 DEF provisionFileIdentity, PairDevice, TruncatePeers, Exit, Die, UnpairDevice, At, StepTo,
       IdentityShapes
  <2>2. step[p] \in {"idle", "pairing", "writing"} => heard[p] = "nothing"
    BY DEF SearchedRight
  <2> QED
    BY <2>1, <2>2 DEF SearchedRight, LookedInFile, LookedInRing
<1> QED
  BY <1>1, <1>2, <1>3, <1>4 DEF Own

\* peers.json is written: with no record left, no pairing binds anyone.
LEMMA WriteStep ==
    ASSUME IdentityInv, NEW p \in Users, WritePeers(p)
    PROVE  IdentityInv'
<1> USE DEF IdentityInv
<1>1. UNCHANGED <<ring, disk, heard, mine, minted>> /\ devices' = toWrite[p]
  BY DEF WritePeers
<1>2. torn' \in BOOLEAN
  <2>1. (\E q \in Users \ {p} : At(q, "writing")) \in BOOLEAN
    BY Zenon
  <2> QED
    BY <2>1 DEF WritePeers
<1>3. /\ step' = [step EXCEPT ![p] = "idle"] /\ step[p] = "writing"
      /\ step' \in [Users -> Steps]
  BY DEF WritePeers, StepTo, At, IdentityShapes, Steps
<1>4. ASSUME NEW q \in Users
      PROVE  /\ \E r, d, b, x \in BOOLEAN : began'[q] = [ring |-> r, disk |-> d, paired |-> b, blind |-> x]
             /\ began'[q].ring = began[q].ring /\ began'[q].disk = began[q].disk
             /\ began'[q].paired => began[q].paired /\ devices' # {}
             /\ began'[q].blind = began[q].blind
  <2>1. PICK r \in BOOLEAN, d \in BOOLEAN, b \in BOOLEAN, x \in BOOLEAN :
          began[q] = [ring |-> r, disk |-> d, paired |-> b, blind |-> x]
    BY DEF IdentityShapes
  <2>2. CASE toWrite[p] = {}
    <3> DEFINE no == FALSE
    <3>1. no \in BOOLEAN /\ ~ no
      OBVIOUS
    <3>2. began'[q] = [began[q] EXCEPT !.paired = no]
      BY <2>2 DEF WritePeers
    <3> HIDE DEF no
    <3>3. began'[q] = [ring |-> r, disk |-> d, paired |-> no, blind |-> x]
      BY <2>1, <3>2, Amended
    <3>4. /\ began'[q].ring = began[q].ring /\ began'[q].disk = began[q].disk /\ began'[q].paired = no
          /\ began'[q].blind = began[q].blind
      BY <2>1, <3>3, BeganShapes
    <3> QED
      BY <3>1, <3>3, <3>4, Zenon
  <2>3. CASE toWrite[p] # {}
    <3>1. began' = began
      BY <2>3 DEF WritePeers
    <3> QED
      BY <1>1, <2>1, <2>3, <3>1, Zenon
  <2> QED
    BY <2>2, <2>3
<1>5. IdentityShapes'
  <2>1. DOMAIN began' = Users
    BY DEF WritePeers, IdentityShapes
  <2> QED
    BY <1>1, <1>2, <1>3, <1>4, <2>1 DEF IdentityShapes
<1>6. \A q \in Users : BeganHolds(q)'
  BY <1>1, <1>4 DEF BeganHolds
<1>7. \A q \in Users : SearchedRight(q)'
  <2> TAKE q \in Users
  <2>1. SearchedRight(q)
    OBVIOUS
  <2>2. CASE q = p
    BY <1>1, <1>3, <2>1, <2>2 DEF SearchedRight, LookedInFile, LookedInRing, IdentityShapes
  <2>3. CASE q # p
    <3>1. step'[q] = step[q] /\ heard'[q] = heard[q] /\ mine'[q] = mine[q]
      BY <1>1, <1>3, <2>3 DEF IdentityShapes
    <3> QED
      BY <1>4, <2>1, <3>1 DEF SearchedRight, LookedInFile, LookedInRing
  <2> QED
    BY <2>2, <2>3
<1> QED
  BY <1>5, <1>6, <1>7

\* What happens around the processes.
LEMMA AroundStep ==
    ASSUME IdentityInv, Upset
    PROVE  IdentityInv'
<1> USE DEF IdentityInv
<1>1. UNCHANGED <<ring, step, heard, mine, minted, began, devices>>
  BY DEF Upset
<1>2. disk # NoKey => disk' # NoKey
  BY IdentityAssumption DEF Upset, Damaged, NoKey
<1>3. torn' = torn \/ torn' = TRUE
  BY DEF Upset
<1>4. torn' \in BOOLEAN
  BY <1>3, Zenon DEF IdentityShapes
<1>5. IdentityShapes'
  BY <1>1, <1>4 DEF IdentityShapes
<1>6. \A p \in Users : BeganHolds(p)'
  BY <1>1, <1>2 DEF BeganHolds
<1>7. \A p \in Users : SearchedRight(p)'
  BY <1>1 DEF SearchedRight, LookedInFile, LookedInRing
<1> QED
  BY <1>5, <1>6, <1>7

LEMMA IdentityInitially ==
    ASSUME IdentityInit
    PROVE  IdentityInv
<1>1. \A p \in Users : began[p] = Fresh /\ step[p] = "idle" /\ heard[p] = "nothing"
  BY DEF IdentityInit
<1>2. IdentityShapes
  <2>1. \A p \in Users : \E r, d, b, x \in BOOLEAN :
           began[p] = [ring |-> r, disk |-> d, paired |-> b, blind |-> x]
    BY <1>1, BeganShapes, Zenon
  <2> QED
    BY <2>1 DEF IdentityInit, IdentityShapes, Steps
<1>3. \A p \in Users : BeganHolds(p) /\ SearchedRight(p)
  BY <1>1, BeganShapes DEF BeganHolds, SearchedRight, LookedInFile, LookedInRing
<1> QED
  BY <1>2, <1>3 DEF IdentityInv

LEMMA IdentityStep ==
    ASSUME IdentityInv, [IdentityNext]_identityVars
    PROVE  IdentityInv'
<1>1. ASSUME NEW p \in Users, Own(p)
      PROVE  IdentityInv'
  <2>1. \A q \in Users : SearchedRight(q)'
    BY <1>1, OwnSearch, OthersSearch
  <2> QED
    BY <1>1, <2>1, BeganStep, ShapesStep DEF IdentityInv
<1>2. CASE UNCHANGED identityVars
  BY <1>2 DEF identityVars, IdentityInv, IdentityShapes, BeganHolds, SearchedRight, LookedInFile, LookedInRing
<1> QED
  BY <1>1, <1>2, WriteStep, AroundStep DEF IdentityNext, Own

\* What a mint finds is what the invariant says of a process about to mint.
LEMMA MintsSafely ==
    ASSUME IdentityInv, [IdentityNext]_identityVars, NEW p \in Users, At(p, "mint"), mine'[p] # NoKey
    PROVE  /\ ~ began[p].disk /\ (began[p].paired => began[p].blind)
           /\ began[p].ring => \/ p \in Daemons
                               \/ ~ CoreKeyring /\ (p \in FileUsers \/ heard[p] = "threw")
<1>1. SearchedRight(p) /\ step[p] = "mint"
  BY DEF IdentityInv, At
<1>2. ~ began[p].disk /\ (began[p].paired => began[p].blind)
  BY <1>1 DEF SearchedRight, LookedInFile
<1>3. ASSUME began[p].ring, p \notin Daemons
      PROVE  ~ CoreKeyring /\ (p \in FileUsers \/ heard[p] = "threw")
  <2>1. p \in KeychainUsers \/ p \in FileUsers
    BY <1>3 DEF Users
  <2>2. heard[p] \in {"nothing", "empty", "threw"} /\ heard[p] # "empty"
    BY <1>1, <1>3 DEF IdentityInv, IdentityShapes, SearchedRight
  <2>3. CASE heard[p] = "threw"
    BY <1>1, <2>1, <2>3 DEF SearchedRight
  <2>4. CASE heard[p] = "nothing"
    BY <1>1, <2>1, <2>4 DEF SearchedRight, LookedInRing
  <2> QED
    BY <2>2, <2>3, <2>4
<1> QED
  BY <1>2, <1>3

(***************************************************************************)
(* For any processes, locked keyrings, damaged files and interleavings:    *)
(* getOrCreateEd25519Keypair (pairing/storage.ts) mints a key only where   *)
(* the file had none when it began and the keyring none that the process   *)
(* may read, and over a device paired then only if peers.json could not be *)
(* parsed when the process looked in it, or has lost its last record since.*)
(***************************************************************************)
THEOREM MintSafe == IdentitySpec => SafeMint
<1>1. IdentityInit => IdentityInv
  BY IdentityInitially
<1>2. IdentityInv /\ [IdentityNext]_identityVars => IdentityInv'
  BY IdentityStep
<1>3. IdentityInv /\ [IdentityNext]_identityVars =>
         [\A p \in Users : At(p, "mint") /\ mine'[p] # NoKey =>
            /\ ~ began[p].disk /\ (began[p].paired => began[p].blind)
            /\ began[p].ring => \/ p \in Daemons
                                \/ ~ CoreKeyring /\ (p \in FileUsers \/ heard[p] = "threw")]_identityVars
  BY MintsSafely
<1> QED
  BY <1>1, <1>2, <1>3, PTL DEF IdentitySpec, SafeMint
=============================================================================
