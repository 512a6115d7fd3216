------------------------ MODULE BrokerRosterProofs ------------------------
(***************************************************************************)
(* The roster invariant of the broker for any number of processes,         *)
(* connections, names and folders, that no address is stolen, and that the *)
(* counts and names the processes show settle.                             *)
(***************************************************************************)
EXTENDS BrokerRoster, FiniteSetTheorems, WellFoundedInduction, TLAPS

\* A line put on a queue leaves a queue of lines.
LEMMA QueueType ==
    ASSUME NEW q \in Seq(Lines), NEW line \in Lines
    PROVE  Queue(q, line) \in Seq(Lines)
  <1>1. CASE q = <<>>
    BY <1>1 DEF Queue
  <1>2. CASE q # <<>>
    <2>1. Len(q) \in DOMAIN q /\ Append(q, line) \in Seq(Lines)
      BY <1>2
    <2>2. [q EXCEPT ![Len(q)] = line] \in Seq(Lines)
      BY <2>1
    <2> QED
      BY <2>1, <2>2 DEF Queue
  <1> QED
    BY <1>1, <1>2

\* Writing and broadcasting keep the wires well typed.
LEMMA WireType ==
    ASSUME NEW lines \in [Conns -> Seq(Lines)], NEW line \in Lines
    PROVE  /\ \A c \in Conns : Write(lines, c, line) \in [Conns -> Seq(Lines)]
           /\ \A ps, except :
                 broadcastSystem(lines, ps, line, except) \in [Conns -> Seq(Lines)]
  <1>1. \A c \in Conns : Queue(lines[c], line) \in Seq(Lines)
    BY QueueType
  <1> QED
    BY <1>1 DEF Write, broadcastSystem

\* The smallest free suffix is a free suffix.
LEMMA SmallestFree ==
    ASSUME NEW free \in SUBSET (2 .. MaxSuffix), free # {}
    PROVE  (CHOOSE n \in free : \A m \in free : n <= m) \in free
  <1>1. free \subseteq Nat
    OBVIOUS
  <1>2. PICK n \in free : \A m \in free : ~(<<m, n>> \in OpToRel(<, Nat))
    BY <1>1, WFMin, NatLessThanWellFounded
  <1>r. \A i, j \in Nat : i < j => <<i, j>> \in OpToRel(<, Nat)
    BY Zenon DEF OpToRel
  <1>n. \A m \in free : ~(m < n)
    BY <1>1, <1>2, <1>r, Zenon
  <1>3. \A m \in free : n <= m
    BY <1>1, <1>n
  <1> QED
    BY <1>3

\* What _identityForRegister returns: an address of the folder that is free
\* while the roster has room, or the very address asked for by a takeover.
LEMMA IdentityResult ==
    ASSUME NEW ps, DOMAIN ps \subseteq Addresses, IsFiniteSet(DOMAIN ps),
           NEW cwd \in Cwds, NEW name \in Names, NEW takeover \in BOOLEAN,
           NEW a, a = identityForRegister(ps, cwd, name, takeover), a # None
    PROVE  /\ a \in Addresses
           /\ a[1] = cwd
           /\ a \in DOMAIN ps => takeover /\ cwd # NoCwd
           /\ a \notin DOMAIN ps => Cardinality(DOMAIN ps) < MaxPeers
  <1> DEFINE free == Candidates(ps, cwd, name)
             n == CHOOSE k \in free : \A m \in free : k <= m
  <1>1. free \subseteq {k \in 2 .. MaxSuffix : <<cwd, <<name[1], k>>>> \notin DOMAIN ps}
    BY DEF Candidates
  <1>2. <<cwd, name>> \in Addresses
    BY DEF Addresses
  <1>3. Cardinality(DOMAIN ps) \in Nat /\ MaxPeers \in Nat /\ MaxSuffix \in Nat
    BY FS_CardinalityType, RosterConstants
  <1>4. ASSUME free # {} PROVE n \in free
    <2>1. free \in SUBSET (2 .. MaxSuffix)
      BY <1>1
    <2> QED
      BY <2>1, <1>4, SmallestFree
  <1>5. ASSUME free # {}
        PROVE  <<cwd, <<name[1], n>>>> \in Addresses \ DOMAIN ps
    <2> HIDE DEF free, n
    <2>1. n \in 2 .. MaxSuffix /\ <<cwd, <<name[1], n>>>> \notin DOMAIN ps
      BY <1>1, <1>4, <1>5
    <2>2. n \in 0 .. MaxSuffix /\ name[1] \in Bases
      BY <2>1, <1>3 DEF Names
    <2> QED
      BY <2>1, <2>2 DEF Addresses, Names
  <1>6. CASE takeover /\ cwd # NoCwd /\ <<cwd, name>> \in DOMAIN ps
    BY <1>2, <1>6 DEF identityForRegister
  <1>7. CASE ~(takeover /\ cwd # NoCwd /\ <<cwd, name>> \in DOMAIN ps)
    <2>1. ~(Cardinality(DOMAIN ps) >= MaxPeers)
      BY <1>7 DEF identityForRegister
    <2>2. CASE <<cwd, name>> \notin DOMAIN ps
      BY <1>2, <1>3, <1>7, <2>1, <2>2 DEF identityForRegister
    <2>3. CASE <<cwd, name>> \in DOMAIN ps
      <3>1. free # {} /\ a = <<cwd, <<name[1], n>>>>
        BY <1>7, <2>1, <2>3 DEF identityForRegister
      <3> QED
        BY <1>3, <1>5, <2>1, <3>1
    <2> QED
      BY <2>2, <2>3
  <1> QED
    BY <1>6, <1>7

\* An empty roster satisfies the invariant.
LEMMA InitRoster == Init => RosterInv
  <1> SUFFICES ASSUME Init PROVE RosterInv
    OBVIOUS
  <1> USE RosterConstants
  <1>0. Listed = {}
    BY DEF Init, Listed
  <1>1. RegistryOK
    BY <1>0 DEF Init, RegistryOK
  <1>2. WiresOK
    BY DEF Init, WiresOK
  <1>3. EndsOK
    BY DEF Init, EndsOK
  <1>4. FieldsOK
    BY DEF Init, FieldsOK, Addresses
  <1>5. WithinLimit
    BY <1>0, FS_EmptySet DEF WithinLimit
  <1>6. Opened /\ RosterExact
    BY <1>0 DEF Init, Opened, RosterExact, Conns
  <1> QED
    BY <1>1, <1>2, <1>3, <1>4, <1>5, <1>6 DEF RosterInv, TypeOK

\* The kinds of line carry what their handlers read.
LEMMA LineFields ==
    ASSUME NEW line \in Lines
    PROVE  /\ line.k \in {"register", "rename"} => line.name \in Names
           /\ line.k \in {"register_ack", "rename_ack"} => line.address \in Addresses
           /\ line.k = "roster" => line.size \in Nat
  BY DEF Lines

\* The lines the broker and the processes write are lines.
LEMMA LinesMade ==
    /\ [k |-> "list_peers"] \in Lines /\ [k |-> "notice"] \in Lines
    /\ \A n \in Nat : [k |-> "roster", size |-> n] \in Lines
    /\ \A a \in Addresses : /\ [k |-> "register_ack", address |-> a] \in Lines
                            /\ [k |-> "rename_ack", address |-> a] \in Lines
    /\ \A nm \in Names : /\ [k |-> "register", name |-> nm] \in Lines
                         /\ [k |-> "rename", name |-> nm] \in Lines
  BY DEF Lines

\* Connection c is given address a, and the connections in dropped lose it.
Gives(c, a, dropped) ==
    /\ dropped = (IF a \in Listed THEN {peers[a]} ELSE {})
    /\ c \notin dropped
    /\ c <= joins /\ owner[c] \in Procs
    /\ a[1] = Cwd[owner[c]]
    /\ a \in Listed => Takeover[owner[c]] /\ a[1] # NoCwd
    /\ a \notin Listed => Cardinality(Listed) < MaxPeers
    /\ peers' = With(peers, a, c)
    /\ addr' = [d \in Conns |->
            IF d = c THEN a ELSE IF d \in dropped THEN None ELSE addr[d]]
    /\ srv' = [d \in Conns |-> IF d \in dropped THEN "destroyed" ELSE srv[d]]
    /\ up' = [d \in Conns |-> IF d = c THEN Tail(up[c])
                              ELSE IF d \in dropped THEN <<>> ELSE up[d]]
    /\ down' = broadcastSystem(
            Write(down, c, [k |-> "register_ack", address |-> a]),
            peers', [k |-> "notice"], a)

\* A registration: the address given, who held it, and how the roster changes.
LEMMA RegisterFacts ==
    ASSUME RosterInv, NEW c \in Conns, handleRegister(c)
    PROVE  \E a \in Addresses, dropped \in SUBSET Conns : Gives(c, a, dropped)
  <1> USE RosterConstants
  <1> DEFINE p == owner[c]
             a == identityForRegister(peers, Cwd[p], Head(up[c]).name, Takeover[p])
             dropped == IF a \in Listed THEN {peers[a]} ELSE {}
  <1>1. srv[c] = "open" /\ addr[c] = None /\ up[c] # <<>> /\ Head(up[c]).k = "register"
    BY DEF handleRegister, Arrives
  <1>2. c <= joins /\ p \in Procs
    BY <1>1 DEF RosterInv, Opened
  <1>3. Head(up[c]) \in Lines
    BY <1>1 DEF RosterInv, TypeOK, WiresOK
  <1>4. Head(up[c]).name \in Names
    BY <1>1, <1>3, LineFields
  <1>5. Cwd[p] \in Cwds /\ Takeover[p] \in BOOLEAN
    BY <1>2
  <1>6. Listed \subseteq Addresses /\ IsFiniteSet(Listed)
    BY DEF RosterInv, TypeOK, RegistryOK, WithinLimit
  <1>7. a # None
    BY DEF handleRegister
  <1>8. /\ a \in Addresses
        /\ a[1] = Cwd[p]
        /\ a \in Listed => Takeover[p] /\ a[1] # NoCwd
        /\ a \notin Listed => Cardinality(Listed) < MaxPeers
    <2> HIDE DEF p
    <2>1. a = identityForRegister(peers, Cwd[p], Head(up[c]).name, Takeover[p])
      OBVIOUS
    <2> HIDE DEF a
    <2> QED
      BY <2>1, <1>4, <1>5, <1>6, <1>7, IdentityResult DEF Listed
  <1>9. dropped \in SUBSET Conns /\ c \notin dropped
    <2> HIDE DEF a
    <2> QED
      BY <1>1, <1>8 DEF RosterInv, RosterExact, TypeOK, RegistryOK
  <1>10. /\ peers' = With(peers, a, c)
         /\ addr' = [d \in Conns |->
                 IF d = c THEN a ELSE IF d \in dropped THEN None ELSE addr[d]]
         /\ srv' = [d \in Conns |-> IF d \in dropped THEN "destroyed" ELSE srv[d]]
         /\ up' = [d \in Conns |-> IF d = c THEN Tail(up[c])
                                   ELSE IF d \in dropped THEN <<>> ELSE up[d]]
         /\ down' = broadcastSystem(
                 Write(down, c, [k |-> "register_ack", address |-> a]),
                 peers', [k |-> "notice"], a)
    BY DEF handleRegister
  <1> HIDE DEF p, a, dropped
  <1>11. dropped = IF a \in Listed THEN {peers[a]} ELSE {}
    BY DEF dropped
  <1> QED
    BY <1>2, <1>8, <1>9, <1>10, <1>11 DEF p, Gives

\* A rename in place: the peer was listed under its old address and moves to a
\* free one of its folder, or stays.
LEMMA RenameFacts ==
    ASSUME RosterInv, NEW c \in Conns, handleRename(c)
    PROVE  \E a \in Addresses :
             /\ addr[c] \in Listed /\ peers[addr[c]] = c
             /\ a \notin Listed \ {addr[c]}
             /\ peers' = With(Without(peers, addr[c]), a, c)
             /\ addr' = [addr EXCEPT ![c] = a]
             /\ up' = [up EXCEPT ![c] = Tail(@)]
             /\ up[c] # <<>>
             /\ down' \in [Conns -> Seq(Lines)]
  <1> USE RosterConstants
  <1> DEFINE old == addr[c]
             rest == Without(peers, old)
             found == identityForRegister(rest, old[1], Head(up[c]).name, FALSE)
             a == IF found = None THEN old ELSE found
             noticed(lines) == broadcastSystem(lines, rest, [k |-> "notice"], a)
  <1>1. srv[c] = "open" /\ old # None /\ up[c] # <<>> /\ Head(up[c]).k = "rename"
    BY DEF handleRename, Arrives
  <1>2. old \in Listed /\ peers[old] = c /\ old \in Addresses
    BY <1>1 DEF RosterInv, RosterExact, TypeOK, RegistryOK
  <1>3. Head(up[c]) \in Lines /\ down \in [Conns -> Seq(Lines)]
    BY <1>1 DEF RosterInv, TypeOK, WiresOK
  <1>4. Head(up[c]).name \in Names
    BY <1>1, <1>3, LineFields
  <1>5. DOMAIN rest = Listed \ {old}
    BY DEF Without, Listed
  <1>6. DOMAIN rest \subseteq Addresses /\ IsFiniteSet(DOMAIN rest)
    <2>1. Listed \subseteq Addresses /\ IsFiniteSet(Listed)
      BY DEF RosterInv, TypeOK, RegistryOK, WithinLimit
    <2>2. IsFiniteSet(Listed \ {old})
      BY <2>1, FS_RemoveElement
    <2> QED
      BY <1>5, <2>1, <2>2
  <1>7. old[1] \in Cwds
    BY <1>2 DEF Addresses
  <1>8. ASSUME found # None PROVE found \in Addresses /\ found \notin DOMAIN rest
    <2>1. found = identityForRegister(rest, old[1], Head(up[c]).name, FALSE)
      OBVIOUS
    <2> HIDE DEF found, rest, old
    <2>2. \A t \in BOOLEAN :
             ~t /\ found = identityForRegister(rest, old[1], Head(up[c]).name, t)
                => found \in Addresses /\ found \notin DOMAIN rest
      BY <1>4, <1>6, <1>7, <1>8, IdentityResult
    <2> QED
      BY <2>1, <2>2, Zenon
  <1>9. a \in Addresses /\ a \notin Listed \ {old}
    <2> HIDE DEF found, rest
    <2> QED
      BY <1>2, <1>5, <1>8
  <1>10. /\ addr' = [addr EXCEPT ![c] = a]
         /\ peers' = With(rest, a, c)
         /\ down' = Write(IF found = None THEN down ELSE noticed(noticed(down)), c,
                          [k |-> "rename_ack", address |-> a])
         /\ up' = [up EXCEPT ![c] = Tail(@)]
    BY DEF handleRename
  <1>11. down' \in [Conns -> Seq(Lines)]
    <2> HIDE DEF a, found, rest
    <2>1. noticed(down) \in [Conns -> Seq(Lines)]
      BY <1>3, WireType, LinesMade
    <2>2. noticed(noticed(down)) \in [Conns -> Seq(Lines)]
      BY <2>1, WireType, LinesMade
    <2> HIDE DEF noticed
    <2>3. (IF found = None THEN down ELSE noticed(noticed(down))) \in [Conns -> Seq(Lines)]
      BY <1>3, <2>2
    <2> QED
      BY <1>9, <1>10, <2>3, WireType, LinesMade
  <1> HIDE DEF a
  <1> QED
    BY <1>1, <1>2, <1>9, <1>10, <1>11

\* A process' write keeps the wires well typed.
LEMMA SendType ==
    ASSUME RosterInv, NEW p \in Procs, NEW line \in Lines, Send(p, line)
    PROVE  up' \in [Conns -> Seq(Lines)]
  <1>1. up \in [Conns -> Seq(Lines)]
    BY DEF RosterInv, TypeOK, WiresOK
  <1>2. sock[p] # 0 => sock[p] \in Conns
    BY RosterConstants DEF RosterInv, TypeOK, EndsOK, Conns
  <1> QED
    BY <1>1, <1>2, WireType DEF Send

\* What a handler of the process reads from its connection.
LEMMA ReceiveFacts ==
    ASSUME RosterInv, NEW p \in Procs, NEW kind, Receives(p, kind)
    PROVE  /\ down' \in [Conns -> Seq(Lines)]
           /\ Head(down[sock[p]]) \in Lines
           /\ Head(down[sock[p]]).k = kind
  <1>1. down \in [Conns -> Seq(Lines)] /\ sock[p] \in Conns
    BY RosterConstants DEF RosterInv, TypeOK, WiresOK, EndsOK, Conns, Receives
  <1> QED
    BY <1>1 DEF Receives

\* Closing the process' end keeps the types.
LEMMA CloseEndType ==
    ASSUME RosterInv, NEW p \in Procs, CloseEnd(p)
    PROVE  EndsOK' /\ down' \in [Conns -> Seq(Lines)]
  <1>1. EndsOK /\ down \in [Conns -> Seq(Lines)] /\ 0 \in 0 .. MaxJoins
    BY RosterConstants DEF RosterInv, TypeOK, WiresOK
  <1>2. EndsOK'
    BY <1>1 DEF EndsOK, CloseEnd
  <1>3. <<>> \in Seq(Lines)
    OBVIOUS
  <1>4. down' \in [Conns -> Seq(Lines)]
    BY <1>1, <1>3 DEF CloseEnd
  <1> QED
    BY <1>2, <1>4

\* A step of the broker keeps every field within its type.
LEMMA BrokerType ==
    ASSUME RosterInv, NEW c \in Conns, BrokerStep(c)
    PROVE  TypeOK'
  <1> USE RosterConstants
  <1>0. RegistryOK /\ WiresOK /\ EndsOK /\ FieldsOK
    BY DEF RosterInv, TypeOK
  <1>1. EndsOK' /\ FieldsOK'
    <2>1. UNCHANGED <<ends, identity, renaming, view, left>>
      BY DEF BrokerStep, RefuseRegister, handleRegister, handleRename,
             handleListPeers, onClose
    <2> QED
      BY <1>0, <2>1 DEF EndsOK, FieldsOK, ends, identity, renaming, view
  <1>2. CASE RefuseRegister(c)
    BY <1>0, <1>1, <1>2 DEF RefuseRegister, TypeOK, RegistryOK, WiresOK, Listed
  <1>3. CASE handleRegister(c)
    <2>1. PICK a \in Addresses, dropped \in SUBSET Conns : Gives(c, a, dropped)
      BY <1>3, RegisterFacts
    <2>2. RegistryOK'
      BY <1>0, <2>1 DEF Gives, RegistryOK, Listed, With
    <2>3. up[c] # <<>>
      BY <1>3 DEF handleRegister, Arrives
    <2>4. up' \in [Conns -> Seq(Lines)]
      BY <1>0, <2>1, <2>3 DEF Gives, WiresOK
    <2>5. Write(down, c, [k |-> "register_ack", address |-> a]) \in [Conns -> Seq(Lines)]
      BY <1>0, WireType, LinesMade DEF WiresOK
    <2>6. down' \in [Conns -> Seq(Lines)]
      BY <2>1, <2>5, WireType, LinesMade DEF Gives
    <2> QED
      BY <1>1, <2>2, <2>4, <2>6 DEF TypeOK, WiresOK
  <1>4. CASE handleRename(c)
    <2>1. PICK a \in Addresses :
             /\ peers' = With(Without(peers, addr[c]), a, c)
             /\ addr' = [addr EXCEPT ![c] = a]
             /\ up' = [up EXCEPT ![c] = Tail(@)]
             /\ up[c] # <<>>
             /\ down' \in [Conns -> Seq(Lines)]
      BY <1>4, RenameFacts
    <2>2. srv' = srv
      BY <1>4 DEF handleRename
    <2>3. RegistryOK'
      BY <1>0, <2>1, <2>2 DEF RegistryOK, Listed, With, Without
    <2> QED
      BY <1>0, <1>1, <2>1, <2>3 DEF TypeOK, WiresOK
  <1>5. CASE handleListPeers(c)
    <2>1. RegistryOK'
      BY <1>0, <1>5 DEF handleListPeers, registry, RegistryOK, Listed
    <2>2. up' \in [Conns -> Seq(Lines)]
      <3>1. up[c] # <<>> /\ up' = [up EXCEPT ![c] = Tail(@)]
        BY <1>5 DEF handleListPeers, Arrives
      <3>2. Tail(up[c]) \in Seq(Lines)
        BY <1>0, <3>1 DEF WiresOK
      <3> QED
        BY <1>0, <3>1, <3>2 DEF WiresOK
    <2>3. Cardinality(Listed) \in Nat
      BY FS_CardinalityType DEF RosterInv, WithinLimit
    <2>4. down' \in [Conns -> Seq(Lines)]
      <3>1. CASE addr[c] \in Listed
        <4>1. peers[addr[c]] \in Conns
          BY <1>0, <3>1 DEF RegistryOK
        <4>2. [k |-> "roster", size |-> Cardinality(Listed)] \in Lines
          BY <2>3, LinesMade
        <4>3. down' = Write(down, peers[addr[c]],
                            [k |-> "roster", size |-> Cardinality(Listed)])
          BY <1>5, <3>1 DEF handleListPeers
        <4> QED
          BY <1>0, <4>1, <4>2, <4>3, WireType DEF WiresOK
      <3>2. CASE addr[c] \notin Listed
        BY <1>0, <1>5, <3>2 DEF handleListPeers, WiresOK
      <3> QED
        BY <3>1, <3>2
    <2> QED
      BY <1>0, <1>1, <2>1, <2>2, <2>4 DEF TypeOK, WiresOK
  <1>6. CASE onClose(c)
    <2>1. RegistryOK'
      BY <1>0, <1>6 DEF onClose, RegistryOK, Listed, Without
    <2>2. up' \in [Conns -> Seq(Lines)]
      BY <1>0, <1>6 DEF onClose, WiresOK
    <2>3. down' \in [Conns -> Seq(Lines)]
      BY <1>0, <1>6, WireType, LinesMade DEF onClose, WiresOK
    <2> QED
      BY <1>1, <2>1, <2>2, <2>3 DEF TypeOK, WiresOK
  <1> QED
    BY <1>2, <1>3, <1>4, <1>5, <1>6 DEF BrokerStep

\* A step of a process keeps every field within its type.
LEMMA ProcType ==
    ASSUME RosterInv, NEW p \in Procs, ProcStep(p)
    PROVE  TypeOK'
  <1> USE RosterConstants
  <1>0. RegistryOK /\ WiresOK /\ EndsOK /\ FieldsOK
    BY DEF RosterInv, TypeOK
  <1>u. ASSUME UNCHANGED registry PROVE RegistryOK'
    BY <1>0, <1>u DEF RegistryOK, Listed, registry
  <1>e. ASSUME UNCHANGED ends PROVE EndsOK'
    BY <1>0, <1>e DEF EndsOK, ends
  <1>1. CASE Join(p)
    <2>1. joins + 1 \in Conns /\ joins + 1 \in 0 .. MaxJoins
      BY <1>0, <1>1 DEF Join, EndsOK, Conns
    <2>2. RegistryOK'
      BY <1>0, <1>1, <2>1 DEF Join, RegistryOK, Listed
    <2>3. EndsOK'
      BY <1>0, <1>1, <2>1 DEF Join, EndsOK
    <2>4. <<[k |-> "register", name |-> want[p]]>> \in Seq(Lines)
      <3>1. [k |-> "register", name |-> want[p]] \in Lines
        BY <1>0, LinesMade DEF FieldsOK
      <3>2. \A line \in Lines : <<line>> \in Seq(Lines)
        OBVIOUS
      <3> QED
        BY <3>1, <3>2, Zenon
    <2>5. WiresOK'
      <3>1. up' = [up EXCEPT ![joins + 1] = <<[k |-> "register", name |-> want[p]]>>]
        BY <1>1 DEF Join
      <3>2. down' = down
        BY <1>1 DEF Join
      <3> QED
        BY <1>0, <2>4, <3>1, <3>2 DEF WiresOK
    <2>6. FieldsOK'
      BY <1>0, <1>1 DEF Join, FieldsOK, identity, view
    <2> QED
      BY <2>2, <2>3, <2>5, <2>6 DEF TypeOK
  <1>2. CASE onSocketClose(p)
    <2>1. EndsOK' /\ down' \in [Conns -> Seq(Lines)]
      BY <1>2, CloseEndType DEF onSocketClose
    <2>2. FieldsOK'
      BY <1>0, <1>2 DEF onSocketClose, FieldsOK, renaming, view
    <2>3. RegistryOK' /\ up' = up
      BY <1>u, <1>2 DEF onSocketClose
    <2> QED
      BY <1>0, <2>1, <2>2, <2>3 DEF TypeOK, WiresOK
  <1>3. CASE leave(p)
    <2>1. EndsOK' /\ down' \in [Conns -> Seq(Lines)]
      BY <1>0, <1>e, <1>3, CloseEndType DEF leave, WiresOK
    <2>2. FieldsOK'
      BY <1>0, <1>3 DEF leave, FieldsOK, identity, renaming, view
    <2>3. RegistryOK' /\ up' = up
      BY <1>u, <1>3 DEF leave
    <2> QED
      BY <1>0, <2>1, <2>2, <2>3 DEF TypeOK, WiresOK
  <1>4. CASE RenameTimeout(p)
    <2>1. FieldsOK'
      BY <1>0, <1>4 DEF RenameTimeout, FieldsOK, identity, view
    <2>2. RegistryOK' /\ EndsOK' /\ up' = up /\ down' = down
      BY <1>u, <1>e, <1>4 DEF RenameTimeout, wires
    <2> QED
      BY <1>0, <2>1, <2>2 DEF TypeOK, WiresOK
  <1>5. CASE OnRegisterAck(p)
    <2>1. /\ down' \in [Conns -> Seq(Lines)]
          /\ Head(down[sock[p]]).address \in Addresses
      BY <1>5, ReceiveFacts, LineFields DEF OnRegisterAck
    <2>2. Head(down[sock[p]]).address[2] \in Names
      BY <2>1 DEF Addresses
    <2>3. FieldsOK'
      <3> DEFINE a == Head(down[sock[p]]).address
      <3>1. /\ pname' = [pname EXCEPT ![p] = a[2]]
            /\ paddr' = [paddr EXCEPT ![p] = a]
            /\ stage' = [stage EXCEPT ![p] = "joined"]
            /\ count' = [count EXCEPT ![p] = IF stage[p] = "start" THEN 1 ELSE @]
            /\ UNCHANGED <<want, renaming, blind, left>>
        BY <1>5 DEF OnRegisterAck
      <3> HIDE DEF a
      <3>2. a \in Addresses /\ a[2] \in Names
        BY <2>1, <2>2 DEF a
      <3>3. count' \in [Procs -> Nat]
        BY <1>0, <3>1 DEF FieldsOK
      <3> QED
        BY <1>0, <3>1, <3>2, <3>3 DEF FieldsOK, renaming
    <2>4. up' \in [Conns -> Seq(Lines)]
      BY <1>0, <1>5, SendType, LinesMade DEF OnRegisterAck, WiresOK
    <2> QED
      BY <1>u, <1>e, <1>5, <2>1, <2>3, <2>4 DEF OnRegisterAck, TypeOK, WiresOK
  <1>6. CASE OnRenameAck(p)
    <2>1. /\ down' \in [Conns -> Seq(Lines)]
          /\ Head(down[sock[p]]).address \in Addresses
      BY <1>6, ReceiveFacts, LineFields DEF OnRenameAck
    <2>2. Head(down[sock[p]]).address[2] \in Names
      BY <2>1 DEF Addresses
    <2>3. FieldsOK'
      <3> DEFINE name == Head(down[sock[p]]).address[2]
      <3>1. \/ UNCHANGED <<ctl, timers, identity>>
            \/ /\ ctl' = [ctl EXCEPT ![p] = 0]
               /\ timers' = [timers EXCEPT ![p] = @ \ {ctl[p]}]
               /\ pname' = [pname EXCEPT ![p] = name]
               /\ want' = [want EXCEPT ![p] = name]
               /\ UNCHANGED <<paddr, stage>>
        BY <1>6 DEF OnRenameAck
      <3>2. UNCHANGED <<renames, slipped, view, left>>
        BY <1>6 DEF OnRenameAck
      <3> HIDE DEF name
      <3>3. name \in Names
        BY <2>2 DEF name
      <3> QED
        BY <1>0, <3>1, <3>2, <3>3 DEF FieldsOK, identity, view
    <2> QED
      BY <1>0, <1>u, <1>e, <1>6, <2>1, <2>3 DEF OnRenameAck, TypeOK, WiresOK
  <1>7. CASE OnNotice(p)
    <2>1. down' \in [Conns -> Seq(Lines)] /\ up' \in [Conns -> Seq(Lines)]
      BY <1>7, ReceiveFacts, SendType, LinesMade DEF OnNotice
    <2>2. FieldsOK'
      BY <1>0, <1>7 DEF OnNotice, FieldsOK, identity, renaming, view
    <2> QED
      BY <1>u, <1>e, <1>7, <2>1, <2>2 DEF OnNotice, TypeOK, WiresOK
  <1>8. CASE OnRoster(p)
    <2>1. down' \in [Conns -> Seq(Lines)] /\ Head(down[sock[p]]).size \in Nat
      BY <1>8, ReceiveFacts, LineFields DEF OnRoster
    <2>2. FieldsOK'
      BY <1>0, <1>8, <2>1 DEF OnRoster, FieldsOK, identity, renaming
    <2> QED
      BY <1>0, <1>u, <1>e, <1>8, <2>1, <2>2 DEF OnRoster, TypeOK, WiresOK
  <1>9. ASSUME NEW base \in Bases, rename(p, base) PROVE TypeOK'
    <2>0. <<base, 0>> \in Names
      BY DEF Names
    <2>1. EndsOK' /\ down' \in [Conns -> Seq(Lines)]
      BY <1>9, CloseEndType DEF rename
    <2>2. FieldsOK'
      BY <1>0, <1>9, <2>0 DEF rename, FieldsOK
    <2>3. RegistryOK' /\ up' = up
      BY <1>u, <1>9 DEF rename
    <2> QED
      BY <1>0, <2>1, <2>2, <2>3 DEF TypeOK, WiresOK
  <1>10. ASSUME NEW base \in Bases, renameInPlace(p, base) PROVE TypeOK'
    <2>0. <<base, 0>> \in Names
      BY DEF Names
    <2>1. up' \in [Conns -> Seq(Lines)] /\ down' = down
      BY <1>10, <2>0, SendType, LinesMade DEF renameInPlace
    <2>2. FieldsOK'
      BY <1>0, <1>10 DEF renameInPlace, FieldsOK, identity, view
    <2> QED
      BY <1>0, <1>u, <1>e, <1>10, <2>1, <2>2 DEF renameInPlace, TypeOK, WiresOK
  <1> QED
    BY <1>1, <1>2, <1>3, <1>4, <1>5, <1>6, <1>7, <1>8, <1>9, <1>10 DEF ProcStep

\* The broker's part of a process step: at most one new connection, without an
\* address.
LEMMA ProcRegistry ==
    ASSUME RosterInv, NEW p \in Procs, ProcStep(p)
    PROVE  /\ peers' = peers /\ addr' = addr
           /\ \/ srv' = srv /\ owner' = owner /\ joins' = joins
              \/ /\ joins + 1 \in Conns /\ joins' = joins + 1
                 /\ srv' = [srv EXCEPT ![joins + 1] = "open"]
                 /\ owner' = [owner EXCEPT ![joins + 1] = p]
  <1>1. CASE Join(p)
    <2>1. joins + 1 \in Conns
      BY <1>1, RosterConstants DEF Join, RosterInv, TypeOK, EndsOK, Conns
    <2> QED
      BY <1>1, <2>1 DEF Join
  <1>2. CASE ~Join(p)
    BY <1>2 DEF ProcStep, onSocketClose, leave, RenameTimeout, OnRegisterAck,
                OnRenameAck, OnNotice, OnRoster, rename, renameInPlace, CloseEnd,
                registry, ends
  <1> QED
    BY <1>1, <1>2

\* Every step keeps the roster exact, within its limit, and the slots in order.
LEMMA NextRoster == RosterInv /\ [Next]_vars => Opened' /\ RosterExact' /\ WithinLimit'
  <1> SUFFICES ASSUME RosterInv, [Next]_vars
               PROVE  Opened' /\ RosterExact' /\ WithinLimit'
    OBVIOUS
  <1> USE RosterConstants
  <1>0. RegistryOK /\ EndsOK /\ Opened /\ RosterExact /\ WithinLimit
    BY DEF RosterInv, TypeOK
  <1>t. IsFiniteSet(Listed) /\ Cardinality(Listed) \in Nat /\ MaxPeers \in Nat
    BY <1>0, FS_CardinalityType DEF WithinLimit
  <1>1. ASSUME UNCHANGED <<peers, addr>>, UNCHANGED <<srv, owner, joins>>
        PROVE  Opened' /\ RosterExact' /\ WithinLimit'
    BY <1>0, <1>1 DEF Opened, RosterExact, WithinLimit, Listed
  <1>2. CASE UNCHANGED vars
    BY <1>1, <1>2 DEF vars, registry, ends
  <1>3. ASSUME NEW p \in Procs, ProcStep(p)
        PROVE  Opened' /\ RosterExact' /\ WithinLimit'
    <2>1. CASE srv' = srv /\ owner' = owner /\ joins' = joins
      BY <1>1, <1>3, <2>1, ProcRegistry
    <2>2. CASE /\ joins + 1 \in Conns /\ joins' = joins + 1
               /\ srv' = [srv EXCEPT ![joins + 1] = "open"]
               /\ owner' = [owner EXCEPT ![joins + 1] = p]
      <3>1. peers' = peers /\ addr' = addr
        BY <1>3, ProcRegistry
      <3>2. addr[joins + 1] = None /\ srv[joins + 1] = "unused"
        BY <1>0, <2>2 DEF Opened, EndsOK, Conns
      <3>3. Opened'
        BY <1>0, <2>2, <3>1 DEF Opened, EndsOK, RegistryOK, Conns
      <3>4. RosterExact'
        BY <1>0, <2>2, <3>1, <3>2 DEF RosterExact, RegistryOK, Listed
      <3>5. WithinLimit'
        BY <1>0, <3>1 DEF WithinLimit, Listed
      <3> QED
        BY <3>3, <3>4, <3>5
    <2> QED
      BY <1>3, <2>1, <2>2, ProcRegistry
  <1>4. ASSUME NEW c \in Conns, BrokerStep(c)
        PROVE  Opened' /\ RosterExact' /\ WithinLimit'
    <2>0. UNCHANGED <<owner, joins>>
      BY <1>4 DEF BrokerStep, RefuseRegister, handleRegister, handleRename,
                  handleListPeers, onClose, ends
    <2>1. CASE RefuseRegister(c)
      <3>1. /\ srv[c] = "open" /\ addr[c] = None
            /\ srv' = [srv EXCEPT ![c] = "destroyed"]
            /\ UNCHANGED <<peers, addr>>
        BY <2>1 DEF RefuseRegister, Arrives
      <3>2. RosterExact'
        BY <1>0, <3>1 DEF RosterExact, RegistryOK, Listed
      <3>3. Opened' /\ WithinLimit'
        BY <1>0, <2>0, <3>1 DEF Opened, WithinLimit, RegistryOK, Listed
      <3> QED
        BY <3>2, <3>3
    <2>2. CASE handleRegister(c)
      <3>1. PICK a \in Addresses, dropped \in SUBSET Conns : Gives(c, a, dropped)
        BY <2>2, RegisterFacts
      <3>2. srv[c] = "open" /\ addr[c] = None
        BY <2>2 DEF handleRegister, Arrives
      <3>3. /\ Listed' = Listed \cup {a}
            /\ peers'[a] = c
            /\ \A b \in Listed \ {a} : peers'[b] = peers[b]
        BY <3>1 DEF Gives, With, Listed
      <3>4. WithinLimit'
        <4>1. IsFiniteSet(Listed')
          BY <1>t, <3>3, FS_AddElement
        <4>2. CASE a \in Listed
          BY <1>0, <3>3, <4>1, <4>2 DEF WithinLimit
        <4>3. CASE a \notin Listed
          <5>1. Cardinality(Listed') = Cardinality(Listed) + 1
            BY <1>t, <3>3, <4>3, FS_AddElement
          <5> QED
            BY <1>t, <3>1, <4>1, <4>3, <5>1 DEF WithinLimit, Gives
        <4> QED
          BY <4>2, <4>3
      <3>5. \A d \in dropped : d <= joins
        BY <1>0, <3>1 DEF Gives, Opened, RosterExact, RegistryOK, EndsOK, Conns
      <3>6. Opened'
        BY <1>0, <2>0, <3>1, <3>5 DEF Gives, Opened
      <3>7. ASSUME NEW b \in Listed' PROVE addr'[peers'[b]] = b /\ srv'[peers'[b]] = "open"
        <4>1. CASE b = a
          BY <3>1, <3>2, <3>3, <4>1 DEF Gives
        <4>2. CASE b # a
          <5>1. b \in Listed /\ peers'[b] = peers[b] /\ peers[b] \in Conns
            BY <1>0, <3>3, <3>7, <4>2 DEF RegistryOK
          <5>2. addr[peers[b]] = b /\ srv[peers[b]] = "open"
            BY <1>0, <5>1 DEF RosterExact
          <5>3. peers[b] # c /\ peers[b] \notin dropped
            BY <1>0, <3>1, <3>2, <4>2, <5>1, <5>2 DEF Gives, RosterExact, RegistryOK
          <5> QED
            BY <3>1, <5>1, <5>2, <5>3 DEF Gives
        <4> QED
          BY <4>1, <4>2
      <3>8. ASSUME NEW d \in Conns, srv'[d] = "open", addr'[d] # None
            PROVE  addr'[d] \in Listed' /\ peers'[addr'[d]] = d
        <4>1. CASE d = c
          BY <3>1, <3>3, <4>1 DEF Gives
        <4>2. CASE d # c
          <5>1. d \notin dropped /\ addr'[d] = addr[d] /\ srv[d] = "open"
            BY <3>1, <3>8, <4>2 DEF Gives
          <5>2. addr[d] \in Listed /\ peers[addr[d]] = d
            BY <1>0, <3>8, <5>1 DEF RosterExact
          <5>3. addr[d] # a
            BY <3>1, <5>1, <5>2 DEF Gives
          <5> QED
            BY <3>3, <5>1, <5>2, <5>3
        <4> QED
          BY <4>1, <4>2
      <3> QED
        BY <3>4, <3>6, <3>7, <3>8 DEF RosterExact
    <2>3. CASE handleRename(c)
      <3>1. PICK a \in Addresses :
             /\ addr[c] \in Listed /\ peers[addr[c]] = c
             /\ a \notin Listed \ {addr[c]}
             /\ peers' = With(Without(peers, addr[c]), a, c)
             /\ addr' = [addr EXCEPT ![c] = a]
        BY <2>3, RenameFacts
      <3>2. srv' = srv /\ srv[c] = "open"
        BY <2>3 DEF handleRename, Arrives
      <3>3. /\ Listed' = (Listed \ {addr[c]}) \cup {a}
            /\ peers'[a] = c
            /\ \A b \in Listed \ {addr[c]} : peers'[b] = peers[b]
        BY <3>1 DEF With, Without, Listed
      <3>4. WithinLimit'
        <4>1. /\ IsFiniteSet(Listed \ {addr[c]})
              /\ Cardinality(Listed \ {addr[c]}) = Cardinality(Listed) - 1
          BY <1>t, <3>1, FS_RemoveElement
        <4>2. /\ IsFiniteSet((Listed \ {addr[c]}) \cup {a})
              /\ Cardinality((Listed \ {addr[c]}) \cup {a})
                    = Cardinality(Listed \ {addr[c]}) + 1
          BY <3>1, <4>1, FS_AddElement
        <4> QED
          BY <1>0, <1>t, <3>3, <4>1, <4>2 DEF WithinLimit
      <3>5. Opened'
        BY <1>0, <2>0, <3>1, <3>2 DEF Opened, RegistryOK
      <3>6. ASSUME NEW b \in Listed' PROVE addr'[peers'[b]] = b /\ srv'[peers'[b]] = "open"
        <4>1. CASE b = a
          BY <1>0, <3>1, <3>2, <3>3, <4>1 DEF RegistryOK
        <4>2. CASE b # a
          <5>1. b \in Listed \ {addr[c]} /\ peers'[b] = peers[b] /\ peers[b] \in Conns
            BY <1>0, <3>3, <3>6, <4>2 DEF RegistryOK
          <5>2. addr[peers[b]] = b /\ srv[peers[b]] = "open"
            BY <1>0, <5>1 DEF RosterExact
          <5> QED
            BY <1>0, <3>1, <3>2, <5>1, <5>2 DEF RegistryOK
        <4> QED
          BY <4>1, <4>2
      <3>7. ASSUME NEW d \in Conns, srv'[d] = "open", addr'[d] # None
            PROVE  addr'[d] \in Listed' /\ peers'[addr'[d]] = d
        <4>1. CASE d = c
          BY <1>0, <3>1, <3>3, <4>1 DEF RegistryOK
        <4>2. CASE d # c
          <5>1. addr'[d] = addr[d] /\ srv[d] = "open"
            BY <1>0, <3>1, <3>2, <3>7, <4>2 DEF RegistryOK
          <5>2. addr[d] \in Listed /\ peers[addr[d]] = d
            BY <1>0, <3>7, <5>1 DEF RosterExact
          <5>3. addr[d] # addr[c]
            BY <3>1, <4>2, <5>2
          <5> QED
            BY <3>3, <5>1, <5>2, <5>3
        <4> QED
          BY <4>1, <4>2
      <3> QED
        BY <3>4, <3>5, <3>6, <3>7 DEF RosterExact
    <2>4. CASE handleListPeers(c)
      BY <1>1, <2>0, <2>4 DEF handleListPeers, registry
    <2>5. CASE onClose(c)
      <3>1. /\ srv' = [srv EXCEPT ![c] = "closed"]
            /\ addr' = addr
            /\ c <= joins
        BY <1>0, <2>5 DEF onClose, Closing, Opened, EndsOK, Conns
      <3>2. Opened'
        BY <1>0, <2>0, <3>1 DEF Opened, RegistryOK
      <3>3. CASE addr[c] \in Listed /\ peers[addr[c]] = c
        <4>1. peers' = Without(peers, addr[c])
          BY <2>5, <3>3 DEF onClose
        <4>2. /\ Listed' = Listed \ {addr[c]}
              /\ \A b \in Listed' : peers'[b] = peers[b]
          BY <4>1 DEF Without, Listed
        <4>3. WithinLimit'
          <5>1. /\ IsFiniteSet(Listed')
                /\ Cardinality(Listed') = Cardinality(Listed) - 1
            BY <1>t, <3>3, <4>2, FS_RemoveElement
          <5> QED
            BY <1>0, <1>t, <5>1 DEF WithinLimit
        <4>4. RosterExact'
          BY <1>0, <3>1, <3>3, <4>2 DEF RosterExact, RegistryOK
        <4> QED
          BY <3>2, <4>3, <4>4
      <3>4. CASE ~(addr[c] \in Listed /\ peers[addr[c]] = c)
        <4>1. peers' = peers
          BY <2>5, <3>4 DEF onClose
        <4>2. RosterExact'
          BY <1>0, <3>1, <3>4, <4>1 DEF RosterExact, RegistryOK, Listed
        <4> QED
          BY <1>0, <3>2, <4>1, <4>2 DEF WithinLimit, Listed
      <3> QED
        BY <3>3, <3>4
    <2> QED
      BY <1>4, <2>1, <2>2, <2>3, <2>4, <2>5 DEF BrokerStep
  <1> QED
    BY <1>2, <1>3, <1>4 DEF Next

\* The roster is exact in every reachable state: takeovers, renames in place
\* and late close events neither lose a registered connection nor leave a ghost
\* nor exceed the limit, for any number of processes and connections.
THEOREM RosterInvariant == Spec => []RosterInv
  <1>1. RosterInv /\ [Next]_vars => RosterInv'
    <2> SUFFICES ASSUME RosterInv, [Next]_vars PROVE RosterInv'
      OBVIOUS
    <2>1. TypeOK'
      <3>1. CASE UNCHANGED vars
        BY <3>1 DEF RosterInv, TypeOK, RegistryOK, WiresOK, EndsOK, FieldsOK, Listed,
                    vars, registry, wires, ends, identity, renaming, view
      <3>2. CASE Next
        BY <3>2, BrokerType, ProcType DEF Next
      <3> QED
        BY <3>1, <3>2
    <2> QED
      BY <2>1, NextRoster DEF RosterInv
  <1> QED
    BY <1>1, InitRoster, PTL DEF Spec

\* No step takes an address from its holder but a takeover it is open to.
LEMMA StepNoTheft ==
    ASSUME RosterInv, Next, NEW a \in Listed
    PROVE  KeptOrReplaced(a)
  <1>0. RegistryOK /\ RosterExact
    BY DEF RosterInv, TypeOK
  <1>1. ASSUME peers' = peers PROVE KeptOrReplaced(a)
    BY <1>1 DEF KeptOrReplaced, Listed
  <1>2. ASSUME NEW p \in Procs, ProcStep(p) PROVE KeptOrReplaced(a)
    BY <1>1, <1>2, ProcRegistry
  <1>3. ASSUME NEW c \in Conns, BrokerStep(c) PROVE KeptOrReplaced(a)
    <2>1. CASE RefuseRegister(c) \/ handleListPeers(c)
      BY <1>1, <2>1 DEF RefuseRegister, handleListPeers, registry
    <2>2. CASE handleRegister(c)
      <3>1. PICK b \in Addresses, dropped \in SUBSET Conns : Gives(c, b, dropped)
        BY <2>2, RegisterFacts
      <3>2. peers[a] \in Conns
        BY <1>0 DEF RegistryOK
      <3>3. CASE b = a
        <4>1. peers'[a] = c /\ a \in DOMAIN peers' /\ srv'[peers[a]] = "destroyed"
          BY <3>1, <3>2, <3>3 DEF Gives, With
        <4> QED
          BY <3>1, <3>3, <4>1 DEF Gives, KeptOrReplaced
      <3>4. CASE b # a
        <4>1. a \in DOMAIN peers' /\ peers'[a] = peers[a]
          BY <3>1, <3>4 DEF Gives, With, Listed
        <4> QED
          BY <4>1 DEF KeptOrReplaced
      <3> QED
        BY <3>3, <3>4
    <2>3. CASE handleRename(c)
      <3>1. PICK b \in Addresses :
             /\ addr[c] \in Listed /\ peers[addr[c]] = c
             /\ b \notin Listed \ {addr[c]}
             /\ peers' = With(Without(peers, addr[c]), b, c)
             /\ addr' = [addr EXCEPT ![c] = b]
        BY <2>3, RenameFacts
      <3>2. CASE a = addr[c]
        <4>1. addr'[c] \in DOMAIN peers' /\ peers'[addr'[c]] = c
          BY <1>0, <3>1 DEF RegistryOK, With
        <4> QED
          BY <3>1, <3>2, <4>1 DEF KeptOrReplaced
      <3>3. CASE a # addr[c]
        <4>1. a \in DOMAIN peers' /\ peers'[a] = peers[a]
          BY <3>1, <3>3 DEF With, Without, Listed
        <4> QED
          BY <4>1 DEF KeptOrReplaced
      <3> QED
        BY <3>2, <3>3
    <2>4. CASE onClose(c)
      <3>1. CASE addr[c] \in Listed /\ peers[addr[c]] = c
        <4>1. peers' = Without(peers, addr[c]) /\ srv' = [srv EXCEPT ![c] = "closed"]
          BY <2>4, <3>1 DEF onClose
        <4>2. CASE a = addr[c]
          BY <1>0, <3>1, <4>1, <4>2 DEF RegistryOK, KeptOrReplaced
        <4>3. CASE a # addr[c]
          <5>1. a \in DOMAIN peers' /\ peers'[a] = peers[a]
            BY <4>1, <4>3 DEF Without, Listed
          <5> QED
            BY <5>1 DEF KeptOrReplaced
        <4> QED
          BY <4>2, <4>3
      <3>2. CASE ~(addr[c] \in Listed /\ peers[addr[c]] = c)
        BY <1>1, <2>4, <3>2 DEF onClose
      <3> QED
        BY <3>1, <3>2
    <2> QED
      BY <1>3, <2>1, <2>2, <2>3, <2>4 DEF BrokerStep
  <1> QED
    BY <1>2, <1>3 DEF Next

\* A registered peer loses its address only by its own doing or to a takeover
\* of its folder, never to a collision or to another connection's late close.
THEOREM AddressNotStolen == Spec => NoTheft
  <1>1. RosterInv /\ [Next]_vars => [\A a \in Listed : KeptOrReplaced(a)]_vars
    BY StepNoTheft
  <1> QED
    BY <1>1, RosterInvariant, PTL DEF Spec, NoTheft

-----------------------------------------------------------------------------
(* Counts and names settle *)

\* Among the lines of w in A or B the last is in A; without one, base holds.
LastWord(w, A, B, base) ==
    \/ \E i \in 1 .. Len(w) : w[i] \in A /\ \A j \in 1 .. Len(w) : j > i => w[j] \notin B
    \/ base /\ \A j \in 1 .. Len(w) : w[j] \notin B

\* w holds a line of a kind of K, or one at most.
Holds(w, K) == \E i \in 1 .. Len(w) : w[i].k \in K
Single(w, K) == \A i, j \in 1 .. Len(w) : w[i].k \in K /\ w[j].k \in K => i = j

\* The lines that tell a process its address, and its count.
Acks == {l \in Lines : l.k \in {"register_ack", "rename_ack"}}
Named(name) == {l \in Acks : l.address[2] = name}
Rosters == {l \in Lines : l.k = "roster"}
Sized(n) == {l \in Rosters : l.size = n}

\* Nothing was written to a connection before it was registered.
Quiet == \A c \in Conns : c > joins \/ (srv[c] = "open" /\ addr[c] = None) => down[c] = <<>>

Placed(p) == sock[p] # 0 => sock[p] <= joins /\ owner[sock[p]] = p

\* The first line a process reads on a connection is the answer to its register
\* line, and makes it joined.
Staged(p) ==
    /\ sock[p] = 0 => stage[p] # "joined" \/ left[p]
    /\ sock[p] # 0 /\ stage[p] # "joined" =>
          \/ addr[sock[p]] = None /\ down[sock[p]] = <<>>
          \/ down[sock[p]] # <<>> /\ Head(down[sock[p]]).k = "register_ack"
    /\ sock[p] # 0 /\ stage[p] = "joined" /\ srv[sock[p]] = "open" => addr[sock[p]] # None
    /\ stage[p] = "rename" => blind[p]

Connected(p) == sock[p] # 0 /\ srv[sock[p]] = "open"

\* The count is asked for again, or will be; or the last roster is the roster.
Counted(p) == Connected(p) =>
    \/ stage[p] \in {"start", "failover"}
    \/ Holds(down[sock[p]], {"notice"})
    \/ Holds(up[sock[p]], {"list_peers"})
    \/ LastWord(down[sock[p]], Sized(Cardinality(Listed)), Rosters,
                blind[p] \/ count[p] = Cardinality(Listed))

\* The listener in the slot is that of the rename whose timer runs.
Timed(p) ==
    /\ ctl[p] = 0 \/ ctl[p] \in timers[p]
    /\ ~slipped[p] => \A r \in timers[p] : r = ctl[p]

\* One rename at most is on its way, and its listener waits for it.
Answered(p) == Connected(p) /\ ~slipped[p] =>
    /\ Holds(up[sock[p]], {"rename"}) \/ Holds(down[sock[p]], {"rename_ack"}) => ctl[p] # 0
    /\ ~(Holds(up[sock[p]], {"rename"}) /\ Holds(down[sock[p]], {"rename_ack"}))
    /\ Single(up[sock[p]], {"rename"}) /\ Single(down[sock[p]], {"rename_ack"})

\* The last name told is the name listed.
Shown(p) == Connected(p) /\ ~slipped[p] /\ addr[sock[p]] # None =>
    LastWord(down[sock[p]], Named(addr[sock[p]][2]), Acks, pname[p] = addr[sock[p]][2])

ProcSettles(p) == Placed(p) /\ Staged(p) /\ Counted(p) /\ Timed(p) /\ Answered(p) /\ Shown(p)
SettleInv == Quiet /\ \A p \in Procs : ProcSettles(p)

-----------------------------------------------------------------------------
(* Lines *)

\* What Queue makes of the lines: a new last one, maybe in place of one of its
\* kind.
LEMMA QueueShape ==
    ASSUME NEW q \in Seq(Lines), NEW line \in Lines
    PROVE  LET v == Queue(q, line) IN
           /\ v \in Seq(Lines) /\ Len(v) \in Nat /\ Len(v) \in 1 .. Len(v) /\ v[Len(v)] = line
           /\ \A i \in 1 .. Len(v) : i = Len(v) \/ (i \in 1 .. Len(q) /\ v[i] = q[i])
           /\ \A i \in 1 .. Len(q) : i \in 1 .. Len(v) /\ v[i].k = q[i].k /\ (i = Len(v) \/ v[i] = q[i])
           /\ line.k \notin {"list_peers", "notice", "roster"} =>
                 \A i \in 1 .. Len(q) : i # Len(v)
<1> DEFINE v == Queue(q, line)
           n == Len(q)
<1>0. n \in Nat
  OBVIOUS
<1>1. CASE q # <<>> /\ line.k \in {"list_peers", "notice", "roster"} /\ q[n].k = line.k
  <2>1. v = [q EXCEPT ![n] = line]
    BY <1>1 DEF Queue
  <2>2. n \in 1 .. n
    BY <1>0, <1>1
  <2>3. v \in Seq(Lines) /\ Len(v) = n /\ v[n] = line /\ \A i \in 1 .. n : i # n => v[i] = q[i]
    BY <2>1, <2>2
  <2> HIDE DEF v
  <2> QED
    BY <1>0, <1>1, <2>2, <2>3 DEF v
<1>2. CASE ~(q # <<>> /\ line.k \in {"list_peers", "notice", "roster"} /\ q[n].k = line.k)
  <2>1. v = Append(q, line)
    BY <1>2 DEF Queue
  <2>2. v \in Seq(Lines) /\ Len(v) = n + 1 /\ v[n + 1] = line /\ \A i \in 1 .. n : v[i] = q[i]
    BY <2>1
  <2> HIDE DEF v
  <2> QED
    BY <1>0, <2>2 DEF v
<1> QED
  BY <1>1, <1>2

\* A line is lost only to a later one of its kind.
LEMMA QueueHolds ==
    ASSUME NEW q \in Seq(Lines), NEW line \in Lines, NEW K
    PROVE  Holds(Queue(q, line), K) <=> Holds(q, K) \/ line.k \in K
<1> DEFINE v == Queue(q, line)
<1>1. /\ v \in Seq(Lines) /\ Len(v) \in Nat /\ Len(v) \in 1 .. Len(v) /\ v[Len(v)] = line
      /\ \A i \in 1 .. Len(v) : i = Len(v) \/ (i \in 1 .. Len(q) /\ v[i] = q[i])
      /\ \A i \in 1 .. Len(q) : i \in 1 .. Len(v) /\ v[i].k = q[i].k /\ (i = Len(v) \/ v[i] = q[i])
  BY QueueShape
<1> HIDE DEF v
<1>2. Holds(v, K) => Holds(q, K) \/ line.k \in K
  BY <1>1 DEF Holds
<1>3. Holds(q, K) \/ line.k \in K => Holds(v, K)
  BY <1>1 DEF Holds
<1> QED
  BY <1>2, <1>3 DEF v

\* A line that says nothing leaves the last word what it was.
LEMMA QueueKeeps ==
    ASSUME NEW q \in Seq(Lines), NEW line \in Lines, NEW A, NEW B, NEW base, A \subseteq B,
           \A l \in Lines : l.k = line.k => l \notin B, LastWord(q, A, B, base)
    PROVE  LastWord(Queue(q, line), A, B, base)
<1> DEFINE v == Queue(q, line)
<1>1. /\ v \in Seq(Lines) /\ Len(v) \in Nat /\ Len(v) \in 1 .. Len(v) /\ v[Len(v)] = line
      /\ \A i \in 1 .. Len(v) : i = Len(v) \/ (i \in 1 .. Len(q) /\ v[i] = q[i])
      /\ \A i \in 1 .. Len(q) : i \in 1 .. Len(v) /\ v[i].k = q[i].k /\ (i = Len(v) \/ v[i] = q[i])
  BY QueueShape
<1> HIDE DEF v
<1>2. line \notin B /\ \A i \in 1 .. Len(q) : q[i] \in Lines
  OBVIOUS
<1>3. CASE base /\ \A j \in 1 .. Len(q) : q[j] \notin B
  <2>1. \A j \in 1 .. Len(v) : v[j] \notin B
    BY <1>1, <1>2, <1>3
  <2> QED
    BY <1>3, <2>1 DEF LastWord, v
<1>4. CASE \E i \in 1 .. Len(q) : q[i] \in A /\ \A j \in 1 .. Len(q) : j > i => q[j] \notin B
  <2>1. PICK i \in 1 .. Len(q) : q[i] \in A /\ \A j \in 1 .. Len(q) : j > i => q[j] \notin B
    BY <1>4
  <2>2. q[i].k # line.k
    BY <1>2, <2>1
  <2>3. i # Len(v)
    BY <1>1, <2>2
  <2>4. i \in 1 .. Len(v) /\ v[i] \in A
    BY <1>1, <2>1, <2>3
  <2>5. \A j \in 1 .. Len(v) : j > i => v[j] \notin B
    BY <1>1, <1>2, <2>1
  <2> QED
    BY <2>4, <2>5 DEF LastWord, v
<1> QED
  BY <1>3, <1>4 DEF LastWord

\* A line of A is the last word.
LEMMA QueueGives ==
    ASSUME NEW q \in Seq(Lines), NEW line \in Lines, NEW A, NEW B, NEW base, line \in A
    PROVE  LastWord(Queue(q, line), A, B, base)
<1> DEFINE v == Queue(q, line)
<1>1. Len(v) \in Nat /\ Len(v) \in 1 .. Len(v) /\ v[Len(v)] = line
  BY QueueShape
<1> HIDE DEF v
<1>2. \A j \in 1 .. Len(v) : ~ (j > Len(v))
  BY <1>1
<1> QED
  BY <1>1, <1>2 DEF LastWord, v

\* The first line stays the first, and keeps its kind.
LEMMA QueueHead ==
    ASSUME NEW q \in Seq(Lines), NEW line \in Lines
    PROVE  /\ Queue(q, line) # <<>>
           /\ q # <<>> => Head(Queue(q, line)).k = Head(q).k
           /\ q = <<>> => Queue(q, line) = <<line>>
<1> DEFINE v == Queue(q, line)
<1>1. /\ v \in Seq(Lines) /\ Len(v) \in Nat /\ Len(v) \in 1 .. Len(v)
      /\ \A i \in 1 .. Len(q) : i \in 1 .. Len(v) /\ v[i].k = q[i].k
  BY QueueShape
<1>2. q = <<>> => v = <<line>>
  BY DEF Queue
<1> HIDE DEF v
<1>3. v # <<>> /\ Head(v) = v[1]
  BY <1>1
<1>4. q # <<>> => 1 \in 1 .. Len(q) /\ Head(q) = q[1]
  OBVIOUS
<1> QED
  BY <1>1, <1>2, <1>3, <1>4 DEF v

\* The one line of a kind, where there was none.
LEMMA QueueSingle ==
    ASSUME NEW q \in Seq(Lines), NEW line \in Lines, NEW K, Single(q, K),
           line.k \notin K \/ ~ Holds(q, K)
    PROVE  Single(Queue(q, line), K)
<1> DEFINE v == Queue(q, line)
<1>1. /\ v[Len(v)] = line
      /\ \A i \in 1 .. Len(v) : i = Len(v) \/ (i \in 1 .. Len(q) /\ v[i] = q[i])
  BY QueueShape
<1> HIDE DEF v
<1> QED
  BY <1>1 DEF Single, Holds, v

\* The first line is read.
LEMMA TailHolds ==
    ASSUME NEW q \in Seq(Lines), q # <<>>, NEW K
    PROVE  /\ Tail(q) \in Seq(Lines)
           /\ Holds(Tail(q), K) => Holds(q, K)
           /\ Head(q).k \notin K => (Holds(q, K) => Holds(Tail(q), K))
           /\ Single(q, K) => Single(Tail(q), K)
           /\ Single(q, K) /\ Head(q).k \in K => ~ Holds(Tail(q), K)
           /\ Holds(q, K) => q # <<>>
<1> DEFINE x == Tail(q)
<1>1. /\ x \in Seq(Lines) /\ Len(q) \in Nat /\ Len(q) >= 1 /\ Head(q) = q[1] /\ 1 \in 1 .. Len(q)
      /\ \A i \in 1 .. Len(x) : x[i] = q[i + 1] /\ i + 1 \in 1 .. Len(q) /\ i + 1 # 1
      /\ \A i \in 1 .. Len(q) : i # 1 => i - 1 \in 1 .. Len(x) /\ x[i - 1] = q[i]
  OBVIOUS
<1> HIDE DEF x
<1>2. Holds(x, K) => Holds(q, K)
  BY <1>1 DEF Holds
<1>3. Head(q).k \notin K => (Holds(q, K) => Holds(x, K))
  BY <1>1 DEF Holds
<1>4. ASSUME Single(q, K), NEW i \in 1 .. Len(x), NEW j \in 1 .. Len(x), x[i].k \in K, x[j].k \in K
      PROVE  i = j
  <2>1. i + 1 = j + 1
    BY <1>1, <1>4 DEF Single
  <2> QED
    BY <2>1
<1>5. Single(q, K) /\ Head(q).k \in K => ~ Holds(x, K)
  BY <1>1 DEF Single, Holds
<1> QED
  BY <1>1, <1>2, <1>3, <1>4, <1>5 DEF x, Single

\* Reading a line that is not the last word leaves the last word; reading it makes
\* it what the process knows.
LEMMA WordTail ==
    ASSUME NEW q \in Seq(Lines), q # <<>>, NEW A, NEW B, NEW base \in BOOLEAN, NEW then \in BOOLEAN,
           LastWord(q, A, B, base), Head(q) \in A => then, base /\ Head(q) \notin B => then
    PROVE  LastWord(Tail(q), A, B, then)
<1> DEFINE x == Tail(q)
<1>1. /\ Len(x) = Len(q) - 1 /\ Len(q) \in Nat /\ Len(q) >= 1 /\ Head(q) = q[1]
      /\ \A i \in 1 .. Len(x) : x[i] = q[i + 1] /\ i + 1 \in 1 .. Len(q)
      /\ \A i \in 1 .. Len(q) : i # 1 => i - 1 \in 1 .. Len(x) /\ x[i - 1] = q[i]
  OBVIOUS
<1> HIDE DEF x
<1>2. CASE base /\ \A j \in 1 .. Len(q) : q[j] \notin B
  <2>1. Head(q) \notin B /\ \A j \in 1 .. Len(x) : x[j] \notin B
    BY <1>1, <1>2
  <2> QED
    BY <1>2, <2>1 DEF LastWord, x
<1>3. CASE \E i \in 1 .. Len(q) : q[i] \in A /\ \A j \in 1 .. Len(q) : j > i => q[j] \notin B
  <2>1. PICK i \in 1 .. Len(q) : q[i] \in A /\ \A j \in 1 .. Len(q) : j > i => q[j] \notin B
    BY <1>3
  <2>2. CASE i = 1
    <3>1. \A j \in 1 .. Len(x) : x[j] \notin B
      BY <1>1, <2>1, <2>2
    <3> QED
      BY <1>1, <2>1, <2>2, <3>1 DEF LastWord, x
  <2>3. CASE i # 1
    <3>1. i - 1 \in 1 .. Len(x) /\ x[i - 1] \in A /\ \A j \in 1 .. Len(x) : j > i - 1 => x[j] \notin B
      BY <1>1, <2>1, <2>3
    <3> QED
      BY <3>1 DEF LastWord, x
  <2> QED
    BY <2>2, <2>3
<1> QED
  BY <1>2, <1>3 DEF LastWord

-----------------------------------------------------------------------------
(* What the broker does to the connections *)

Notice == [k |-> "notice"]

\* A broadcast or two on top of what is on the way.
Nudged(v, q) == v = q \/ v = Queue(q, Notice) \/ v = Queue(Queue(q, Notice), Notice)

\* What a notice leaves as it was.
Kept(v, q) ==
    /\ v \in Seq(Lines)
    /\ \A K : "notice" \notin K => (Holds(v, K) <=> Holds(q, K)) /\ (Single(q, K) => Single(v, K))
    /\ Holds(q, {"notice"}) => Holds(v, {"notice"})
    /\ q # <<>> => v # <<>> /\ Head(v).k = Head(q).k
    /\ \A A, B, base : A \subseteq B /\ (\A l \in B : l.k # "notice") /\ LastWord(q, A, B, base)
                          => LastWord(v, A, B, base)

\* Notices that others joined or left are no last word.
LEMMA NudgedKeeps ==
    ASSUME NEW q \in Seq(Lines), NEW v, Nudged(v, q)
    PROVE  Kept(v, q)
<1>0. Notice \in Lines /\ Notice.k = "notice"
  BY LinesMade DEF Notice
<1>1. ASSUME NEW w \in Seq(Lines) PROVE Kept(Queue(w, Notice), w) /\ Holds(Queue(w, Notice), {"notice"})
  <2>1. Queue(w, Notice) \in Seq(Lines)
    BY <1>0, QueueType
  <2>2. \A K : "notice" \notin K => /\ Holds(Queue(w, Notice), K) <=> Holds(w, K)
                                    /\ Single(w, K) => Single(Queue(w, Notice), K)
    BY <1>0, QueueHolds, QueueSingle
  <2>3. Holds(Queue(w, Notice), {"notice"})
    BY <1>0, QueueHolds
  <2>4. w # <<>> => Queue(w, Notice) # <<>> /\ Head(Queue(w, Notice)).k = Head(w).k
    BY <1>0, QueueHead
  <2>5. ASSUME NEW A, NEW B, NEW base, A \subseteq B, \A l \in B : l.k # "notice", LastWord(w, A, B, base)
        PROVE  LastWord(Queue(w, Notice), A, B, base)
    BY <1>0, <2>5, QueueKeeps
  <2> QED
    BY <2>1, <2>2, <2>3, <2>4, <2>5 DEF Kept
<1>2. Kept(q, q)
  BY DEF Kept
<1>3. Kept(Queue(q, Notice), q) /\ Queue(q, Notice) \in Seq(Lines)
  BY <1>1 DEF Kept
<1>4. Kept(Queue(Queue(q, Notice), Notice), Queue(q, Notice))
  BY <1>1, <1>3
<1>5. ASSUME NEW w, NEW x, Kept(w, q), Kept(x, w)
      PROVE  Kept(x, q)
  <2>1. /\ x \in Seq(Lines)
        /\ \A K : "notice" \notin K => (Holds(x, K) <=> Holds(q, K)) /\ (Single(q, K) => Single(x, K))
        /\ Holds(q, {"notice"}) => Holds(x, {"notice"})
        /\ q # <<>> => x # <<>> /\ Head(x).k = Head(q).k
    BY <1>5 DEF Kept
  <2>2. ASSUME NEW A, NEW B, NEW base, A \subseteq B, \A l \in B : l.k # "notice", LastWord(q, A, B, base)
        PROVE  LastWord(x, A, B, base)
    <3>1. LastWord(w, A, B, base)
      BY <1>5, <2>2 DEF Kept
    <3> QED
      BY <1>5, <2>2, <3>1 DEF Kept
  <2> QED
    BY <2>1, <2>2 DEF Kept
<1> QED
  BY <1>2, <1>3, <1>4, <1>5 DEF Nudged

\* Who was told of a change will ask for the roster.
LEMMA NoticeHeld ==
    ASSUME NEW q \in Seq(Lines)
    PROVE  Holds(Queue(q, Notice), {"notice"})
<1>1. Notice \in Lines /\ Notice.k = "notice"
  BY LinesMade DEF Notice
<1> QED
  BY <1>1, QueueHolds

\* Nobody is listed on c, so a notice does not reach it.
Unlisted(c) == \A b \in Listed : peers[b] # c

\* The connections other than the one the broker serves.
OthersNudged(c) ==
    \A d \in Conns \ {c} : Nudged(down'[d], down[d]) /\ (Unlisted(d) => down'[d] = down[d])

\* What a registration writes: the answer, and notices to the others.
LEMMA RegisterLines ==
    ASSUME RosterInv, NEW c \in Conns, NEW a \in Addresses, NEW dropped \in SUBSET Conns,
           Gives(c, a, dropped), addr[c] = None
    PROVE  /\ Unlisted(c) /\ down'[c] = Queue(down[c], [k |-> "register_ack", address |-> a])
           /\ OthersNudged(c)
           /\ \A d \in Conns \ {c} : \A b \in Listed : b # a /\ peers[b] = d => Holds(down'[d], {"notice"})
<1> DEFINE line == [k |-> "register_ack", address |-> a]
           lines == Write(down, c, line)
<1>1. RegistryOK /\ RosterExact /\ down \in [Conns -> Seq(Lines)]
  BY DEF RosterInv, TypeOK, WiresOK
<1>2. Unlisted(c)
  BY <1>1, RosterConstants DEF Unlisted, RosterExact, RegistryOK
<1>3. peers' = With(peers, a, c)
  BY DEF Gives
<1>4. /\ DOMAIN peers' = Listed \cup {a} /\ peers'[a] = c
      /\ \A b \in Listed : b # a => peers'[b] = peers[b]
  BY <1>3 DEF With, Listed
<1>5. lines[c] = Queue(down[c], line) /\ \A d \in Conns \ {c} : lines[d] = down[d]
  BY <1>1 DEF Write
<1>6. down' = broadcastSystem(lines, peers', Notice, a)
  BY DEF Gives, Notice
<1> HIDE DEF lines, line
<1>7. \A d \in Conns : down'[d] = IF \E b \in DOMAIN peers' \ {a} : peers'[b] = d
                                  THEN Queue(lines[d], Notice) ELSE lines[d]
  BY <1>6 DEF broadcastSystem
<1>8. \A b \in DOMAIN peers' \ {a} : b \in Listed /\ peers'[b] = peers[b]
  BY <1>4
<1>9. down'[c] = Queue(down[c], line)
  BY <1>2, <1>5, <1>7, <1>8 DEF Unlisted
<1>10. OthersNudged(c)
  BY <1>5, <1>7, <1>8 DEF OthersNudged, Nudged, Unlisted
<1>11. ASSUME NEW d \in Conns \ {c}, NEW b \in Listed, b # a, peers[b] = d
       PROVE  Holds(down'[d], {"notice"})
  <2>1. down'[d] = Queue(down[d], Notice)
    BY <1>4, <1>5, <1>7, <1>11
  <2> QED
    BY <1>1, <2>1, NoticeHeld
<1> QED
  BY <1>2, <1>9, <1>10, <1>11 DEF line

\* What a rename writes: the answer, and notices to the others.
LEMMA RenameLines ==
    ASSUME RosterInv, NEW c \in Conns, handleRename(c)
    PROVE  /\ \E a \in Addresses : /\ addr' = [addr EXCEPT ![c] = a]
                                   /\ down'[c] = Queue(down[c], [k |-> "rename_ack", address |-> a])
           /\ OthersNudged(c)
           /\ Cardinality(Listed') = Cardinality(Listed)
<1> DEFINE old == addr[c]
           rest == Without(peers, old)
           found == identityForRegister(rest, old[1], Head(up[c]).name, FALSE)
           a == IF found = None THEN old ELSE found
           noticed(lines) == broadcastSystem(lines, rest, Notice, a)
           lines == IF found = None THEN down ELSE noticed(noticed(down))
           line == [k |-> "rename_ack", address |-> a]
<1>1. /\ RegistryOK /\ RosterExact /\ down \in [Conns -> Seq(Lines)] /\ IsFiniteSet(Listed)
  BY DEF RosterInv, TypeOK, WiresOK, WithinLimit
<1>2. PICK b \in Addresses :
             /\ old \in Listed /\ peers[old] = c
             /\ b \notin Listed \ {old}
             /\ peers' = With(Without(peers, old), b, c)
             /\ addr' = [addr EXCEPT ![c] = b]
  BY RenameFacts
<1>3. addr' = [addr EXCEPT ![c] = a] /\ down' = Write(lines, c, line)
  BY DEF handleRename, Notice
<1>4. b = a
  <2> HIDE DEF a
  <2> QED
    BY <1>1, <1>2, <1>3 DEF RegistryOK
<1>5. DOMAIN rest = Listed \ {old} /\ \A d \in Listed \ {old} : rest[d] = peers[d]
  BY DEF Without, Listed
<1>6. \A d \in Listed \ {old} : peers[d] # c
  BY <1>1, <1>2 DEF RosterExact
<1> HIDE DEF found, a, line
<1>7. ASSUME NEW l, NEW d \in Conns
      PROVE  /\ noticed(l)[d] = l[d] \/ (noticed(l)[d] = Queue(l[d], Notice) /\ ~ Unlisted(d))
             /\ noticed(l)[c] = l[c]
             /\ DOMAIN noticed(l) = Conns
  <2>0. DOMAIN noticed(l) = Conns
    BY DEF broadcastSystem
  <2>1. noticed(l)[d] = IF \E e \in DOMAIN rest \ {a} : rest[e] = d THEN Queue(l[d], Notice) ELSE l[d]
    BY DEF broadcastSystem
  <2>2. noticed(l)[c] = IF \E e \in DOMAIN rest \ {a} : rest[e] = c THEN Queue(l[c], Notice) ELSE l[c]
    BY DEF broadcastSystem
  <2> HIDE DEF noticed, rest
  <2> QED
    BY <1>5, <1>6, <2>0, <2>1, <2>2 DEF Unlisted
<1> HIDE DEF noticed
<1>8. /\ lines[c] = down[c]
      /\ \A d \in Conns : Nudged(lines[d], down[d]) /\ (Unlisted(d) => lines[d] = down[d])
  <2>1. ASSUME NEW d \in Conns
        PROVE  /\ noticed(noticed(down))[c] = down[c]
               /\ Nudged(noticed(noticed(down))[d], down[d])
               /\ Unlisted(d) => noticed(noticed(down))[d] = down[d]
    <3>1. /\ noticed(down)[d] = down[d] \/ (noticed(down)[d] = Queue(down[d], Notice) /\ ~ Unlisted(d))
          /\ noticed(down)[c] = down[c]
      BY <1>7
    <3> DEFINE m == noticed(down)
    <3>2. /\ noticed(m)[d] = m[d] \/ (noticed(m)[d] = Queue(m[d], Notice) /\ ~ Unlisted(d))
          /\ noticed(m)[c] = m[c]
      BY <1>7
    <3> QED
      BY <3>1, <3>2 DEF Nudged
  <2> QED
    BY <2>1 DEF Nudged
<1>13. DOMAIN lines = Conns
  BY <1>1, <1>7
<1> HIDE DEF lines
<1>9. down'[c] = Queue(down[c], line) /\ \A d \in Conns \ {c} : down'[d] = lines[d]
  BY <1>3, <1>8, <1>13 DEF Write
<1>10. OthersNudged(c)
  BY <1>8, <1>9 DEF OthersNudged
<1>11. Listed' = (Listed \ {old}) \cup {a}
  BY <1>2, <1>4 DEF With, Without, Listed
<1>12. Cardinality(Listed') = Cardinality(Listed)
  <2>1. /\ IsFiniteSet(Listed \ {old})
        /\ Cardinality(Listed \ {old}) = Cardinality(Listed) - 1
    BY <1>1, <1>2, FS_RemoveElement
  <2>2. Cardinality((Listed \ {old}) \cup {a}) = Cardinality(Listed \ {old}) + 1
    BY <1>2, <1>4, <2>1, FS_AddElement
  <2>3. Cardinality(Listed) \in Nat
    BY <1>1, FS_CardinalityType
  <2> QED
    BY <1>11, <2>1, <2>2, <2>3
<1> QED
  BY <1>3, <1>4, <1>9, <1>10, <1>12 DEF line

\* What a close writes: notices to the others.
LEMMA CloseLines ==
    ASSUME RosterInv, NEW c \in Conns, onClose(c)
    PROVE  /\ Nudged(down'[c], down[c]) /\ (Unlisted(c) => down'[c] = down[c])
           /\ OthersNudged(c)
           /\ \A d \in Conns \ {c} : \A b \in Listed :
                 peers[b] = d => Cardinality(Listed') = Cardinality(Listed) \/ Holds(down'[d], {"notice"})
<1>1. RegistryOK /\ RosterExact /\ down \in [Conns -> Seq(Lines)]
  BY DEF RosterInv, TypeOK, WiresOK
<1>2. CASE addr[c] \in Listed /\ peers[addr[c]] = c
  <2>1. peers' = Without(peers, addr[c]) /\ down' = broadcastSystem(down, peers', Notice, addr[c])
    BY <1>2 DEF onClose, Notice
  <2>2. /\ DOMAIN peers' = Listed \ {addr[c]}
        /\ \A b \in Listed \ {addr[c]} : peers'[b] = peers[b]
    BY <2>1 DEF Without, Listed
  <2>3. \A d \in Conns : down'[d] = IF \E b \in DOMAIN peers' \ {addr[c]} : peers'[b] = d
                                    THEN Queue(down[d], Notice) ELSE down[d]
    BY <2>1 DEF broadcastSystem
  <2>4. ASSUME NEW d \in Conns
        PROVE  Nudged(down'[d], down[d]) /\ (Unlisted(d) => down'[d] = down[d])
    BY <2>2, <2>3 DEF Nudged, Unlisted
  <2>5. ASSUME NEW d \in Conns \ {c}, NEW b \in Listed, peers[b] = d
        PROVE  Holds(down'[d], {"notice"})
    <3>1. b # addr[c]
      BY <1>2, <2>5
    <3>2. down'[d] = Queue(down[d], Notice)
      BY <2>2, <2>3, <2>5, <3>1
    <3> QED
      BY <1>1, <3>2, NoticeHeld
  <2> QED
    BY <2>4, <2>5 DEF OthersNudged
<1>3. CASE ~ (addr[c] \in Listed /\ peers[addr[c]] = c)
  BY <1>3 DEF onClose, OthersNudged, Nudged, Listed
<1> QED
  BY <1>2, <1>3

\* What a step of the broker at another connection does to d.
LEMMA OtherConn ==
    ASSUME RosterInv, NEW c \in Conns, NEW d \in Conns \ {c}, BrokerStep(c)
    PROVE  /\ Nudged(down'[d], down[d]) /\ (Unlisted(d) => down'[d] = down[d])
           /\ \/ srv'[d] = srv[d] /\ addr'[d] = addr[d] /\ up'[d] = up[d]
              \/ srv'[d] = "destroyed" /\ addr'[d] = None
           /\ srv'[d] = "open" /\ ~ Unlisted(d) =>
                 Cardinality(Listed') = Cardinality(Listed) \/ Holds(down'[d], {"notice"})
<1>0. RegistryOK /\ RosterExact /\ down \in [Conns -> Seq(Lines)] /\ up \in [Conns -> Seq(Lines)]
  BY DEF RosterInv, TypeOK, WiresOK
<1>1. CASE RefuseRegister(c)
  BY <1>0, <1>1 DEF RefuseRegister, Nudged, Listed, RegistryOK
<1>2. CASE handleRegister(c)
  <2>1. PICK a \in Addresses, dropped \in SUBSET Conns : Gives(c, a, dropped)
    BY <1>2, RegisterFacts
  <2>2. addr[c] = None
    BY <1>2 DEF handleRegister
  <2>3. /\ OthersNudged(c)
        /\ \A b \in Listed : b # a /\ peers[b] = d => Holds(down'[d], {"notice"})
    BY <2>1, <2>2, RegisterLines
  <2>4. \/ srv'[d] = srv[d] /\ addr'[d] = addr[d] /\ up'[d] = up[d]
        \/ srv'[d] = "destroyed" /\ addr'[d] = None
    BY <2>1 DEF Gives
  <2>5. a \in Listed /\ peers[a] = d => srv'[d] = "destroyed"
    BY <2>1 DEF Gives
  <2> QED
    BY <2>3, <2>4, <2>5 DEF OthersNudged, Unlisted
<1>3. CASE handleRename(c)
  <2>1. OthersNudged(c) /\ Cardinality(Listed') = Cardinality(Listed)
    BY <1>3, RenameLines
  <2>2. PICK a \in Addresses : addr' = [addr EXCEPT ![c] = a]
    BY <1>3, RenameLines
  <2>3. srv'[d] = srv[d] /\ addr'[d] = addr[d] /\ up'[d] = up[d]
    BY <1>0, <1>3, <2>2 DEF handleRename, RegistryOK
  <2> QED
    BY <2>1, <2>3 DEF OthersNudged
<1>4. CASE handleListPeers(c)
  <2>1. srv[c] = "open" /\ (addr[c] \in Listed => peers[addr[c]] = c)
    BY <1>0, <1>4, RosterConstants DEF handleListPeers, Arrives, RosterExact, RegistryOK
  <2>2. down'[d] = down[d] /\ up'[d] = up[d] /\ Listed' = Listed /\ srv' = srv /\ addr' = addr
    BY <1>0, <1>4, <2>1 DEF handleListPeers, Write, registry, Listed
  <2> QED
    BY <2>2 DEF Nudged
<1>5. CASE onClose(c)
  <2>1. /\ OthersNudged(c)
        /\ \A b \in Listed : peers[b] = d => Cardinality(Listed') = Cardinality(Listed) \/ Holds(down'[d], {"notice"})
    BY <1>5, CloseLines
  <2>2. srv'[d] = srv[d] /\ addr'[d] = addr[d] /\ up'[d] = up[d]
    BY <1>0, <1>5 DEF onClose, RegistryOK
  <2> QED
    BY <2>1, <2>2 DEF OthersNudged, Unlisted
<1> QED
  BY <1>1, <1>2, <1>3, <1>4, <1>5 DEF BrokerStep

\* An open connection without an address is not listed and has been told nothing.
LEMMA Unaddressed ==
    ASSUME RosterInv, Quiet, NEW d \in Conns
    PROVE  /\ addr[d] = None => Unlisted(d)
           /\ srv[d] = "open" /\ Unlisted(d) => addr[d] = None
           /\ srv[d] = "open" /\ addr[d] = None => down[d] = <<>>
           /\ d > joins => addr[d] = None /\ Unlisted(d) /\ srv[d] = "unused"
<1>1. RegistryOK /\ RosterExact /\ Opened /\ EndsOK
  BY DEF RosterInv, TypeOK
<1>2. addr[d] = None => Unlisted(d)
  BY <1>1, RosterConstants DEF RosterExact, RegistryOK, Unlisted
<1>3. srv[d] = "open" /\ Unlisted(d) => addr[d] = None
  BY <1>1 DEF RosterExact, Unlisted
<1>4. d > joins => addr[d] = None /\ srv[d] = "unused"
  BY <1>1, RosterConstants DEF Opened, EndsOK, Conns
<1> QED
  BY <1>2, <1>3, <1>4 DEF Quiet

\* The broker leaves alone what the processes know.
LEMMA BrokerLeaves ==
    ASSUME NEW c \in Conns, BrokerStep(c)
    PROVE  UNCHANGED <<live, owner, joins, sock, want, pname, paddr, stage, ctl, timers, renames, slipped, count,
                       blind, left>>
BY DEF BrokerStep, RefuseRegister, handleRegister, handleRename, handleListPeers, onClose, ends, identity,
       renaming, view

\* Nothing on the wire, and a refresh to come: fresh, failed over or renamed.
LEMMA CountedFresh ==
    ASSUME RosterInv, NEW p \in Procs, Staged(p), stage[p] # "joined", UNCHANGED <<stage, blind>>,
           \A i \in 1 .. Len(down'[sock'[p]]) : down'[sock'[p]][i] \notin Rosters
    PROVE  Counted(p)'
<1>1. stage'[p] \in {"start", "failover"} \/ blind'[p]
  BY DEF Staged, RosterInv, TypeOK, FieldsOK
<1>2. stage'[p] \in {"start", "failover"} => Counted(p)'
  BY DEF Counted
<1>3. blind'[p] => Counted(p)'
  BY DEF Counted, LastWord
<1> QED
  BY <1>1, <1>2, <1>3

\* The sets of lines the words are about, and what their kinds are.
LEMMA WordKinds ==
    /\ \A n : Sized(n) \subseteq Rosters /\ \A l \in Rosters : l.k = "roster"
    /\ \A name : Named(name) \subseteq Acks /\ \A l \in Acks : l.k \in {"register_ack", "rename_ack"}
BY DEF Sized, Rosters, Named, Acks

\* The connection a process has open.
LEMMA SockConn ==
    ASSUME RosterInv, NEW p \in Procs, sock[p] # 0
    PROVE  sock[p] \in Conns /\ down[sock[p]] \in Seq(Lines) /\ up[sock[p]] \in Seq(Lines)
BY RosterConstants DEF RosterInv, TypeOK, EndsOK, WiresOK, Conns

\* The broker serves another connection than that of p.
LEMMA BrokerOther ==
    ASSUME RosterInv, Quiet, NEW p \in Procs, ProcSettles(p), NEW c \in Conns, sock[p] # c, BrokerStep(c)
    PROVE  ProcSettles(p)'
<1> DEFINE d == sock[p]
           n == Cardinality(Listed)
<1>1. UNCHANGED <<owner, joins, sock, pname, stage, ctl, timers, slipped, count, blind, left>>
  BY BrokerLeaves
<1>2. CASE sock[p] = 0
  BY <1>1, <1>2 DEF ProcSettles, Placed, Staged, Counted, Timed, Answered, Shown, Connected
<1>3. CASE sock[p] # 0
  <2>0. d \in Conns \ {c} /\ down[d] \in Seq(Lines)
    BY <1>3, SockConn
  <2>1. /\ Nudged(down'[d], down[d]) /\ (Unlisted(d) => down'[d] = down[d])
        /\ \/ srv'[d] = srv[d] /\ addr'[d] = addr[d] /\ up'[d] = up[d]
           \/ srv'[d] = "destroyed" /\ addr'[d] = None
        /\ srv'[d] = "open" /\ ~ Unlisted(d) => Cardinality(Listed') = n \/ Holds(down'[d], {"notice"})
    BY <2>0, OtherConn
  <2>2. Kept(down'[d], down[d])
    BY <2>0, <2>1, NudgedKeeps
  <2>3. /\ addr[d] = None => Unlisted(d)
        /\ srv[d] = "open" /\ Unlisted(d) => addr[d] = None
        /\ srv[d] = "open" /\ addr[d] = None => down[d] = <<>>
    BY <2>0, Unaddressed
  <2>4. Placed(p)' /\ Timed(p)'
    BY <1>1 DEF ProcSettles, Placed, Timed
  <2>5. Staged(p)'
    <3>1. addr[d] = None /\ down[d] = <<>> => addr'[d] = None /\ down'[d] = <<>>
      BY <2>1, <2>3
    <3>2. down[d] # <<>> => down'[d] # <<>> /\ Head(down'[d]).k = Head(down[d]).k
      BY <2>2 DEF Kept
    <3>3. srv'[d] = "open" => srv[d] = "open" /\ addr'[d] = addr[d]
      BY <2>1
    <3> QED
      BY <1>1, <1>3, <3>1, <3>2, <3>3 DEF ProcSettles, Staged
  <2>6. CASE srv'[d] # "open"
    BY <1>1, <2>4, <2>5, <2>6 DEF ProcSettles, Counted, Answered, Shown, Connected
  <2>7. CASE srv'[d] = "open"
    <3>0. srv[d] = "open" /\ addr'[d] = addr[d] /\ up'[d] = up[d] /\ Connected(p) /\ sock'[p] = d
      BY <1>1, <1>3, <2>1, <2>7 DEF Connected
    <3>1. Counted(p)'
      <4>1. CASE Unlisted(d)
        <5>1. stage[p] # "joined" /\ down'[d] = <<>>
          BY <2>1, <2>3, <3>0, <4>1 DEF ProcSettles, Staged, Connected
        <5>2. \A i \in 1 .. Len(down'[sock'[p]]) : down'[sock'[p]][i] \notin Rosters
          BY <3>0, <5>1
        <5> QED
          BY <1>1, <5>1, <5>2, CountedFresh DEF ProcSettles
      <4>2. CASE Holds(down'[d], {"notice"})
        BY <3>0, <4>2 DEF Counted
      <4>3. CASE Cardinality(Listed') = n
        <5>1. CASE stage[p] \in {"start", "failover"} \/ Holds(up[d], {"list_peers"})
          BY <1>1, <3>0, <5>1 DEF Counted
        <5>2. CASE Holds(down[d], {"notice"})
          BY <2>2, <3>0, <5>2 DEF Counted, Kept
        <5>3. CASE LastWord(down[d], Sized(n), Rosters, blind[p] \/ count[p] = n)
          <6>1. LastWord(down'[d], Sized(n), Rosters, blind[p] \/ count[p] = n)
            BY <2>2, <5>3, WordKinds DEF Kept
          <6>2. LastWord(down'[sock'[p]], Sized(Cardinality(Listed')), Rosters, blind'[p] \/ count'[p] = Cardinality(Listed'))
            BY <1>1, <3>0, <4>3, <6>1
          <6> QED
            BY <6>2 DEF Counted, LastWord
        <5> QED
          BY <3>0, <5>1, <5>2, <5>3 DEF ProcSettles, Counted
      <4> QED
        BY <2>1, <2>7, <4>1, <4>2, <4>3
    <3>2. Answered(p)'
      <4>1. /\ Holds(down'[d], {"rename_ack"}) <=> Holds(down[d], {"rename_ack"})
            /\ Single(down[d], {"rename_ack"}) => Single(down'[d], {"rename_ack"})
        BY <2>2 DEF Kept
      <4>2. ~ slipped[p] =>
              /\ Holds(up[d], {"rename"}) \/ Holds(down[d], {"rename_ack"}) => ctl[p] # 0
              /\ ~(Holds(up[d], {"rename"}) /\ Holds(down[d], {"rename_ack"}))
              /\ Single(up[d], {"rename"}) /\ Single(down[d], {"rename_ack"})
        BY <3>0 DEF ProcSettles, Answered
      <4>3. ~ slipped'[p] =>
              /\ Holds(up'[d], {"rename"}) \/ Holds(down'[d], {"rename_ack"}) => ctl'[p] # 0
              /\ ~(Holds(up'[d], {"rename"}) /\ Holds(down'[d], {"rename_ack"}))
              /\ Single(up'[d], {"rename"}) /\ Single(down'[d], {"rename_ack"})
        BY <1>1, <3>0, <4>1, <4>2
      <4> QED
        BY <3>0, <4>3 DEF Answered, Holds, Single
    <3>3. Shown(p)'
      <4>1. ASSUME ~ slipped[p], addr[d] # None
            PROVE  LastWord(down'[d], Named(addr[d][2]), Acks, pname[p] = addr[d][2])
        <5>1. LastWord(down[d], Named(addr[d][2]), Acks, pname[p] = addr[d][2])
          BY <3>0, <4>1 DEF ProcSettles, Shown
        <5> QED
          BY <2>2, <5>1, WordKinds DEF Kept
      <4>2. ~ slipped'[p] /\ addr'[d] # None =>
               LastWord(down'[d], Named(addr'[d][2]), Acks, pname'[p] = addr'[d][2])
        BY <1>1, <3>0, <4>1
      <4> QED
        BY <3>0, <4>2 DEF Shown, LastWord
    <3> QED
      BY <2>4, <2>5, <3>1, <3>2, <3>3 DEF ProcSettles
  <2> QED
    BY <2>6, <2>7
<1> QED
  BY <1>2, <1>3

\* A line the broker handles for p, and what its answer is made of.
LEMMA BrokerOwn ==
    ASSUME RosterInv, Quiet, NEW p \in Procs, ProcSettles(p), sock[p] # 0, BrokerStep(sock[p])
    PROVE  ProcSettles(p)'
<1> DEFINE d == sock[p]
           n == Cardinality(Listed)
<1>0. d \in Conns /\ down[d] \in Seq(Lines) /\ up[d] \in Seq(Lines)
  BY SockConn
<1>r. RegistryOK /\ RosterExact /\ down \in [Conns -> Seq(Lines)] /\ up \in [Conns -> Seq(Lines)]
  BY DEF RosterInv, TypeOK, WiresOK
<1>1. UNCHANGED <<owner, joins, sock, pname, stage, ctl, timers, slipped, count, blind, left>> /\ sock'[p] = d
  BY <1>0, BrokerLeaves
<1>2. Placed(p)' /\ Timed(p)'
  BY <1>1 DEF ProcSettles, Placed, Timed
<1>3. /\ addr[d] = None => Unlisted(d)
      /\ srv[d] = "open" /\ Unlisted(d) => addr[d] = None
      /\ srv[d] = "open" /\ addr[d] = None => down[d] = <<>>
  BY <1>0, Unaddressed
<1>4. /\ stage[p] # "joined" => (addr[d] = None /\ down[d] = <<>>) \/ (down[d] # <<>> /\ Head(down[d]).k = "register_ack")
      /\ stage[p] = "joined" /\ srv[d] = "open" => addr[d] # None
  BY DEF ProcSettles, Staged
<1>5. ASSUME srv'[d] # "open",
             addr[d] = None /\ down[d] = <<>> => addr'[d] = None /\ down'[d] = <<>>,
             down[d] # <<>> => down'[d] # <<>> /\ Head(down'[d]).k = Head(down[d]).k
      PROVE  ProcSettles(p)'
  BY <1>1, <1>2, <1>5 DEF ProcSettles, Staged, Counted, Answered, Shown, Connected
<1>6. CASE RefuseRegister(d)
  <2>1. srv'[d] # "open" /\ addr' = addr /\ down' = down
    BY <1>0, <1>r, <1>6 DEF RefuseRegister, RegistryOK
  <2> QED
    BY <1>5, <2>1
<1>7. CASE onClose(d)
  <2>1. srv'[d] # "open" /\ addr' = addr
    BY <1>0, <1>r, <1>7 DEF onClose, RegistryOK
  <2>2. Nudged(down'[d], down[d]) /\ (Unlisted(d) => down'[d] = down[d])
    BY <1>0, <1>7, CloseLines
  <2>3. Kept(down'[d], down[d])
    BY <1>0, <2>2, NudgedKeeps
  <2> QED
    BY <1>3, <1>5, <2>1, <2>2, <2>3 DEF Kept
<1>8. CASE handleRegister(d)
  <2>1. PICK a \in Addresses, dropped \in SUBSET Conns : Gives(d, a, dropped)
    BY <1>0, <1>8, RegisterFacts
  <2> DEFINE line == [k |-> "register_ack", address |-> a]
  <2>2. /\ srv[d] = "open" /\ addr[d] = None /\ up[d] # <<>> /\ Head(up[d]).k = "register"
        /\ line \in Lines /\ line.k = "register_ack" /\ line.address = a
    BY <1>8, LinesMade DEF handleRegister, Arrives
  <2>3. down'[d] = Queue(down[d], line)
    BY <1>0, <2>1, <2>2, RegisterLines
  <2>4. addr'[d] = a /\ up'[d] = Tail(up[d]) /\ a # None
    BY <1>0, <2>1, RosterConstants DEF Gives
  <2>5. stage[p] # "joined" /\ down[d] = <<>> /\ down'[d] = <<line>>
    BY <1>0, <1>3, <1>4, <2>2, <2>3, QueueHead
  <2>6. Head(down'[d]).k = "register_ack" /\ down'[d] # <<>>
    BY <2>2, <2>5
  <2>7. Staged(p)'
    BY <1>1, <2>5, <2>6 DEF ProcSettles, Staged
  <2>8. Counted(p)'
    <3>1. \A i \in 1 .. Len(down'[sock'[p]]) : down'[sock'[p]][i] \notin Rosters
      BY <1>1, <2>2, <2>5 DEF Rosters
    <3> QED
      BY <1>1, <2>5, <3>1, CountedFresh DEF ProcSettles
  <2> HIDE DEF line
  <2>9. Answered(p)'
    <3>1. ~ Holds(down'[d], {"rename_ack"}) /\ Single(down'[d], {"rename_ack"})
      <4>1. ~ Holds(down[d], {"rename_ack"}) /\ Single(down[d], {"rename_ack"})
        BY <2>5 DEF Holds, Single
      <4> QED
        BY <1>0, <2>2, <2>3, <4>1, QueueHolds, QueueSingle
    <3>2. /\ Holds(up'[d], {"rename"}) => Holds(up[d], {"rename"})
          /\ Single(up[d], {"rename"}) => Single(up'[d], {"rename"})
      BY <1>0, <2>2, <2>4, TailHolds
    <3>3. ~ slipped[p] => (Holds(up[d], {"rename"}) => ctl[p] # 0) /\ Single(up[d], {"rename"})
      BY <2>2 DEF ProcSettles, Answered, Connected
    <3>4. ~ slipped'[p] =>
              /\ Holds(up'[d], {"rename"}) \/ Holds(down'[d], {"rename_ack"}) => ctl'[p] # 0
              /\ ~(Holds(up'[d], {"rename"}) /\ Holds(down'[d], {"rename_ack"}))
              /\ Single(up'[d], {"rename"}) /\ Single(down'[d], {"rename_ack"})
      BY <1>1, <3>1, <3>2, <3>3
    <3> QED
      BY <1>1, <3>4 DEF Answered, Holds, Single
  <2>10. Shown(p)'
    <3>1. line \in Named(a[2])
      BY <2>2 DEF Named, Acks
    <3>2. LastWord(down'[d], Named(addr'[d][2]), Acks, pname'[p] = addr'[d][2])
      BY <1>0, <2>2, <2>3, <2>4, <3>1, QueueGives
    <3> QED
      BY <1>1, <3>2 DEF Shown, LastWord
  <2> QED
    BY <1>2, <2>7, <2>8, <2>9, <2>10 DEF ProcSettles
<1>9. CASE handleRename(d)
  <2>1. PICK a \in Addresses : /\ addr' = [addr EXCEPT ![d] = a]
                               /\ down'[d] = Queue(down[d], [k |-> "rename_ack", address |-> a])
    BY <1>0, <1>9, RenameLines
  <2> DEFINE line == [k |-> "rename_ack", address |-> a]
  <2>2. /\ srv[d] = "open" /\ srv' = srv /\ addr[d] # None /\ up[d] # <<>> /\ Head(up[d]).k = "rename"
        /\ line \in Lines /\ line.k = "rename_ack" /\ line.address = a
    BY <1>9, LinesMade DEF handleRename, Arrives
  <2>3. /\ addr'[d] = a /\ up'[d] = Tail(up[d]) /\ a # None /\ Cardinality(Listed') = n
        /\ down'[d] = Queue(down[d], line)
    BY <1>0, <1>r, <1>9, <2>1, RenameLines, RosterConstants DEF handleRename, RegistryOK
  <2> HIDE DEF line
  <2>4. Connected(p) /\ Connected(p)'
    BY <1>1, <2>2 DEF Connected
  <2>5. Staged(p)'
    <3>1. down[d] # <<>> => down'[d] # <<>> /\ Head(down'[d]).k = Head(down[d]).k
      BY <1>0, <2>2, <2>3, QueueHead
    <3> QED
      BY <1>1, <1>4, <2>2, <2>3, <3>1 DEF ProcSettles, Staged
  <2>6. Counted(p)'
    <3>1. Holds(up[d], {"list_peers"}) => Holds(up'[d], {"list_peers"})
      BY <1>0, <2>2, <2>3, TailHolds
    <3>2. Holds(down[d], {"notice"}) => Holds(down'[d], {"notice"})
      BY <1>0, <2>2, <2>3, QueueHolds
    <3>3. LastWord(down[d], Sized(n), Rosters, blind[p] \/ count[p] = n)
             => LastWord(down'[d], Sized(n), Rosters, blind[p] \/ count[p] = n)
      BY <1>0, <2>2, <2>3, QueueKeeps, WordKinds
    <3>4. \/ stage'[p] \in {"start", "failover"}
          \/ Holds(down'[d], {"notice"})
          \/ Holds(up'[d], {"list_peers"})
          \/ LastWord(down'[d], Sized(Cardinality(Listed')), Rosters, blind'[p] \/ count'[p] = Cardinality(Listed'))
      BY <1>1, <2>3, <2>4, <3>1, <3>2, <3>3 DEF ProcSettles, Counted
    <3> QED
      BY <1>1, <3>4 DEF Counted, Holds, LastWord
  <2>7. Answered(p)'
    <3>1. ~ slipped[p] =>
              /\ Holds(up[d], {"rename"}) \/ Holds(down[d], {"rename_ack"}) => ctl[p] # 0
              /\ ~(Holds(up[d], {"rename"}) /\ Holds(down[d], {"rename_ack"}))
              /\ Single(up[d], {"rename"}) /\ Single(down[d], {"rename_ack"})
      BY <2>4 DEF ProcSettles, Answered
    <3>2. Holds(up[d], {"rename"})
      <4>1. 1 \in 1 .. Len(up[d]) /\ up[d][1] = Head(up[d])
        BY <1>0, <2>2
      <4> QED
        BY <2>2, <4>1 DEF Holds
    <3>3. Single(up[d], {"rename"}) => ~ Holds(up'[d], {"rename"}) /\ Single(up'[d], {"rename"})
      BY <1>0, <2>2, <2>3, TailHolds
    <3>4. Single(down[d], {"rename_ack"}) /\ ~ Holds(down[d], {"rename_ack"}) => Single(down'[d], {"rename_ack"})
      BY <1>0, <2>2, <2>3, QueueSingle
    <3>5. ~ slipped'[p] =>
              /\ Holds(up'[d], {"rename"}) \/ Holds(down'[d], {"rename_ack"}) => ctl'[p] # 0
              /\ ~(Holds(up'[d], {"rename"}) /\ Holds(down'[d], {"rename_ack"}))
              /\ Single(up'[d], {"rename"}) /\ Single(down'[d], {"rename_ack"})
      BY <1>1, <3>1, <3>2, <3>3, <3>4
    <3> QED
      BY <1>1, <3>5 DEF Answered, Holds, Single
  <2>8. Shown(p)'
    <3>1. line \in Named(a[2])
      BY <2>2 DEF Named, Acks
    <3>2. LastWord(down'[d], Named(addr'[d][2]), Acks, pname'[p] = addr'[d][2])
      BY <1>0, <2>2, <2>3, <3>1, QueueGives
    <3> QED
      BY <1>1, <3>2 DEF Shown, LastWord
  <2> QED
    BY <1>2, <2>5, <2>6, <2>7, <2>8 DEF ProcSettles
<1>10. CASE handleListPeers(d)
  <2> DEFINE line == [k |-> "roster", size |-> n]
  <2>0. n \in Nat
    BY FS_CardinalityType DEF RosterInv, WithinLimit
  <2>1. /\ srv[d] = "open" /\ srv' = srv /\ addr' = addr /\ Listed' = Listed
        /\ up[d] # <<>> /\ Head(up[d]).k = "list_peers" /\ up'[d] = Tail(up[d])
        /\ line \in Lines /\ line.k = "roster" /\ line.size = n
    BY <1>0, <1>r, <1>10, <2>0, LinesMade DEF handleListPeers, Arrives, registry, Listed
  <2>4. Connected(p) /\ Connected(p)'
    BY <1>1, <2>1 DEF Connected
  <2>10. addr[d] # None => addr[d] \in Listed /\ peers[addr[d]] = d
    BY <1>0, <1>r, <2>1 DEF RosterExact
  <2>11. addr[d] # None => down'[d] = Queue(down[d], line)
    BY <1>0, <1>r, <1>10, <2>10 DEF handleListPeers, Write
  <2>12. addr[d] = None => down'[d] = <<>> /\ down[d] = <<>> /\ stage[p] # "joined"
    <3>1. addr[d] = None => addr[d] \notin Listed
      BY <1>r, RosterConstants DEF RegistryOK
    <3> QED
      BY <1>3, <1>4, <1>10, <2>1, <3>1 DEF handleListPeers
  <2> HIDE DEF line
  <2>2. /\ \A K : "roster" \notin K => /\ Holds(down'[d], K) <=> Holds(down[d], K)
                                       /\ Single(down[d], K) => Single(down'[d], K)
        /\ down[d] # <<>> => down'[d] # <<>> /\ Head(down'[d]).k = Head(down[d]).k
    <3>1. CASE addr[d] # None
      BY <1>0, <2>1, <2>11, <3>1, QueueHolds, QueueSingle, QueueHead
    <3>2. CASE addr[d] = None
      BY <2>12, <3>2
    <3> QED
      BY <3>1, <3>2
  <2>5. Staged(p)'
    BY <1>1, <1>4, <2>1, <2>2, <2>12 DEF ProcSettles, Staged
  <2>6. Counted(p)'
    <3>1. CASE addr[d] = None
      <4>1. \A i \in 1 .. Len(down'[sock'[p]]) : down'[sock'[p]][i] \notin Rosters
        BY <1>1, <2>12, <3>1
      <4> QED
        BY <1>1, <2>12, <3>1, <4>1, CountedFresh DEF ProcSettles
    <3>2. CASE addr[d] # None
      <4>1. line \in Sized(n)
        BY <2>1 DEF Sized, Rosters
      <4>2. LastWord(down'[d], Sized(n), Rosters, blind'[p] \/ count'[p] = n)
        BY <1>0, <2>1, <2>11, <3>2, <4>1, QueueGives
      <4>3. LastWord(down'[sock'[p]], Sized(Cardinality(Listed')), Rosters, blind'[p] \/ count'[p] = Cardinality(Listed'))
        BY <1>1, <2>1, <4>2
      <4> QED
        BY <4>3 DEF Counted, LastWord
    <3> QED
      BY <3>1, <3>2
  <2>7. Answered(p)'
    <3>1. ~ slipped[p] =>
              /\ Holds(up[d], {"rename"}) \/ Holds(down[d], {"rename_ack"}) => ctl[p] # 0
              /\ ~(Holds(up[d], {"rename"}) /\ Holds(down[d], {"rename_ack"}))
              /\ Single(up[d], {"rename"}) /\ Single(down[d], {"rename_ack"})
      BY <2>4 DEF ProcSettles, Answered
    <3>2. /\ Holds(up'[d], {"rename"}) => Holds(up[d], {"rename"})
          /\ Single(up[d], {"rename"}) => Single(up'[d], {"rename"})
      BY <1>0, <2>1, TailHolds
    <3>3. /\ Holds(down'[d], {"rename_ack"}) <=> Holds(down[d], {"rename_ack"})
          /\ Single(down[d], {"rename_ack"}) => Single(down'[d], {"rename_ack"})
      BY <2>2
    <3>4. ~ slipped'[p] =>
              /\ Holds(up'[d], {"rename"}) \/ Holds(down'[d], {"rename_ack"}) => ctl'[p] # 0
              /\ ~(Holds(up'[d], {"rename"}) /\ Holds(down'[d], {"rename_ack"}))
              /\ Single(up'[d], {"rename"}) /\ Single(down'[d], {"rename_ack"})
      BY <1>1, <3>1, <3>2, <3>3
    <3> QED
      BY <1>1, <3>4 DEF Answered, Holds, Single
  <2>8. Shown(p)'
    <3>1. ASSUME ~ slipped[p], addr[d] # None
          PROVE  LastWord(down'[d], Named(addr[d][2]), Acks, pname[p] = addr[d][2])
      <4>1. LastWord(down[d], Named(addr[d][2]), Acks, pname[p] = addr[d][2])
        BY <2>4, <3>1 DEF ProcSettles, Shown
      <4> QED
        BY <1>0, <2>1, <2>11, <3>1, <4>1, QueueKeeps, WordKinds
    <3>2. ~ slipped'[p] /\ addr'[d] # None => LastWord(down'[d], Named(addr'[d][2]), Acks, pname'[p] = addr'[d][2])
      BY <1>1, <2>1, <3>1
    <3> QED
      BY <1>1, <3>2 DEF Shown, LastWord
  <2> QED
    BY <1>2, <2>5, <2>6, <2>7, <2>8 DEF ProcSettles
<1> QED
  BY <1>6, <1>7, <1>8, <1>9, <1>10 DEF BrokerStep

\* A process writes to its own connection only, and to an open one.
LEMMA SendLines ==
    ASSUME RosterInv, NEW p \in Procs, NEW line, Send(p, line), sock[p] # 0
    PROVE  /\ srv[sock[p]] = "open" => up'[sock[p]] = Queue(up[sock[p]], line)
           /\ \A d \in Conns : d # sock[p] => up'[d] = up[d]
<1>1. up \in [Conns -> Seq(Lines)] /\ sock[p] \in Conns
  BY SockConn DEF RosterInv, TypeOK, WiresOK
<1> QED
  BY <1>1 DEF Send, Write

\* Nothing that p or its connection knows changes.
Untouched(p) ==
    /\ sock'[p] = sock[p] /\ pname'[p] = pname[p] /\ stage'[p] = stage[p] /\ ctl'[p] = ctl[p]
    /\ timers'[p] = timers[p] /\ slipped'[p] = slipped[p] /\ count'[p] = count[p] /\ blind'[p] = blind[p]
    /\ left'[p] = left[p] /\ Listed' = Listed /\ joins <= joins'
    /\ sock[p] # 0 => /\ srv'[sock[p]] = srv[sock[p]] /\ addr'[sock[p]] = addr[sock[p]]
                      /\ up'[sock[p]] = up[sock[p]] /\ down'[sock[p]] = down[sock[p]]
                      /\ owner'[sock[p]] = owner[sock[p]]

\* Nothing of p has changed.
LEMMA UntouchedSettles ==
    ASSUME RosterInv, NEW p \in Procs, ProcSettles(p), Untouched(p), joins' \in Nat
    PROVE  ProcSettles(p)'
<1>1. Placed(p)'
  BY DEF ProcSettles, Placed, Untouched, RosterInv, TypeOK, EndsOK
<1>2. Staged(p)' /\ Timed(p)'
  BY DEF ProcSettles, Staged, Timed, Untouched
<1>3. Counted(p)'
  <2>1. Counted(p)
    BY DEF ProcSettles
  <2> QED
    BY <2>1 DEF Counted, Connected, Untouched, LastWord, Holds
<1>4. Answered(p)'
  BY DEF ProcSettles, Answered, Connected, Untouched, Single, Holds
<1>5. Shown(p)'
  <2>1. Shown(p)
    BY DEF ProcSettles
  <2> QED
    BY <2>1 DEF Shown, Connected, Untouched, LastWord
<1> QED
  BY <1>1, <1>2, <1>3, <1>4, <1>5 DEF ProcSettles

\* A process touches no other.
LEMMA OtherProc ==
    ASSUME RosterInv, NEW p \in Procs, NEW q \in Procs \ {p}, Placed(p), Placed(q), ProcStep(p)
    PROVE  Untouched(q) /\ joins' \in Nat
<1> USE RosterConstants
<1>0. RegistryOK /\ WiresOK /\ EndsOK /\ FieldsOK
  BY DEF RosterInv, TypeOK
<1>1. sock[q] # 0 => sock[q] \in Conns /\ sock[q] # sock[p] /\ sock[q] # joins + 1
  BY <1>0, SockConn DEF Placed, EndsOK, Conns
<1>2. Listed' = Listed /\ addr' = addr
  BY ProcRegistry DEF Listed
<1>3. joins' \in Nat /\ joins <= joins'
  BY <1>0, ProcRegistry DEF EndsOK
<1>4. sock[q] # 0 => srv'[sock[q]] = srv[sock[q]] /\ owner'[sock[q]] = owner[sock[q]]
  BY <1>0, <1>1, ProcRegistry DEF RegistryOK, EndsOK
<1>5. /\ sock'[q] = sock[q] /\ pname'[q] = pname[q] /\ stage'[q] = stage[q] /\ ctl'[q] = ctl[q]
      /\ timers'[q] = timers[q] /\ slipped'[q] = slipped[q] /\ count'[q] = count[q] /\ blind'[q] = blind[q]
      /\ left'[q] = left[q]
  <2>1. CASE Join(p) \/ onSocketClose(p) \/ leave(p) \/ RenameTimeout(p)
    BY <1>0, <2>1 DEF Join, onSocketClose, leave, RenameTimeout, CloseEnd, ends, identity, renaming, view, EndsOK, FieldsOK
  <2>2. CASE OnRegisterAck(p) \/ OnRenameAck(p) \/ OnNotice(p) \/ OnRoster(p)
    BY <1>0, <2>2 DEF OnRegisterAck, OnRenameAck, OnNotice, OnRoster, ends, identity, renaming, view, EndsOK, FieldsOK
  <2>3. CASE \E base \in Bases : rename(p, base) \/ renameInPlace(p, base)
    BY <1>0, <2>3 DEF rename, renameInPlace, CloseEnd, ends, identity, renaming, view, EndsOK, FieldsOK
  <2> QED
    BY <2>1, <2>2, <2>3 DEF ProcStep
<1>6. sock[q] # 0 => down'[sock[q]] = down[sock[q]]
  <2>1. CASE Join(p) \/ onSocketClose(p) \/ leave(p) \/ RenameTimeout(p)
    BY <1>0, <1>1, <2>1 DEF Join, onSocketClose, leave, RenameTimeout, CloseEnd, wires, WiresOK
  <2>2. CASE OnRegisterAck(p) \/ OnRenameAck(p) \/ OnNotice(p) \/ OnRoster(p)
    BY <1>0, <1>1, <2>2 DEF OnRegisterAck, OnRenameAck, OnNotice, OnRoster, Receives, WiresOK
  <2>3. CASE \E base \in Bases : rename(p, base) \/ renameInPlace(p, base)
    BY <1>0, <1>1, <2>3 DEF rename, renameInPlace, CloseEnd, WiresOK
  <2> QED
    BY <2>1, <2>2, <2>3 DEF ProcStep
<1>7. sock[q] # 0 => up'[sock[q]] = up[sock[q]]
  <2>0. ASSUME NEW line, Send(p, line), sock[q] # 0
        PROVE  up'[sock[q]] = up[sock[q]]
    <3>1. CASE sock[p] = 0
      BY <2>0, <3>1 DEF Send
    <3>2. CASE sock[p] # 0
      BY <1>1, <2>0, <3>2, SendLines
    <3> QED
      BY <3>1, <3>2
  <2>1. CASE Join(p) \/ onSocketClose(p) \/ leave(p) \/ RenameTimeout(p)
    BY <1>0, <1>1, <2>1 DEF Join, onSocketClose, leave, RenameTimeout, wires, WiresOK
  <2>2. CASE OnRegisterAck(p) \/ OnRenameAck(p) \/ OnNotice(p) \/ OnRoster(p)
    BY <2>0, <2>2 DEF OnRegisterAck, OnRenameAck, OnNotice, OnRoster
  <2>3. CASE \E base \in Bases : rename(p, base) \/ renameInPlace(p, base)
    BY <2>0, <2>3 DEF rename, renameInPlace
  <2> QED
    BY <2>1, <2>2, <2>3 DEF ProcStep
<1> QED
  BY <1>2, <1>3, <1>4, <1>5, <1>6, <1>7 DEF Untouched

-----------------------------------------------------------------------------
(* What a process does *)

\* Connections come and go.
LEMMA EndsSettle ==
    ASSUME RosterInv, Quiet, NEW p \in Procs, ProcSettles(p),
           \/ Join(p) \/ onSocketClose(p) \/ leave(p) \/ RenameTimeout(p)
           \/ \E base \in Bases : rename(p, base)
    PROVE  ProcSettles(p)'
<1> USE RosterConstants
<1>0. RegistryOK /\ WiresOK /\ EndsOK /\ FieldsOK
  BY DEF RosterInv, TypeOK
<1>1. ASSUME sock'[p] = 0, stage'[p] # "joined" \/ left'[p], stage'[p] = "rename" => blind'[p],
             ctl'[p] = ctl[p], timers'[p] = timers[p], slipped'[p] = slipped[p]
      PROVE  ProcSettles(p)'
  BY <1>1 DEF ProcSettles, Placed, Staged, Counted, Timed, Answered, Shown, Connected
<1>2. CASE onSocketClose(p)
  <2>1. sock'[p] = 0 /\ stage'[p] = "failover" /\ UNCHANGED <<ctl, timers, slipped>>
    BY <1>0, <1>2 DEF onSocketClose, CloseEnd, renaming, EndsOK, FieldsOK
  <2> QED
    BY <1>1, <2>1
<1>3. CASE leave(p)
  <2>1. sock'[p] = 0 /\ left'[p] /\ UNCHANGED <<stage, blind, ctl, timers, slipped>>
    BY <1>0, <1>3 DEF leave, CloseEnd, ends, renaming, identity, EndsOK, FieldsOK
  <2>2. stage[p] = "rename" => blind[p]
    BY DEF ProcSettles, Staged
  <2> QED
    BY <1>1, <2>1, <2>2
<1>4. ASSUME NEW base \in Bases, rename(p, base)
      PROVE  ProcSettles(p)'
  <2>1. sock'[p] = 0 /\ stage'[p] = "rename" /\ blind'[p] /\ UNCHANGED <<ctl, timers, slipped>>
    BY <1>0, <1>4 DEF rename, CloseEnd, EndsOK, FieldsOK
  <2> QED
    BY <1>1, <2>1
<1>5. CASE RenameTimeout(p)
  <2>1. /\ ctl'[p] = 0 /\ slipped'[p]
        /\ UNCHANGED <<peers, addr, srv, up, down, owner, joins, sock, pname, stage, count, blind, left>>
    BY <1>0, <1>5 DEF RenameTimeout, registry, wires, ends, identity, view, FieldsOK
  <2>2. Placed(p)' /\ Staged(p)' /\ Timed(p)' /\ Answered(p)' /\ Shown(p)'
    BY <2>1 DEF ProcSettles, Placed, Staged, Timed, Answered, Shown
  <2>3. Counted(p)'
    <3>1. Counted(p) /\ Listed' = Listed
      BY <2>1 DEF ProcSettles, Listed
    <3> QED
      BY <2>1, <3>1 DEF Counted, Connected, LastWord, Holds
  <2> QED
    BY <2>2, <2>3 DEF ProcSettles
<1>6. CASE Join(p)
  <2> DEFINE c == joins + 1
  <2>1. /\ c \in Conns /\ sock'[p] = c /\ joins' = c /\ owner'[c] = p /\ addr' = addr /\ down' = down
        /\ up'[c] = <<[k |-> "register", name |-> want[p]]>>
        /\ slipped'[p] = (slipped[p] /\ timers[p] # {})
        /\ UNCHANGED <<stage, blind, ctl, timers>>
        /\ sock[p] = 0 /\ ~ left[p]
    BY <1>0, <1>6 DEF Join, identity, view, WiresOK, EndsOK, RegistryOK, FieldsOK, Conns
  <2>2. stage[p] # "joined"
    BY <2>1 DEF ProcSettles, Staged
  <2>3. c > joins
    BY <1>0 DEF EndsOK
  <2>4. addr[c] = None /\ down[c] = <<>>
    BY <2>1, <2>3, Unaddressed DEF Quiet
  <2>5. Placed(p)'
    BY <1>0, <2>1 DEF Placed, EndsOK
  <2>6. Staged(p)'
    BY <2>1, <2>2, <2>4 DEF ProcSettles, Staged
  <2>7. Counted(p)'
    <3>1. \A i \in 1 .. Len(down'[sock'[p]]) : down'[sock'[p]][i] \notin Rosters
      BY <2>1, <2>4
    <3> QED
      BY <2>1, <2>2, <3>1, CountedFresh DEF ProcSettles
  <2>8. Timed(p)'
    BY <2>1 DEF ProcSettles, Timed
  <2>9. Answered(p)'
    <3>1. ~ Holds(up'[c], {"rename"}) /\ Single(up'[c], {"rename"})
      BY <2>1 DEF Holds, Single
    <3>2. ~ Holds(down'[c], {"rename_ack"}) /\ Single(down'[c], {"rename_ack"})
      BY <2>1, <2>4 DEF Holds, Single
    <3> QED
      BY <2>1, <3>1, <3>2 DEF Answered, Holds, Single
  <2>10. Shown(p)'
    BY <2>1, <2>4 DEF Shown
  <2> QED
    BY <2>5, <2>6, <2>7, <2>8, <2>9, <2>10 DEF ProcSettles
<1> QED
  BY <1>2, <1>3, <1>4, <1>5, <1>6

\* A rename in place: the only one on its way, unless renames overlap.
LEMMA RenameSettles ==
    ASSUME RosterInv, NEW p \in Procs, ProcSettles(p), NEW base \in Bases, renameInPlace(p, base)
    PROVE  ProcSettles(p)'
<1> DEFINE d == sock[p]
           line == [k |-> "rename", name |-> <<base, 0>>]
<1>0. RegistryOK /\ WiresOK /\ EndsOK /\ FieldsOK
  BY DEF RosterInv, TypeOK
<1>1. /\ ctl'[p] = renames + 1 /\ timers'[p] = timers[p] \cup {renames + 1}
      /\ slipped'[p] = (slipped[p] \/ ctl[p] # 0) /\ Send(p, line)
      /\ UNCHANGED <<peers, addr, srv, down, owner, joins, sock, pname, stage, count, blind, left>>
  BY <1>0 DEF renameInPlace, registry, ends, identity, view, FieldsOK
<1>2. line \in Lines /\ line.k = "rename" /\ renames + 1 # 0
  <2>1. 0 \in 0 .. MaxSuffix /\ MaxRenames \in Nat
    BY RosterConstants
  <2>2. <<base, 0>> \in Names
    BY <2>1 DEF Names
  <2>3. renames + 1 # 0
    BY <1>0, <2>1 DEF FieldsOK
  <2> QED
    BY <2>2, <2>3, LinesMade
<1>9. Listed' = Listed
  BY <1>1 DEF Listed
<1> HIDE DEF line
<1>3. Placed(p)' /\ Staged(p)'
  BY <1>1 DEF ProcSettles, Placed, Staged
<1>4. ~ slipped'[p] => ~ slipped[p] /\ ctl[p] = 0 /\ timers[p] = {}
  <2>1. ~ slipped'[p] => ~ slipped[p] /\ ctl[p] = 0
    BY <1>1
  <2>2. \A t \in timers[p] : t # 0
    BY <1>0, RosterConstants DEF FieldsOK
  <2>3. ~ slipped[p] => \A t \in timers[p] : t = ctl[p]
    BY DEF ProcSettles, Timed
  <2> QED
    BY <2>1, <2>2, <2>3
<1>5. Timed(p)'
  BY <1>1, <1>4 DEF Timed
<1>6. CASE ~ Connected(p)
  BY <1>1, <1>3, <1>5, <1>6 DEF ProcSettles, Counted, Answered, Shown, Connected
<1>7. CASE Connected(p)
  <2>1. /\ d \in Conns /\ up[d] \in Seq(Lines) /\ up'[d] = Queue(up[d], line) /\ sock'[p] = d
    BY <1>1, <1>7, SockConn, SendLines DEF Connected
  <2>2. Counted(p)'
    <3>1. Holds(up[d], {"list_peers"}) => Holds(up'[d], {"list_peers"})
      BY <1>2, <2>1, QueueHolds
    <3>2. Counted(p)
      BY DEF ProcSettles
    <3> QED
      BY <1>1, <1>7, <1>9, <3>1, <3>2 DEF Counted, Connected, LastWord, Holds
  <2>3. Answered(p)'
    <3>1. ~ slipped'[p] => /\ ~ Holds(up[d], {"rename"}) /\ ~ Holds(down[d], {"rename_ack"})
                           /\ Single(up[d], {"rename"}) /\ Single(down[d], {"rename_ack"})
      BY <1>4, <1>7 DEF ProcSettles, Answered
    <3>2. Single(up[d], {"rename"}) /\ ~ Holds(up[d], {"rename"}) => Single(up'[d], {"rename"})
      BY <1>2, <2>1, QueueSingle
    <3>3. ~ slipped'[p] =>
              /\ Holds(up'[d], {"rename"}) \/ Holds(down'[d], {"rename_ack"}) => ctl'[p] # 0
              /\ ~(Holds(up'[d], {"rename"}) /\ Holds(down'[d], {"rename_ack"}))
              /\ Single(up'[d], {"rename"}) /\ Single(down'[d], {"rename_ack"})
      BY <1>1, <1>2, <3>1, <3>2
    <3> QED
      BY <2>1, <3>3 DEF Answered, Holds, Single
  <2>4. Shown(p)'
    <3>1. Shown(p)
      BY DEF ProcSettles
    <3> QED
      BY <1>1, <1>4, <1>7, <3>1 DEF Shown, Connected, LastWord
  <2> QED
    BY <1>3, <1>5, <2>2, <2>3, <2>4 DEF ProcSettles
<1> QED
  BY <1>6, <1>7

\* A process reads a line.
LEMMA ReadSettles ==
    ASSUME RosterInv, Quiet, NEW p \in Procs, ProcSettles(p),
           OnRegisterAck(p) \/ OnRenameAck(p) \/ OnNotice(p) \/ OnRoster(p)
    PROVE  ProcSettles(p)'
<1> DEFINE d == sock[p]
           w == down[d]
           h == Head(w)
           n == Cardinality(Listed)
           ask == [k |-> "list_peers"]
<1>0. RegistryOK /\ WiresOK /\ EndsOK /\ FieldsOK
  BY DEF RosterInv, TypeOK
<1>1. /\ d # 0 /\ w # <<>> /\ h.k \in {"register_ack", "rename_ack", "notice", "roster"}
      /\ down' = [down EXCEPT ![d] = Tail(w)]
      /\ UNCHANGED <<peers, addr, srv, owner, joins, sock, slipped, left>>
  BY DEF OnRegisterAck, OnRenameAck, OnNotice, OnRoster, Receives, registry, ends, renaming
<1>2. d \in Conns /\ w \in Seq(Lines) /\ up[d] \in Seq(Lines) /\ h \in Lines
  BY <1>1, SockConn
<1>3. down'[d] = Tail(w) /\ sock'[p] = d /\ Listed' = Listed
  BY <1>0, <1>1, <1>2 DEF WiresOK, Listed
<1>4. Placed(p)'
  BY <1>1 DEF ProcSettles, Placed
<1>5. srv[d] = "open" => addr[d] # None
  BY <1>1, <1>2 DEF Quiet
<1>6. stage[p] # "joined" => h.k = "register_ack"
  BY <1>1 DEF ProcSettles, Staged
<1>7. ask \in Lines /\ ask.k = "list_peers"
  BY LinesMade
<1> HIDE DEF ask
<1>8. ASSUME up'[d] = up[d] \/ up'[d] = Queue(up[d], ask)
      PROVE  /\ Holds(up'[d], {"rename"}) <=> Holds(up[d], {"rename"})
             /\ Single(up[d], {"rename"}) => Single(up'[d], {"rename"})
             /\ Holds(up[d], {"list_peers"}) => Holds(up'[d], {"list_peers"})
  <2>1. CASE up'[d] = up[d]
    BY <2>1
  <2>2. CASE up'[d] = Queue(up[d], ask)
    BY <1>2, <1>7, <2>2, QueueHolds, QueueSingle
  <2> QED
    BY <1>8, <2>1, <2>2
<1>9. up'[d] = Queue(up[d], ask) => Holds(up'[d], {"list_peers"})
  BY <1>2, <1>7, QueueHolds
\* What reading does to the lines that wait.
<1>10. /\ Holds(down'[d], {"rename_ack"}) => Holds(w, {"rename_ack"})
       /\ Single(w, {"rename_ack"}) => Single(down'[d], {"rename_ack"})
       /\ Single(w, {"rename_ack"}) /\ h.k = "rename_ack" => ~ Holds(down'[d], {"rename_ack"})
       /\ h.k # "notice" => (Holds(w, {"notice"}) => Holds(down'[d], {"notice"}))
  BY <1>1, <1>2, <1>3, TailHolds
<1>11. Connected(p) /\ ~ slipped[p] =>
              /\ Holds(up[d], {"rename"}) \/ Holds(w, {"rename_ack"}) => ctl[p] # 0
              /\ ~(Holds(up[d], {"rename"}) /\ Holds(w, {"rename_ack"}))
              /\ Single(up[d], {"rename"}) /\ Single(w, {"rename_ack"})
  BY DEF ProcSettles, Answered
<1>12. Connected(p)' <=> Connected(p)
  BY <1>1 DEF Connected
\* The words about the count and the name after the first line.
<1>13. ASSUME NEW then \in BOOLEAN, Connected(p), ~ slipped[p],
              h \in Named(addr[d][2]) => then, pname[p] = addr[d][2] /\ h \notin Acks => then
       PROVE  LastWord(down'[d], Named(addr[d][2]), Acks, then)
  <2> DEFINE A == Named(addr[d][2])
             base == pname[p] = addr[d][2]
  <2>1. LastWord(w, A, Acks, base) /\ base \in BOOLEAN
    BY <1>5, <1>13 DEF ProcSettles, Shown, Connected
  <2>2. h \in A => then
    BY <1>13
  <2>3. base /\ h \notin Acks => then
    BY <1>13
  <2> HIDE DEF A, base, w
  <2>4. LastWord(Tail(w), A, Acks, then)
    BY <1>1, <1>2, <2>1, <2>2, <2>3, WordTail DEF w
  <2> QED
    BY <1>3, <2>4 DEF A
<1>14. ASSUME NEW then \in BOOLEAN, h \in Sized(n) => then, (blind[p] \/ count[p] = n) /\ h \notin Rosters => then,
              LastWord(w, Sized(n), Rosters, blind[p] \/ count[p] = n)
       PROVE  LastWord(down'[d], Sized(n), Rosters, then)
  <2> DEFINE A == Sized(n)
             base == blind[p] \/ count[p] = n
  <2>1. LastWord(w, A, Rosters, base) /\ base \in BOOLEAN
    BY <1>0, <1>14 DEF FieldsOK
  <2>2. h \in A => then
    BY <1>14
  <2>3. base /\ h \notin Rosters => then
    BY <1>14
  <2> HIDE DEF A, base, w
  <2>4. LastWord(Tail(w), A, Rosters, then)
    BY <1>1, <1>2, <2>1, <2>2, <2>3, WordTail DEF w
  <2> QED
    BY <1>3, <2>4 DEF A
<1>15. ASSUME Connected(p), ~ slipped[p] =>
              /\ Holds(up'[d], {"rename"}) \/ Holds(down'[d], {"rename_ack"}) => ctl'[p] # 0
              /\ ~(Holds(up'[d], {"rename"}) /\ Holds(down'[d], {"rename_ack"}))
              /\ Single(up'[d], {"rename"}) /\ Single(down'[d], {"rename_ack"})
       PROVE  Answered(p)'
  BY <1>1, <1>3, <1>15 DEF Answered, Holds, Single
<1>16. ASSUME ~ slipped[p] => LastWord(down'[d], Named(addr[d][2]), Acks, pname'[p] = addr[d][2])
       PROVE  Shown(p)'
  BY <1>1, <1>3, <1>16 DEF Shown, LastWord
<1>17. ASSUME LastWord(down'[d], Sized(n), Rosters, blind'[p] \/ count'[p] = n)
       PROVE  Counted(p)'
  BY <1>1, <1>3, <1>17 DEF Counted, LastWord
<1>18. Holds(up'[d], {"list_peers"}) \/ Holds(down'[d], {"notice"}) => Counted(p)'
  BY <1>3 DEF Counted
<1>19. Connected(p) => \/ stage[p] \in {"start", "failover"} \/ Holds(w, {"notice"}) \/ Holds(up[d], {"list_peers"})
                       \/ LastWord(w, Sized(n), Rosters, blind[p] \/ count[p] = n)
  BY DEF ProcSettles, Counted
<1>20. ASSUME Send(p, ask), Connected(p) PROVE up'[d] = Queue(up[d], ask)
  BY <1>1, <1>20, SendLines DEF Connected
<1>21. CASE OnRegisterAck(p)
  <2>1. /\ h.k = "register_ack" /\ pname'[p] = h.address[2] /\ stage'[p] = "joined"
        /\ UNCHANGED <<ctl, timers, blind>> /\ (stage[p] = "rename" => up' = up /\ count'[p] = count[p])
        /\ (stage[p] # "rename" => Send(p, ask))
    BY <1>0, <1>21 DEF OnRegisterAck, Receives, renaming, FieldsOK, ask
  <2>2. Staged(p)'
    BY <1>1, <1>3, <1>5, <2>1 DEF Staged
  <2>3. Timed(p)'
    BY <1>1, <2>1 DEF ProcSettles, Timed
  <2>4. CASE ~ Connected(p)
    BY <1>4, <1>12, <2>2, <2>3, <2>4 DEF ProcSettles, Counted, Answered, Shown
  <2>5. CASE Connected(p)
    <3>0. up'[d] = up[d] \/ up'[d] = Queue(up[d], ask)
      BY <1>20, <2>1, <2>5
    <3>1. Counted(p)'
      <4>1. CASE stage[p] # "rename"
        BY <1>9, <1>18, <1>20, <2>1, <2>5, <4>1
      <4>2. CASE stage[p] = "rename"
        <5>1. blind[p]
          BY <4>2 DEF ProcSettles, Staged
        <5>2. LastWord(w, Sized(n), Rosters, blind[p] \/ count[p] = n) => LastWord(down'[d], Sized(n), Rosters, TRUE)
          BY <1>14, <5>1
        <5>3. LastWord(w, Sized(n), Rosters, blind[p] \/ count[p] = n) => Counted(p)'
          BY <1>17, <2>1, <5>1, <5>2 DEF LastWord
        <5> QED
          BY <1>8, <1>10, <1>18, <1>19, <2>1, <2>5, <3>0, <4>2, <5>3
      <4> QED
        BY <4>1, <4>2
    <3>2. Answered(p)'
      BY <1>8, <1>10, <1>11, <1>15, <2>1, <2>5, <3>0
    <3>3. Shown(p)'
      <4>1. h \in Acks /\ (h \in Named(addr[d][2]) => pname'[p] = addr[d][2])
        BY <1>2, <2>1 DEF Acks, Named
      <4>2. (pname'[p] = addr[d][2]) \in BOOLEAN
        OBVIOUS
      <4>3. ~ slipped[p] => LastWord(down'[d], Named(addr[d][2]), Acks, pname'[p] = addr[d][2])
        BY <1>13, <2>5, <4>1, <4>2
      <4> QED
        BY <1>16, <4>3
    <3> QED
      BY <1>4, <2>2, <2>3, <3>1, <3>2, <3>3 DEF ProcSettles
  <2> QED
    BY <2>4, <2>5
<1>22. CASE OnRenameAck(p)
  <2>1. /\ h.k = "rename_ack" /\ stage' = stage /\ up' = up /\ UNCHANGED <<count, blind>>
        /\ ctl[p] = 0 => ctl' = ctl /\ timers' = timers /\ pname' = pname
        /\ ctl[p] # 0 => ctl'[p] = 0 /\ timers'[p] = timers[p] \ {ctl[p]} /\ pname'[p] = h.address[2]
    BY <1>0, <1>22 DEF OnRenameAck, Receives, view, identity, FieldsOK
  <2>2. stage[p] = "joined"
    BY <1>6, <2>1
  <2>3. Staged(p)'
    BY <1>1, <2>1, <2>2 DEF ProcSettles, Staged
  <2>4. Timed(p)'
    BY <1>1, <2>1 DEF ProcSettles, Timed
  <2>5. CASE ~ Connected(p)
    BY <1>4, <1>12, <2>3, <2>4, <2>5 DEF ProcSettles, Counted, Answered, Shown
  <2>6. CASE Connected(p)
    <3>1. Holds(w, {"rename_ack"})
      <4>1. 1 \in 1 .. Len(w) /\ w[1] = h
        BY <1>1, <1>2
      <4> QED
        BY <2>1, <4>1 DEF Holds
    <3>2. Counted(p)'
      <4>1. h \notin Rosters /\ (blind[p] \/ count[p] = n) \in BOOLEAN
        BY <1>0, <2>1 DEF Rosters, FieldsOK
      <4>2. LastWord(w, Sized(n), Rosters, blind[p] \/ count[p] = n)
               => LastWord(down'[d], Sized(n), Rosters, blind[p] \/ count[p] = n)
        BY <1>14, <4>1, WordKinds
      <4>3. LastWord(w, Sized(n), Rosters, blind[p] \/ count[p] = n) => Counted(p)'
        BY <1>17, <2>1, <4>2
      <4> QED
        BY <1>10, <1>18, <1>19, <2>1, <2>2, <2>6, <4>3
    <3>3. Answered(p)'
      BY <1>10, <1>11, <1>15, <2>1, <2>6, <3>1
    <3>4. Shown(p)'
      <4>1. h \in Acks /\ (~ slipped[p] => (h \in Named(addr[d][2]) => pname'[p] = addr[d][2]))
        BY <1>2, <1>11, <2>1, <2>6, <3>1 DEF Acks, Named
      <4>2. (pname'[p] = addr[d][2]) \in BOOLEAN
        OBVIOUS
      <4>3. ~ slipped[p] => LastWord(down'[d], Named(addr[d][2]), Acks, pname'[p] = addr[d][2])
        BY <1>13, <2>6, <4>1, <4>2
      <4> QED
        BY <1>16, <4>3
    <3> QED
      BY <1>4, <2>3, <2>4, <3>2, <3>3, <3>4 DEF ProcSettles
  <2> QED
    BY <2>5, <2>6
<1>23. CASE OnNotice(p) \/ OnRoster(p)
  <2>1. /\ h.k \in {"notice", "roster"} /\ UNCHANGED <<stage, ctl, timers, pname>>
        /\ h.k = "notice" => Send(p, ask) /\ UNCHANGED <<count, blind>>
        /\ h.k = "roster" => up' = up /\ (blind'[p] \/ count'[p] = h.size)
    BY <1>0, <1>23 DEF OnNotice, OnRoster, Receives, identity, renaming, view, FieldsOK, ask
  <2>2. stage[p] = "joined"
    BY <1>6, <2>1
  <2>3. Staged(p)'
    BY <1>1, <2>1, <2>2 DEF ProcSettles, Staged
  <2>4. Timed(p)'
    BY <1>1, <2>1 DEF ProcSettles, Timed
  <2>5. CASE ~ Connected(p)
    BY <1>4, <1>12, <2>3, <2>4, <2>5 DEF ProcSettles, Counted, Answered, Shown
  <2>6. CASE Connected(p)
    <3>0. up'[d] = up[d] \/ up'[d] = Queue(up[d], ask)
      BY <1>20, <2>1, <2>6
    <3>1. Counted(p)'
      <4>1. CASE h.k = "notice"
        BY <1>9, <1>18, <1>20, <2>1, <2>6, <4>1
      <4>2. CASE h.k = "roster"
        <5>1. h \in Rosters /\ (h \in Sized(n) => blind'[p] \/ count'[p] = n)
          BY <1>2, <2>1, <4>2 DEF Rosters, Sized
        <5> DEFINE then == blind'[p] \/ count'[p] = n
        <5>2. then \in BOOLEAN
          <6>1. CASE blind'[p] \in BOOLEAN
            BY <6>1
          <6>2. blind'[p] \in BOOLEAN
            BY <1>0, <1>23, <4>2 DEF OnNotice, OnRoster, view, FieldsOK
          <6> QED
            BY <6>1, <6>2
        <5>3. LastWord(w, Sized(n), Rosters, blind[p] \/ count[p] = n) => LastWord(down'[d], Sized(n), Rosters, then)
          BY <1>14, <5>1, <5>2
        <5>4. LastWord(w, Sized(n), Rosters, blind[p] \/ count[p] = n) => Counted(p)'
          BY <1>17, <5>3
        <5> QED
          BY <1>8, <1>10, <1>18, <1>19, <2>1, <2>2, <2>6, <3>0, <4>2, <5>4
      <4> QED
        BY <2>1, <4>1, <4>2
    <3>2. Answered(p)'
      BY <1>8, <1>10, <1>11, <1>15, <2>1, <2>6, <3>0
    <3>3. Shown(p)'
      <4>1. h \notin Acks
        BY <2>1 DEF Acks
      <4>2. (pname[p] = addr[d][2]) \in BOOLEAN
        OBVIOUS
      <4>3. ~ slipped[p] => LastWord(down'[d], Named(addr[d][2]), Acks, pname[p] = addr[d][2])
        BY <1>13, <2>6, <4>1, <4>2, WordKinds
      <4> QED
        BY <1>16, <2>1, <4>3
    <3> QED
      BY <1>4, <2>3, <2>4, <3>1, <3>2, <3>3 DEF ProcSettles
  <2> QED
    BY <2>5, <2>6
<1> QED
  BY <1>21, <1>22, <1>23

-----------------------------------------------------------------------------
\* At the start nobody is connected.
LEMMA SettleInit == Init => SettleInv
<1> SUFFICES ASSUME Init PROVE SettleInv
  OBVIOUS
<1>1. Quiet
  BY DEF Init, Quiet
<1>2. ASSUME NEW p \in Procs PROVE ProcSettles(p)
  BY <1>2 DEF Init, ProcSettles, Placed, Staged, Counted, Timed, Answered, Shown, Connected
<1> QED
  BY <1>1, <1>2 DEF SettleInv

\* Nothing is written to a connection before it is registered.
LEMMA QuietStep ==
    ASSUME RosterInv, SettleInv, Next
    PROVE  Quiet'
<1> USE RosterConstants
<1>0. RegistryOK /\ WiresOK /\ EndsOK /\ FieldsOK /\ Opened /\ Quiet
  BY DEF RosterInv, TypeOK, SettleInv
<1> SUFFICES ASSUME NEW d \in Conns, d > joins' \/ (srv'[d] = "open" /\ addr'[d] = None)
             PROVE  down'[d] = <<>>
  BY DEF Quiet
<1>1. /\ addr[d] = None => Unlisted(d)
      /\ srv[d] = "open" /\ addr[d] = None => down[d] = <<>>
      /\ d > joins => addr[d] = None /\ Unlisted(d) /\ srv[d] = "unused" /\ down[d] = <<>>
  BY <1>0, Unaddressed DEF Quiet
<1>2. ASSUME NEW c \in Conns, BrokerStep(c)
      PROVE  down'[d] = <<>>
  <2>0. joins' = joins
    BY <1>2, BrokerLeaves
  <2>1. CASE d # c
    <3>1. /\ Unlisted(d) => down'[d] = down[d]
          /\ (srv'[d] = srv[d] /\ addr'[d] = addr[d]) \/ srv'[d] = "destroyed"
      BY <1>2, <2>1, OtherConn
    <3> QED
      BY <1>1, <2>0, <3>1
  <2>2. CASE d = c
    <3>1. srv[d] # "unused"
      BY <1>2, <2>2 DEF BrokerStep, RefuseRegister, handleRegister, handleRename, handleListPeers, onClose, Arrives,
                        Closing
    <3>2. srv'[d] = "open" /\ addr'[d] = None
      BY <1>1, <2>0, <3>1
    <3>3. CASE RefuseRegister(c) \/ onClose(c)
      BY <1>0, <2>2, <3>2, <3>3 DEF RefuseRegister, onClose, RegistryOK
    <3>4. CASE handleRegister(c)
      <4>1. PICK a \in Addresses, dropped \in SUBSET Conns : Gives(c, a, dropped)
        BY <3>4, RegisterFacts
      <4> QED
        BY <2>2, <3>2, <4>1 DEF Gives
    <3>5. CASE handleRename(c)
      <4>1. PICK a \in Addresses : addr' = [addr EXCEPT ![c] = a]
        BY <3>5, RenameLines
      <4> QED
        BY <1>0, <2>2, <3>2, <4>1 DEF RegistryOK
    <3>6. CASE handleListPeers(c)
      <4>1. srv[c] = "open" /\ addr[c] = None /\ addr[c] \notin Listed
        BY <1>0, <2>2, <3>2, <3>6 DEF handleListPeers, Arrives, registry, RegistryOK
      <4> QED
        BY <1>1, <2>2, <3>6, <4>1 DEF handleListPeers
    <3> QED
      BY <1>2, <3>3, <3>4, <3>5, <3>6 DEF BrokerStep
  <2> QED
    BY <2>1, <2>2
<1>3. ASSUME NEW p \in Procs, ProcStep(p)
      PROVE  down'[d] = <<>>
  <2>1. down[d] = <<>>
    <3>1. addr' = addr
      BY <1>3, ProcRegistry
    <3>2. CASE srv' = srv /\ joins' = joins
      BY <1>1, <3>1, <3>2
    <3>3. CASE joins' = joins + 1 /\ srv' = [srv EXCEPT ![joins + 1] = "open"]
      <4>1. d > joins' => d > joins
        BY <1>0, <3>3 DEF EndsOK, Conns
      <4>2. d = joins + 1 => d > joins
        BY <1>0 DEF EndsOK
      <4>3. d # joins + 1 => srv'[d] = srv[d]
        BY <1>0, <3>3 DEF RegistryOK
      <4> QED
        BY <1>1, <3>1, <4>1, <4>2, <4>3
    <3> QED
      BY <1>3, <3>2, <3>3, ProcRegistry
  <2>2. CASE Join(p) \/ RenameTimeout(p) \/ \E base \in Bases : renameInPlace(p, base)
    BY <2>1, <2>2 DEF Join, RenameTimeout, renameInPlace, wires
  <2>3. CASE CloseEnd(p) \/ down' = down
    BY <1>0, <2>1, <2>3 DEF CloseEnd, WiresOK
  <2>4. CASE onSocketClose(p) \/ leave(p) \/ \E base \in Bases : rename(p, base)
    BY <2>3, <2>4 DEF onSocketClose, leave, rename
  <2>5. CASE OnRegisterAck(p) \/ OnRenameAck(p) \/ OnNotice(p) \/ OnRoster(p)
    <3>1. down[sock[p]] # <<>> /\ down' = [down EXCEPT ![sock[p]] = Tail(@)]
      BY <2>5 DEF OnRegisterAck, OnRenameAck, OnNotice, OnRoster, Receives
    <3> QED
      BY <1>0, <2>1, <3>1 DEF WiresOK
  <2> QED
    BY <1>3, <2>2, <2>4, <2>5 DEF ProcStep
<1> QED
  BY <1>2, <1>3 DEF Next

\* Every step keeps the last words right.
LEMMA SettleStep == RosterInv /\ SettleInv /\ [Next]_vars => SettleInv'
<1> SUFFICES ASSUME RosterInv, SettleInv, [Next]_vars PROVE SettleInv'
  OBVIOUS
<1>0. Quiet /\ \A p \in Procs : ProcSettles(p)
  BY DEF SettleInv
<1>1. CASE UNCHANGED vars
  <2>1. UNCHANGED <<peers, addr, srv, up, down, owner, joins, sock, pname, stage, ctl, timers, slipped, count, blind, left>>
    BY <1>1 DEF vars, registry, wires, ends, identity, renaming, view
  <2>2. \A p \in Procs : Untouched(p) /\ joins' \in Nat
    BY <2>1, RosterConstants DEF Untouched, Listed, RosterInv, TypeOK, EndsOK
  <2>3. \A p \in Procs : ProcSettles(p)'
    BY <1>0, <2>2, UntouchedSettles
  <2>4. Quiet'
    BY <1>0, <2>1 DEF Quiet
  <2> QED
    BY <2>3, <2>4 DEF SettleInv
<1>2. ASSUME NEW c \in Conns, BrokerStep(c), NEW p \in Procs
      PROVE  ProcSettles(p)'
  <2>1. CASE sock[p] # c
    BY <1>0, <1>2, <2>1, BrokerOther
  <2>2. CASE sock[p] = c
    <3>1. sock[p] # 0
      BY <2>2 DEF Conns
    <3> QED
      BY <1>0, <1>2, <2>2, <3>1, BrokerOwn
  <2> QED
    BY <2>1, <2>2
<1>3. ASSUME NEW p \in Procs, ProcStep(p), NEW q \in Procs
      PROVE  ProcSettles(q)'
  <2>1. CASE q # p
    <3>1. Untouched(q) /\ joins' \in Nat
      BY <1>0, <1>3, <2>1, OtherProc DEF ProcSettles
    <3> QED
      BY <1>0, <3>1, UntouchedSettles
  <2>2. CASE q = p
    <3>1. \/ Join(p) \/ onSocketClose(p) \/ leave(p) \/ RenameTimeout(p)
          \/ \E base \in Bases : rename(p, base)
          \/ \E base \in Bases : renameInPlace(p, base)
          \/ OnRegisterAck(p) \/ OnRenameAck(p) \/ OnNotice(p) \/ OnRoster(p)
      BY <1>3 DEF ProcStep
    <3> QED
      BY <1>0, <2>2, <3>1, EndsSettle, RenameSettles, ReadSettles
  <2> QED
    BY <2>1, <2>2
<1>4. CASE Next
  <2>1. Quiet'
    BY <1>4, QuietStep
  <2>2. \A p \in Procs : ProcSettles(p)'
    BY <1>2, <1>3, <1>4 DEF Next
  <2> QED
    BY <2>1, <2>2 DEF SettleInv
<1> QED
  BY <1>1, <1>4

\* All lines are handled: the last word is what the process knows.
LEMMA SettledKnows == RosterInv /\ SettleInv => CountSettles /\ NameSettles
<1> SUFFICES ASSUME RosterInv, SettleInv, NEW p \in Procs, Settled(p)
             PROVE  /\ ~ blind[p] => count[p] = Cardinality(Listed)
                    /\ ~ slipped[p] => pname[p] = addr[sock[p]][2]
  BY DEF CountSettles, NameSettles
<1>1. stage[p] = "joined" /\ Connected(p) /\ up[sock[p]] = <<>> /\ down[sock[p]] = <<>>
  BY DEF Settled, Connected
<1>2. ProcSettles(p)
  BY DEF SettleInv
<1>3. \A i \in 1 .. Len(<<>>) : FALSE
  OBVIOUS
<1>4. ~ blind[p] => count[p] = Cardinality(Listed)
  BY <1>1, <1>2, <1>3 DEF ProcSettles, Counted, Holds, LastWord
<1>5. addr[sock[p]] # None
  BY <1>1, <1>2 DEF ProcSettles, Staged, Connected
<1>6. ~ slipped[p] => pname[p] = addr[sock[p]][2]
  BY <1>1, <1>2, <1>3, <1>5 DEF ProcSettles, Shown, LastWord
<1> QED
  BY <1>4, <1>6

\* Once its lines are handled, the peer count a process shows is the size of the
\* broker's roster, whatever joined, left, was taken over or renamed meanwhile,
\* unless a refresh timed out or a soft rename asked for none.
THEOREM CountsSettle == Spec => []CountSettles
<1>1. RosterInv /\ SettleInv /\ [Next]_vars => SettleInv'
  BY SettleStep
<1>2. RosterInv /\ SettleInv => CountSettles
  BY SettledKnows
<1> QED
  BY <1>1, <1>2, RosterInvariant, SettleInit, PTL DEF Spec

\* Once its lines are handled, the name a process shows is the name the broker
\* lists it under, unless renames overlapped or one timed out.
THEOREM NamesSettle == Spec => []NameSettles
<1>1. RosterInv /\ SettleInv /\ [Next]_vars => SettleInv'
  BY SettleStep
<1>2. RosterInv /\ SettleInv => NameSettles
  BY SettledKnows
<1> QED
  BY <1>1, <1>2, RosterInvariant, SettleInit, PTL DEF Spec
===========================================================================
