---------------------------- MODULE BrokerRoster ----------------------------
(***************************************************************************)
(* The roster of the local mesh: which connection holds which address at   *)
(* the broker (extension/src/session/broker.ts), and what the processes    *)
(* behind the connections believe about it (peer.ts and the peer count of  *)
(* commands/lifecycle.ts).  Registration with collision suffix, takeover   *)
(* of an address by its next incarnation, rename in place, soft rename,    *)
(* socket closes that arrive late, and the list_peers refresh.             *)
(*                                                                         *)
(* The broker and every process are separate event loops joined by sockets.*)
(* `up[c]` and `down[c]` are the lines written to connection c and not yet *)
(* handled.  The broker handles one line to its end in one step: every     *)
(* call under _handleLine is synchronous up to the audit write.  destroy() *)
(* stops the data events of the destroyed side at once, its close event    *)
(* comes later, and the other side may or may not read what was in flight. *)
(* A write to a destroyed socket is lost without an error.                 *)
(*                                                                         *)
(* A name is a base and a suffix (0 for none, n for "#n"), an address a    *)
(* folder and a name.  The broker's conn.name and conn.cwd are the parts   *)
(* of conn.address.  Routing of envelopes between peers is not modelled.   *)
(***************************************************************************)
EXTENDS Integers, Sequences, FiniteSets

CONSTANTS
    Procs,       \* processes, each with one SessionPeer
    Bases,       \* leaf names without suffix
    Tight,       \* the bases so long that no "#n" fits behind them
    Cwds,        \* folders
    NoCwd,       \* the folder of a legacy peer that sends none
    None,        \* conn.address = ""
    Cwd,         \* opts.cwd of each process
    First,       \* opts.name of each process at its start
    Takeover,    \* opts.takeoverExisting of each process
    MaxPeers,    \* MAX_PEERS_UPDATE_ENTRIES
    MaxSuffix,   \* the largest suffix tried
    MaxJoins,    \* bound on connections ever opened
    MaxRenames   \* bound on renames ever asked for

Conns == 1 .. MaxJoins
Names == Bases \X (0 .. MaxSuffix)
Addresses == Cwds \X Names

ASSUME RosterConstants ==
    /\ Tight \subseteq Bases
    /\ NoCwd \in Cwds
    /\ None \notin Addresses
    /\ Cwd \in [Procs -> Cwds]
    /\ First \in [Procs -> Names]
    /\ Takeover \in [Procs -> BOOLEAN]
    /\ MaxPeers \in Nat
    /\ MaxSuffix \in Nat
    /\ MaxJoins \in Nat
    /\ MaxRenames \in Nat

VARIABLES
    peers,     \* the broker's map: address to connection
    addr,      \* conn.address of each connection
    srv,       \* the broker's end of each connection
    live,      \* the process' end of each connection is open
    owner,     \* the process that opened each connection, None for no one
    up,        \* lines on their way to the broker
    down,      \* lines on their way to the process
    joins,     \* connections opened so far
    renames,   \* renames asked for so far
    sock,      \* SessionPeer.socket, 0 when there is none or it has closed
    want,      \* opts.name
    pname,     \* assignedName
    paddr,     \* assignedAddress
    stage,     \* "joined", or the kind of join that is under way
    ctl,       \* the rename whose listener is _pendingControlAck, 0 for null
    timers,    \* renames whose timeout is armed
    count,     \* _sessionPeerCount
    left,      \* leftFlag, or the process is gone
    slipped,   \* history: a rename of this process timed out or overlapped
    blind      \* history: no refresh since a late reply or a soft rename

registry == <<peers, addr, srv>>
wires == <<up, down>>
ends == <<live, owner, joins, sock>>
identity == <<want, pname, paddr, stage>>
renaming == <<ctl, timers, renames, slipped>>
view == <<count, blind>>
vars == <<registry, wires, ends, identity, renaming, view, left>>

Lines ==
    [k : {"register", "rename"}, name : Names]
        \cup [k : {"register_ack", "rename_ack"}, address : Addresses]
        \cup [k : {"list_peers", "notice"}]
        \cup [k : {"roster"}, size : Nat]

Listed == DOMAIN peers

Init ==
    /\ peers = <<>>
    /\ addr = [c \in Conns |-> None]
    /\ srv = [c \in Conns |-> "unused"]
    /\ live = [c \in Conns |-> FALSE]
    /\ owner = [c \in Conns |-> None]
    /\ up = [c \in Conns |-> <<>>]
    /\ down = [c \in Conns |-> <<>>]
    /\ joins = 0
    /\ renames = 0
    /\ sock = [p \in Procs |-> 0]
    /\ want = First
    /\ pname = First
    /\ paddr = [p \in Procs |-> <<NoCwd, First[p]>>]
    /\ stage = [p \in Procs |-> "start"]
    /\ ctl = [p \in Procs |-> 0]
    /\ timers = [p \in Procs |-> {}]
    /\ count = [p \in Procs |-> 0]
    /\ left = [p \in Procs |-> FALSE]
    /\ slipped = [p \in Procs |-> FALSE]
    /\ blind = [p \in Procs |-> FALSE]
-----------------------------------------------------------------------------
(* The broker. *)

\* A line on its way.  Refreshes are idempotent: of two notices, requests or
\* rosters in a row only the later one matters to what a process ends up with.
Queue(lines, line) ==
    IF /\ lines # <<>> /\ line.k \in {"list_peers", "notice", "roster"}
       /\ lines[Len(lines)].k = line.k
    THEN [lines EXCEPT ![Len(lines)] = line]
    ELSE Append(lines, line)

Write(lines, c, line) == [lines EXCEPT ![c] = Queue(@, line)]

\* _broadcastSystem: a line to every listed connection but the one excluded.
broadcastSystem(lines, ps, line, except) ==
    [c \in Conns |->
        IF \E a \in DOMAIN ps \ {except} : ps[a] = c
        THEN Queue(lines[c], line) ELSE lines[c]]

Without(ps, a) == [b \in DOMAIN ps \ {a} |-> ps[b]]
With(ps, a, c) == [b \in DOMAIN ps \cup {a} |-> IF b = a THEN c ELSE ps[b]]

\* The suffixed addresses a collision may be resolved to.
Candidates(ps, cwd, name) ==
    IF name[1] \in Tight THEN {}
    ELSE {n \in 2 .. MaxSuffix : <<cwd, <<name[1], n>>>> \notin DOMAIN ps}

\* Mutated form of identityForRegister: every folder peer takes over.
AlwaysTakeover(ps, cwd, name, takeover) ==
    LET direct == <<cwd, name>>
        free == Candidates(ps, cwd, name)
    IN  IF cwd # NoCwd /\ direct \in DOMAIN ps THEN direct
        ELSE IF Cardinality(DOMAIN ps) >= MaxPeers THEN None
        ELSE IF direct \notin DOMAIN ps THEN direct
        ELSE IF free = {} THEN None
        ELSE <<cwd, <<name[1], CHOOSE n \in free : \A m \in free : n <= m>>>>

\* _identityForRegister: the address a peer gets, None when it is refused.  The
\* address is a listed one only for a takeover.
identityForRegister(ps, cwd, name, takeover) ==
    LET direct == <<cwd, name>>
        free == Candidates(ps, cwd, name)
    IN  IF takeover /\ cwd # NoCwd /\ direct \in DOMAIN ps THEN direct
        ELSE IF Cardinality(DOMAIN ps) >= MaxPeers THEN None
        ELSE IF direct \notin DOMAIN ps THEN direct
        ELSE IF free = {} THEN None
        ELSE <<cwd, <<name[1], CHOOSE n \in free : \A m \in free : n <= m>>>>

\* The next line of c that the broker handles.
Arrives(c, kind) ==
    /\ srv[c] = "open"
    /\ up[c] # <<>>
    /\ Head(up[c]).k = kind

\* _handleRegister, refused: the socket is destroyed and nothing else changes.
RefuseRegister(c) ==
    /\ Arrives(c, "register")
    /\ addr[c] = None
    /\ LET p == owner[c] IN
       identityForRegister(peers, Cwd[p], Head(up[c]).name, Takeover[p]) = None
    /\ srv' = [srv EXCEPT ![c] = "destroyed"]
    /\ up' = [up EXCEPT ![c] = <<>>]
    /\ UNCHANGED <<peers, addr, down, ends, identity, renaming, view, left>>

\* _handleRegister, accepted, with _dropPeerAt for a takeover: the previous
\* holder loses its address before its socket is destroyed.
handleRegister(c) ==
    /\ Arrives(c, "register")
    /\ addr[c] = None
    /\ LET p == owner[c]
           a == identityForRegister(peers, Cwd[p], Head(up[c]).name, Takeover[p])
           dropped == IF a \in Listed THEN {peers[a]} ELSE {}
       IN
       /\ a # None
       /\ peers' = With(peers, a, c)
       /\ addr' = [d \in Conns |->
                     IF d = c THEN a ELSE IF d \in dropped THEN None ELSE addr[d]]
       /\ srv' = [d \in Conns |-> IF d \in dropped THEN "destroyed" ELSE srv[d]]
       /\ up' = [d \in Conns |->
                   IF d = c THEN Tail(up[c]) ELSE IF d \in dropped THEN <<>> ELSE up[d]]
       /\ down' = broadcastSystem(
                     Write(down, c, [k |-> "register_ack", address |-> a]),
                     peers', [k |-> "notice"], a)
    /\ UNCHANGED <<ends, identity, renaming, view, left>>

\* Mutated form of handleRename: the old key stays in the map.
RenameKeepsOldKey(c) ==
    /\ Arrives(c, "rename")
    /\ addr[c] # None
    /\ LET old == addr[c]
           a == identityForRegister(Without(peers, old), old[1], Head(up[c]).name, FALSE)
       IN
       /\ a # None
       /\ addr' = [addr EXCEPT ![c] = a]
       /\ peers' = With(peers, a, c)
       /\ down' = Write(down, c, [k |-> "rename_ack", address |-> a])
    /\ up' = [up EXCEPT ![c] = Tail(@)]
    /\ UNCHANGED <<srv, ends, identity, renaming, view, left>>

\* _handleRename: the peer's own entry is out of the way while its new address
\* is chosen; a refusal puts it back and answers with the old name.
handleRename(c) ==
    /\ Arrives(c, "rename")
    /\ addr[c] # None
    /\ LET old == addr[c]
           rest == Without(peers, old)
           found == identityForRegister(rest, old[1], Head(up[c]).name, FALSE)
           a == IF found = None THEN old ELSE found
           noticed(lines) == broadcastSystem(lines, rest, [k |-> "notice"], a)
       IN
       /\ addr' = [addr EXCEPT ![c] = a]
       /\ peers' = With(rest, a, c)
       /\ down' = Write(IF found = None THEN down ELSE noticed(noticed(down)), c,
                        [k |-> "rename_ack", address |-> a])
    /\ up' = [up EXCEPT ![c] = Tail(@)]
    /\ UNCHANGED <<srv, ends, identity, renaming, view, left>>

\* _handleBrokerMessage: list_peers is answered with the roster of the moment.
handleListPeers(c) ==
    /\ Arrives(c, "list_peers")
    /\ up' = [up EXCEPT ![c] = Tail(@)]
    /\ down' = IF addr[c] \in Listed
               THEN Write(down, peers[addr[c]],
                          [k |-> "roster", size |-> Cardinality(Listed)])
               ELSE down
    /\ UNCHANGED <<registry, ends, identity, renaming, view, left>>

\* The close event of c is due at the broker.
Closing(c) == srv[c] = "destroyed" \/ (srv[c] = "open" /\ ~live[c])

\* Mutated form of onClose: the others are not told.
SilentClose(c) ==
    /\ Closing(c)
    /\ srv' = [srv EXCEPT ![c] = "closed"]
    /\ up' = [up EXCEPT ![c] = <<>>]
    /\ peers' = IF addr[c] \in Listed /\ peers[addr[c]] = c
                THEN Without(peers, addr[c]) ELSE peers
    /\ UNCHANGED <<addr, down, ends, identity, renaming, view, left>>

\* _onClose: only the connection that still holds its address frees it.
onClose(c) ==
    /\ Closing(c)
    /\ srv' = [srv EXCEPT ![c] = "closed"]
    /\ up' = [up EXCEPT ![c] = <<>>]
    /\ IF addr[c] \in Listed /\ peers[addr[c]] = c
       THEN /\ peers' = Without(peers, addr[c])
            /\ down' = broadcastSystem(down, peers', [k |-> "notice"], addr[c])
       ELSE UNCHANGED <<peers, down>>
    /\ UNCHANGED <<addr, ends, identity, renaming, view, left>>

-----------------------------------------------------------------------------
(* The processes. *)

\* A process writes to its socket; without an open one the line is lost.
Send(p, line) ==
    up' = IF sock[p] # 0 /\ srv[sock[p]] = "open" THEN Write(up, sock[p], line) ELSE up

\* _joinOrLead as a follower: connect, wire the socket, write the register line.
\* stage stays "rename" when rename() started the join.
Join(p) ==
    /\ ~left[p] /\ sock[p] = 0 /\ joins < MaxJoins
    /\ LET c == joins + 1 IN
       /\ joins' = c
       /\ srv' = [srv EXCEPT ![c] = "open"]
       /\ live' = [live EXCEPT ![c] = TRUE]
       /\ owner' = [owner EXCEPT ![c] = p]
       /\ sock' = [sock EXCEPT ![p] = c]
       /\ up' = [up EXCEPT ![c] = <<[k |-> "register", name |-> want[p]]>>]
    /\ slipped' = [slipped EXCEPT ![p] = @ /\ timers[p] # {}]
    /\ UNCHANGED <<peers, addr, down, identity, ctl, timers, renames, view, left>>

\* The process closes its end: the broker sees it later.
CloseEnd(p) ==
    /\ live' = [live EXCEPT ![sock[p]] = FALSE]
    /\ down' = [down EXCEPT ![sock[p]] = <<>>]
    /\ sock' = [sock EXCEPT ![p] = 0]
    /\ UNCHANGED <<owner, joins>>

\* _onSocketClose: the broker destroyed the current socket; failover joins again.
onSocketClose(p) ==
    /\ sock[p] # 0 /\ srv[sock[p]] \in {"destroyed", "closed"}
    /\ CloseEnd(p)
    /\ stage' = [stage EXCEPT ![p] = "failover"]
    /\ UNCHANGED <<registry, up, want, pname, paddr, renaming, view, left>>

\* rename(): tear the connection down and rejoin under the new name.
rename(p, base) ==
    /\ stage[p] = "joined" /\ ~left[p] /\ renames < MaxRenames
    /\ renames' = renames + 1
    /\ CloseEnd(p)
    /\ stage' = [stage EXCEPT ![p] = "rename"]
    /\ want' = [want EXCEPT ![p] = <<base, 0>>]
    /\ pname' = [pname EXCEPT ![p] = <<base, 0>>]
    /\ blind' = [blind EXCEPT ![p] = TRUE]
    /\ UNCHANGED <<registry, up, paddr, ctl, timers, slipped, count, left>>

\* leave(), which also clears the count, or the death of the process.
leave(p) ==
    /\ ~left[p]
    /\ left' = [left EXCEPT ![p] = TRUE]
    /\ count' = [count EXCEPT ![p] = 0]
    /\ IF sock[p] = 0 THEN UNCHANGED <<down, ends>> ELSE CloseEnd(p)
    /\ UNCHANGED <<registry, up, identity, renaming, blind>>

\* renameInPlace: one listener slot, one timer per call.
renameInPlace(p, base) ==
    /\ stage[p] # "start" /\ ~left[p] /\ renames < MaxRenames
    /\ renames' = renames + 1
    /\ ctl' = [ctl EXCEPT ![p] = renames']
    /\ timers' = [timers EXCEPT ![p] = @ \cup {renames'}]
    /\ slipped' = [slipped EXCEPT ![p] = @ \/ ctl[p] # 0]
    /\ Send(p, [k |-> "rename", name |-> <<base, 0>>])
    /\ UNCHANGED <<registry, down, ends, identity, view, left>>

\* The timer of a rename: it clears the slot, whoever's listener is in it.
RenameTimeout(p) ==
    \E r \in timers[p] :
        /\ timers' = [timers EXCEPT ![p] = @ \ {r}]
        /\ ctl' = [ctl EXCEPT ![p] = 0]
        /\ slipped' = [slipped EXCEPT ![p] = TRUE]
        /\ UNCHANGED <<renames, registry, wires, ends, identity, view, left>>

\* The next line the process handles.
Receives(p, kind) ==
    /\ sock[p] # 0
    /\ down[sock[p]] # <<>>
    /\ Head(down[sock[p]]).k = kind
    /\ down' = [down EXCEPT ![sock[p]] = Tail(@)]

\* The _preAckListener of _registerOver.  start() and failover then ask for the
\* roster, rename() does not; until the answer a fresh process counts itself.
OnRegisterAck(p) ==
    /\ Receives(p, "register_ack")
    /\ LET a == Head(down[sock[p]]).address IN
       /\ pname' = [pname EXCEPT ![p] = a[2]]
       /\ paddr' = [paddr EXCEPT ![p] = a]
    /\ stage' = [stage EXCEPT ![p] = "joined"]
    /\ count' = [count EXCEPT ![p] = IF stage[p] = "start" THEN 1 ELSE @]
    /\ IF stage[p] = "rename" THEN UNCHANGED up ELSE Send(p, [k |-> "list_peers"])
    /\ UNCHANGED <<registry, ends, want, renaming, blind, left>>

\* Mutated form of OnRenameAck: the name is kept for the next join only.
RenameAckNotShown(p) ==
    /\ Receives(p, "rename_ack")
    /\ ctl' = [ctl EXCEPT ![p] = 0]
    /\ timers' = [timers EXCEPT ![p] = @ \ {ctl[p]}]
    /\ want' = IF ctl[p] = 0 THEN want
               ELSE [want EXCEPT ![p] = Head(down[sock[p]]).address[2]]
    /\ UNCHANGED <<pname, paddr, stage>>
    /\ UNCHANGED <<registry, up, ends, renames, slipped, view, left>>

\* rename_ack: the listener in the slot takes it, whichever rename it answers;
\* without a listener it does not parse as an envelope and is dropped.
OnRenameAck(p) ==
    /\ Receives(p, "rename_ack")
    /\ IF ctl[p] = 0 THEN UNCHANGED <<ctl, timers, identity>>
       ELSE LET name == Head(down[sock[p]]).address[2] IN
            /\ ctl' = [ctl EXCEPT ![p] = 0]
            /\ timers' = [timers EXCEPT ![p] = @ \ {ctl[p]}]
            /\ pname' = [pname EXCEPT ![p] = name]
            /\ want' = [want EXCEPT ![p] = name]
            /\ UNCHANGED <<paddr, stage>>
    /\ UNCHANGED <<registry, up, ends, renames, slipped, view, left>>

\* peer_joined or peer_left: the count is asked for again.
OnNotice(p) ==
    /\ Receives(p, "notice")
    /\ Send(p, [k |-> "list_peers"])
    /\ UNCHANGED <<registry, ends, identity, renaming, view, left>>

\* list_peers_reply within the request's timeout sets the count; afterwards the
\* pending entry is gone and the reply is ignored.
OnRoster(p) ==
    /\ Receives(p, "roster")
    /\ \E inTime \in BOOLEAN :
        /\ blind' = [blind EXCEPT ![p] = ~inTime]
        /\ count' = IF inTime THEN [count EXCEPT ![p] = Head(down[sock[p]]).size]
                    ELSE count
    /\ UNCHANGED <<registry, up, ends, identity, renaming, left>>

-----------------------------------------------------------------------------
BrokerStep(c) ==
    \/ RefuseRegister(c)
    \/ handleRegister(c)
    \/ handleRename(c)
    \/ handleListPeers(c)
    \/ onClose(c)

ProcStep(p) ==
    \/ Join(p)
    \/ onSocketClose(p)
    \/ leave(p)
    \/ RenameTimeout(p)
    \/ OnRegisterAck(p)
    \/ OnRenameAck(p)
    \/ OnNotice(p)
    \/ OnRoster(p)
    \/ \E base \in Bases : rename(p, base) \/ renameInPlace(p, base)

Next == (\E c \in Conns : BrokerStep(c)) \/ (\E p \in Procs : ProcStep(p))

Spec == Init /\ [][Next]_vars

-----------------------------------------------------------------------------
(* Properties. *)

\* The fields hold what the classes declare.
RegistryOK ==
    /\ Listed \subseteq Addresses
    /\ peers \in [Listed -> Conns]
    /\ addr \in [Conns -> Addresses \cup {None}]
    /\ srv \in [Conns -> {"unused", "open", "destroyed", "closed"}]

WiresOK == up \in [Conns -> Seq(Lines)] /\ down \in [Conns -> Seq(Lines)]

EndsOK ==
    /\ live \in [Conns -> BOOLEAN]
    /\ owner \in [Conns -> Procs \cup {None}]
    /\ joins \in 0 .. MaxJoins
    /\ sock \in [Procs -> 0 .. MaxJoins]

FieldsOK ==
    /\ want \in [Procs -> Names]
    /\ pname \in [Procs -> Names]
    /\ paddr \in [Procs -> Addresses]
    /\ stage \in [Procs -> {"start", "joined", "failover", "rename"}]
    /\ renames \in 0 .. MaxRenames
    /\ ctl \in [Procs -> 0 .. MaxRenames]
    /\ timers \in [Procs -> SUBSET (1 .. MaxRenames)]
    /\ slipped \in [Procs -> BOOLEAN]
    /\ count \in [Procs -> Nat]
    /\ blind \in [Procs -> BOOLEAN]
    /\ left \in [Procs -> BOOLEAN]

TypeOK == RegistryOK /\ WiresOK /\ EndsOK /\ FieldsOK

\* The roster lists exactly the connections that hold an address and whose
\* close the broker has not seen, each under its own address: no takeover,
\* rename or late close event (_dropPeerAt, _handleRename, _onClose) loses a
\* healthy peer, leaves a ghost or lists one connection twice.
RosterExact ==
    /\ \A a \in Listed : addr[peers[a]] = a /\ srv[peers[a]] = "open"
    /\ \A c \in Conns :
        srv[c] = "open" /\ addr[c] # None => addr[c] \in Listed /\ peers[addr[c]] = c

\* MAX_PEERS_UPDATE_ENTRIES bounds the roster whatever the order in which
\* registrations, takeovers and renames (which free their own entry first) come.
WithinLimit == IsFiniteSet(Listed) /\ Cardinality(Listed) <= MaxPeers

\* A connection has an owner once it is opened and holds nothing before.
Opened ==
    \A c \in Conns :
        IF c <= joins THEN owner[c] \in Procs ELSE srv[c] = "unused" /\ addr[c] = None

\* The inductive invariant: the exact roster within its limit.
RosterInv == TypeOK /\ Opened /\ RosterExact /\ WithinLimit

\* In this step the holder of address a stays, is seen to close, moves to an
\* address of its own choice, or is replaced by a takeover of its folder.
KeptOrReplaced(a) ==
    LET c == peers[a] IN
    \/ a \in DOMAIN peers' /\ peers'[a] = c
    \/ srv'[c] = "closed"
    \/ addr'[c] \in DOMAIN peers' /\ peers'[addr'[c]] = c
    \/ /\ a \in DOMAIN peers' /\ a[1] # NoCwd
       /\ Takeover[owner[peers'[a]]] /\ Cwd[owner[peers'[a]]] = a[1]
       /\ srv'[c] = "destroyed"

\* A holder loses its address only by its own close or rename, or to a
\* registration of the same folder and name that asked for the takeover
\* (_identityForRegister): never to a collision, never in the legacy folder,
\* never to the late close of the connection it replaced (_onClose).
NoTheft == [][\A a \in Listed : KeptOrReplaced(a)]_vars

\* Process p is registered and every line of its connection was handled.
Settled(p) ==
    /\ stage[p] = "joined" /\ sock[p] # 0
    /\ srv[sock[p]] = "open"
    /\ up[sock[p]] = <<>> /\ down[sock[p]] = <<>>

\* Once its lines are handled, a process' peer count is the size of the roster,
\* whatever joined, left, was taken over or renamed meanwhile: the notices of
\* _broadcastSystem always trigger a refresh that is late enough.  Excepted are
\* a refresh that timed out and a soft rename, which asks for none.
CountSettles ==
    \A p \in Procs : Settled(p) /\ ~blind[p] => count[p] = Cardinality(Listed)

\* Once its lines are handled, the name a process shows is the name the broker
\* lists it under, unless renames overlapped or one timed out.
NameSettles ==
    \A p \in Procs : Settled(p) /\ ~slipped[p] => pname[p] = addr[sock[p]][2]

\* peer.ts and tools.ts say that address() is the key the mesh routes on.
\* The code does not keep it: README.md, "Claims the code does not keep".
AddressSettles ==
    \A p \in Procs : Settled(p) /\ ~slipped[p] => paddr[p] = addr[sock[p]]
=============================================================================
