--------------------------- MODULE LeaderElection ---------------------------
(***************************************************************************)
(* The broker election of the local mesh: joinOrLead                       *)
(* (extension/src/session/leader_election.ts) and the failover and         *)
(* displacement logic of SessionPeer (extension/src/session/peer.ts).      *)
(* Whoever binds the session socket runs the broker and everybody else     *)
(* registers with it; there is no coordinator but the file system.         *)
(*                                                                         *)
(* A listener is one successful bind, numbered in bind order: its number   *)
(* stands for the inode of its socket file, which the kernel does not      *)
(* reuse while the listener is open.  `path` is the listener whose file is *)
(* at the session path.  An orphaned broker has dropped its peers and      *)
(* destroys what it accepts from then on, but keeps serving a connection   *)
(* it accepted before; a dead one belongs to a process that exited.        *)
(*                                                                         *)
(* Several joins of one process can run at once: that of start(), those of *)
(* rename() and of the failover after a socket close, which begin whatever *)
(* the others do, each in one of the slots Rejoins, and that of the        *)
(* re-election after a displacement, "watch".  They share the fields of    *)
(* the SessionPeer, among them the listener for the first line, and each   *)
(* await lets every other task run.  A connection is named by the listener *)
(* and the task that opened it.  bind(2)+listen(2) are one step; the gap   *)
(* between them is modelled in CwdLock.  What goes over the sockets once a *)
(* peer is registered is not modelled.                                     *)
(***************************************************************************)
EXTENDS Naturals, FiniteSets

CONSTANTS
    Procs,        \* processes that join the session
    Rejoins,      \* slots for the joins of renames and failovers: a bound on
                  \* how many of them a process runs at once
    MaxBinds,     \* bound on the number of listeners ever bound
    MaxAttempts,  \* joinOrLead's maxAttempts
    MaxBusy,      \* joinOrLead's busyMaxAttempts
    Faulty,       \* the processes that have faults, a bound
    MaxFaults     \* bound on renames, leaves, exits and failed registrations

ASSUME ElectionConstants ==
    /\ "start" \notin Rejoins /\ "watch" \notin Rejoins
    /\ Faulty \subseteq Procs
    /\ MaxBinds \in Nat \ {0}
    /\ MaxAttempts \in Nat \ {0}
    /\ MaxBusy \in Nat
    /\ MaxFaults \in Nat

VARIABLES
    path,      \* the listener whose socket file is at the path, 0 if none
    binds,     \* listeners bound so far
    mine,      \* the open listeners of each process
    orphans,   \* listeners whose broker was orphaned
    role,      \* SessionPeer.role
    broker,    \* SessionPeer.broker, 0 for null
    sock,      \* SessionPeer.socket
    ino,       \* brokerBoundIno, 0 for null
    watching,  \* displacementTimer is set
    left,      \* leftFlag
    published, \* start() has returned, so the session can rename the peer
    hears,     \* the task whose _preAckListener is installed, or was last
    open,      \* the connections each process has wired and not seen closed
    lost,      \* the close event of this.socket is due
    pc,        \* where each task is
    target,    \* the connection a task is probing, registering or replacing
    tries,     \* raceRetries of each task's join
    busySeen,  \* busySeen of each task's join
    faults,    \* faults so far
    gaveUp,    \* history: processes one of whose joins threw
    islands    \* history: listeners whose owner can no longer notice a theft

files == <<path, binds, mine, orphans>>
fields == <<role, broker, sock, ino, watching, left, published, hears>>
conns == <<open, lost>>
tasks == <<pc, target, tries, busySeen>>
history == <<gaveUp, islands>>
vars == <<files, fields, conns, tasks, faults, history>>

Kinds == Rejoins \cup {"start", "watch"}
Listeners == 1..MaxBinds
Conn == (0..MaxBinds) \X Kinds
NoConn == <<0, "start">>
Points == {"down", "idle", "failover", "delay", "exists", "connect", "ack",
           "unlink", "bind", "loopback", "selfRegister", "register"}

NotRunning == [k \in Kinds |-> IF k = "start" THEN "down" ELSE "idle"]

FilesOK ==
    /\ binds \in 0..MaxBinds
    /\ path \in 0..binds
    /\ mine \in [Procs -> SUBSET (1..binds)]
    /\ orphans \subseteq 1..binds

FieldsOK ==
    /\ role \in [Procs -> {"leader", "follower"}]
    /\ broker \in [Procs -> 0..MaxBinds]
    /\ sock \in [Procs -> Conn]
    /\ ino \in [Procs -> 0..MaxBinds]
    /\ watching \in [Procs -> BOOLEAN]
    /\ left \in [Procs -> BOOLEAN]
    /\ published \in [Procs -> BOOLEAN]
    /\ hears \in [Procs -> Kinds]

ConnsOK ==
    /\ open \in [Procs -> SUBSET Conn]
    /\ lost \in [Procs -> BOOLEAN]

TasksOK ==
    /\ pc \in [Procs -> [Kinds -> Points]]
    /\ target \in [Procs -> [Kinds -> Conn]]
    /\ tries \in [Procs -> [Kinds -> 0..(MaxAttempts - 1)]]
    /\ busySeen \in [Procs -> [Kinds -> 0..MaxBusy]]
    /\ faults \in 0..MaxFaults

HistoryOK ==
    /\ gaveUp \subseteq Procs
    /\ islands \subseteq Listeners

TypeOK == FilesOK /\ FieldsOK /\ ConnsOK /\ TasksOK /\ HistoryOK

\* The path is free, or holds what a process that died long ago left there.
Init ==
    /\ binds \in {0, 1}
    /\ path = binds
    /\ mine = [p \in Procs |-> {}]
    /\ orphans = {}
    /\ role = [p \in Procs |-> "follower"]
    /\ broker = [p \in Procs |-> 0]
    /\ sock = [p \in Procs |-> NoConn]
    /\ ino = [p \in Procs |-> 0]
    /\ watching = [p \in Procs |-> FALSE]
    /\ left = [p \in Procs |-> FALSE]
    /\ published = [p \in Procs |-> FALSE]
    /\ hears = [p \in Procs |-> "start"]
    /\ open = [p \in Procs |-> {}]
    /\ lost = [p \in Procs |-> FALSE]
    /\ pc = [p \in Procs |-> NotRunning]
    /\ target = [p \in Procs |-> [k \in Kinds |-> NoConn]]
    /\ tries = [p \in Procs |-> [k \in Kinds |-> 0]]
    /\ busySeen = [p \in Procs |-> [k \in Kinds |-> 0]]
    /\ faults = 0
    /\ gaveUp = {}
    /\ islands = {}
----------------------------------------------------------------------------
(* Pieces of the actions *)

\* The listener still exists, so a connect to it succeeds.
Accepting(l) == \E p \in Procs : l \in mine[p]

\* Its broker answers what connects to it now.
Serving(l) == Accepting(l) /\ l \notin orphans

\* A task waits for the register_ack on c.
Registering(p, c) ==
    \E k \in Kinds : pc[p][k] \in {"register", "selfRegister"} /\ target[p][k] = c

\* p uses a connection that its broker has registered.
Connected(p) == sock[p] \in open[p] /\ ~Registering(p, sock[p])

\* The slot a rename or a failover of p takes, if one is free.
FreeSlot(p, k) ==
    /\ \E j \in Rejoins : pc[p][j] = "idle"
    /\ k = CHOOSE j \in Rejoins : pc[p][j] = "idle"

Goto(p, k, point) == pc' = [pc EXCEPT ![p][k] = point]

Fault(p) == p \in Faulty /\ faults < MaxFaults /\ faults' = faults + 1

\* joinOrLead is called: its counters start at zero.
BeginJoin(p, k) ==
    /\ Goto(p, k, "exists")
    /\ tries' = [tries EXCEPT ![p][k] = 0]
    /\ busySeen' = [busySeen EXCEPT ![p][k] = 0]
    /\ target' = [target EXCEPT ![p][k] = NoConn]

\* The task's join returned or threw.
EndJoin(p, k) ==
    /\ Goto(p, k, "idle")
    /\ tries' = [tries EXCEPT ![p][k] = 0]
    /\ busySeen' = [busySeen EXCEPT ![p][k] = 0]
    /\ target' = [target EXCEPT ![p][k] = NoConn]

\* joinOrLead throws.
GiveUp(p, k) == EndJoin(p, k) /\ gaveUp' = gaveUp \cup {p}

\* _wireSocket, this.socket = c, and _registerOver: the listener of an earlier
\* join that still waits for its ack is replaced.
Wire(p, c) ==
    /\ sock' = [sock EXCEPT ![p] = c]
    /\ open' = [open EXCEPT ![p] = @ \cup {c}]
    /\ lost' = [lost EXCEPT ![p] = FALSE]
    /\ hears' = [hears EXCEPT ![p] = c[2]]

\* p leaves its own broker behind without tearing it down.
Abandon(p) == islands' = islands \cup ({broker[p]} \ {0})

\* p destroys the connections Cs of its own, and the brokers L the connections
\* registered with them: only those are in a broker's peer map.
Destroy(p, Cs, L) ==
    LET dropped(q) == {c \in open[q] : c[1] \in L /\ ~Registering(q, c)}
    IN  /\ open' = [q \in Procs |->
              open[q] \ (dropped(q) \cup (IF q = p THEN Cs ELSE {}))]
        /\ lost' = [q \in Procs |-> q # p /\ (lost[q] \/ sock[q] \in dropped(q))]
----------------------------------------------------------------------------
(* joinOrLead *)

\* The loop's head: existsSync.
Exists(p, k) ==
    /\ pc[p][k] = "exists"
    /\ Goto(p, k, IF path = 0 THEN "bind" ELSE "connect")
    /\ UNCHANGED <<files, fields, conns, target, tries, busySeen, faults, history>>

\* _probeBroker connects.  No file, no listener, or a broker that destroys what
\* it accepts: an error, so "dead".  Otherwise the ping is sent.
Connect(p, k) ==
    /\ pc[p][k] = "connect"
    /\ Goto(p, k, IF path # 0 /\ Serving(path) THEN "ack" ELSE "unlink")
    /\ target' = [target EXCEPT ![p][k] = <<path, k>>]
    /\ UNCHANGED <<files, fields, conns, tries, busySeen, faults, history>>

\* The pong arrives: a follower, whose socket goes on to register.
ProbeLive(p, k) ==
    /\ pc[p][k] = "ack"
    /\ Accepting(target[p][k][1])
    /\ role' = [role EXCEPT ![p] = "follower"]
    /\ Wire(p, target[p][k])
    /\ Goto(p, k, "register")
    /\ Abandon(p)
    /\ UNCHANGED <<files, broker, ino, watching, left, published, target, tries,
                   busySeen, faults, gaveUp>>

\* The listener went away, or was orphaned, before it answered.
ProbeDead(p, k) ==
    /\ pc[p][k] = "ack"
    /\ ~Serving(target[p][k][1])
    /\ Goto(p, k, "unlink")
    /\ UNCHANGED <<files, fields, conns, target, tries, busySeen, faults, history>>

\* Mutated form of ProbeBusy: a busy leader is taken for a dead one.
ProbeBusyDisplacing(p, k) ==
    /\ pc[p][k] = "ack"
    /\ Goto(p, k, "unlink")
    /\ UNCHANGED <<files, fields, conns, target, tries, busySeen, faults, history>>

\* Neither a pong nor an error in time: the leader is busy, wait for it.
ProbeBusy(p, k) ==
    /\ pc[p][k] = "ack"
    /\ busySeen[p][k] < MaxBusy
    /\ busySeen' = [busySeen EXCEPT ![p][k] = @ + 1]
    /\ Goto(p, k, "exists")
    /\ UNCHANGED <<files, fields, conns, target, tries, faults, history>>

\* Once too often: refuse to take over its socket file.
ProbeTooBusy(p, k) ==
    /\ pc[p][k] = "ack"
    /\ busySeen[p][k] = MaxBusy
    /\ GiveUp(p, k)
    /\ UNCHANGED <<files, fields, conns, faults, islands>>

\* _removeStaleSock: unlink whatever is at the path by now.
removeStaleSock(p, k) ==
    /\ pc[p][k] = "unlink"
    /\ path' = 0
    /\ Goto(p, k, "bind")
    /\ UNCHANGED <<binds, mine, orphans, fields, conns, target, tries, busySeen,
                   faults, history>>

\* _tryBind succeeds: leader, with a broker of its own.
BindOk(p, k) ==
    LET l == binds + 1
    IN  /\ pc[p][k] = "bind"
        /\ path = 0
        /\ binds < MaxBinds
        /\ path' = l
        /\ binds' = l
        /\ mine' = [mine EXCEPT ![p] = @ \cup {l}]
        /\ role' = [role EXCEPT ![p] = "leader"]
        /\ broker' = [broker EXCEPT ![p] = l]
        /\ Abandon(p)
        /\ Goto(p, k, "loopback")
        /\ UNCHANGED <<orphans, sock, ino, watching, left, published, hears, conns,
                       target, tries, busySeen, faults, gaveUp>>

\* Lost the bind race: probe again.
BindInUse(p, k) ==
    /\ pc[p][k] = "bind"
    /\ path # 0
    /\ tries[p][k] + 1 < MaxAttempts
    /\ tries' = [tries EXCEPT ![p][k] = @ + 1]
    /\ Goto(p, k, "exists")
    /\ UNCHANGED <<files, fields, conns, target, busySeen, faults, history>>

\* Lost it maxAttempts times.
BindTooOften(p, k) ==
    /\ pc[p][k] = "bind"
    /\ path # 0
    /\ tries[p][k] + 1 = MaxAttempts
    /\ GiveUp(p, k)
    /\ UNCHANGED <<files, fields, conns, faults, islands>>
----------------------------------------------------------------------------
(* Registering *)

\* _registerAsClient: the new leader connects to whatever is at the path now.
LoopbackOk(p, k) ==
    /\ pc[p][k] = "loopback"
    /\ path # 0 /\ Serving(path)
    /\ Wire(p, <<path, k>>)
    /\ target' = [target EXCEPT ![p][k] = <<path, k>>]
    /\ Goto(p, k, "selfRegister")
    /\ UNCHANGED <<files, role, broker, ino, watching, left, published, tries,
                   busySeen, faults, history>>

\* Nobody listens there: the join throws.
LoopbackRefused(p, k) ==
    /\ pc[p][k] = "loopback"
    /\ path = 0 \/ ~Accepting(path)
    /\ GiveUp(p, k)
    /\ Abandon(p)
    /\ UNCHANGED <<files, fields, conns, faults>>

\* An orphaned broker is there and destroys the connection: its close event
\* starts a failover while this join waits for an ack that cannot come.
LoopbackDestroyed(p, k) ==
    /\ pc[p][k] = "loopback"
    /\ path \in orphans /\ Accepting(path)
    /\ sock' = [sock EXCEPT ![p] = <<path, k>>]
    /\ lost' = [lost EXCEPT ![p] = TRUE]
    /\ hears' = [hears EXCEPT ![p] = k]
    /\ EndJoin(p, k)
    /\ Abandon(p)
    /\ UNCHANGED <<files, role, broker, ino, watching, left, published, open, faults,
                   gaveUp>>

\* register_ack.  A broker orphaned meanwhile still registers a connection it
\* had accepted.  A leader then takes the inode at the path for its own and
\* starts the displacement watch.
RegisterAck(p, k) ==
    LET c == target[p][k]
        leads == pc[p][k] = "selfRegister"
    IN  /\ pc[p][k] \in {"register", "selfRegister"}
        /\ c \in open[p] /\ Accepting(c[1])
        /\ hears[p] = k
        /\ ino' = [ino EXCEPT ![p] = IF leads THEN path ELSE @]
        /\ watching' = [watching EXCEPT ![p] = @ \/ leads]
        /\ published' = [published EXCEPT ![p] = @ \/ k = "start"]
        /\ islands' = islands \cup ({c[1]} \cap orphans) \cup
              (IF leads /\ path # 0 THEN {broker[p]} \ {0, path} ELSE {})
        /\ EndJoin(p, k)
        /\ UNCHANGED <<files, role, broker, sock, left, hears, conns, faults, gaveUp>>

\* A later join has replaced the listener: the ack of this one's broker is taken
\* for the other's or dropped, and the join throws after five seconds, though
\* its connection is registered.
RegisterUnheard(p, k) ==
    LET c == target[p][k]
    IN  /\ pc[p][k] \in {"register", "selfRegister"}
        /\ c \in open[p] /\ Accepting(c[1])
        /\ hears[p] # k
        /\ GiveUp(p, k)
        /\ islands' = islands \cup ({c[1]} \cap orphans) \cup
              (IF pc[p][k] = "selfRegister" THEN {broker[p]} \ {0} ELSE {})
        /\ UNCHANGED <<files, fields, conns, faults>>

\* The join throws, though the broker registers the connection: the first line
\* was the roster answer to the probe, or no line came within five seconds.
RegisterRejected(p, k) ==
    LET c == target[p][k]
    IN  /\ pc[p][k] \in {"register", "selfRegister"}
        /\ c \in open[p] /\ Serving(c[1])
        /\ Fault(p)
        /\ GiveUp(p, k)
        /\ islands' = IF pc[p][k] = "selfRegister"
                      THEN islands \cup ({broker[p]} \ {0}) ELSE islands
        /\ UNCHANGED <<files, fields, conns>>

\* The connection is gone before the ack: destroyed by the broker, by the end
\* of its process, or by a teardown on this side.
RegisterClosed(p, k) ==
    LET c == target[p][k]
    IN  /\ pc[p][k] \in {"register", "selfRegister"}
        /\ c \notin open[p] \/ ~Serving(c[1])
        /\ open' = [open EXCEPT ![p] = @ \ {c}]
        /\ lost' = [lost EXCEPT ![p] = @ \/ sock[p] = c]
        /\ EndJoin(p, k)
        /\ islands' = IF pc[p][k] = "selfRegister"
                      THEN islands \cup ({broker[p]} \ {0}) ELSE islands
        /\ UNCHANGED <<files, fields, faults, gaveUp>>
----------------------------------------------------------------------------
(* SessionPeer *)

start(p) ==
    /\ pc[p]["start"] = "down"
    /\ BeginJoin(p, "start")
    /\ UNCHANGED <<files, fields, conns, faults, history>>

\* Mutated form of teardownConn: orphan() without destroying the peers.
teardownConnSilently(p) ==
    /\ Destroy(p, {sock[p]}, {})
    /\ orphans' = orphans \cup ({broker[p]} \ {0})
    /\ sock' = [sock EXCEPT ![p] = NoConn]
    /\ broker' = [broker EXCEPT ![p] = 0]
    /\ ino' = [ino EXCEPT ![p] = 0]
    /\ watching' = [watching EXCEPT ![p] = FALSE]
    /\ UNCHANGED path

\* _teardownConn.  brokerBoundIno is cleared before the ownership test reads
\* it, so the broker is always orphaned and its file is never removed.
teardownConn(p) ==
    /\ Destroy(p, {sock[p]}, {broker[p]})
    /\ orphans' = orphans \cup ({broker[p]} \ {0})
    /\ sock' = [sock EXCEPT ![p] = NoConn]
    /\ broker' = [broker EXCEPT ![p] = 0]
    /\ ino' = [ino EXCEPT ![p] = 0]
    /\ watching' = [watching EXCEPT ![p] = FALSE]
    /\ UNCHANGED path

\* rename(): a soft rejoin, whatever joins are under way.
rename(p, k) ==
    /\ published[p] /\ ~left[p]
    /\ FreeSlot(p, k)
    /\ Fault(p)
    /\ teardownConn(p)
    /\ BeginJoin(p, k)
    /\ UNCHANGED <<binds, mine, role, left, published, hears, history>>

\* leave(): a join already past its delay is not stopped.
leave(p) ==
    /\ pc[p]["start"] # "down"
    /\ ~left[p]
    /\ Fault(p)
    /\ teardownConn(p)
    /\ left' = [left EXCEPT ![p] = TRUE]
    /\ UNCHANGED <<binds, mine, role, published, hears, tasks, history>>

\* The process exits: the kernel closes its listeners and sockets, the files
\* stay.  Another may be started in its place.
exit(p) ==
    /\ pc[p]["start"] # "down"
    /\ Fault(p)
    /\ Destroy(p, open[p], mine[p])
    /\ mine' = [mine EXCEPT ![p] = {}]
    /\ role' = [role EXCEPT ![p] = "follower"]
    /\ broker' = [broker EXCEPT ![p] = 0]
    /\ sock' = [sock EXCEPT ![p] = NoConn]
    /\ ino' = [ino EXCEPT ![p] = 0]
    /\ watching' = [watching EXCEPT ![p] = FALSE]
    /\ left' = [left EXCEPT ![p] = FALSE]
    /\ published' = [published EXCEPT ![p] = FALSE]
    /\ hears' = [hears EXCEPT ![p] = "start"]
    /\ pc' = [pc EXCEPT ![p] = NotRunning]
    /\ target' = [target EXCEPT ![p] = [k \in Kinds |-> NoConn]]
    /\ tries' = [tries EXCEPT ![p] = [k \in Kinds |-> 0]]
    /\ busySeen' = [busySeen EXCEPT ![p] = [k \in Kinds |-> 0]]
    /\ orphans' = orphans \ mine[p]
    /\ islands' = islands \ mine[p]
    /\ gaveUp' = gaveUp \ {p}
    /\ UNCHANGED <<path, binds>>

\* Mutated form of onSocketClose: the close of a socket is not acted upon.
onSocketCloseIgnored(p, k) ==
    /\ lost[p]
    /\ FreeSlot(p, k)
    /\ lost' = [lost EXCEPT ![p] = FALSE]
    /\ UNCHANGED <<files, fields, open, tasks, faults, history>>

\* _onSocketClose of the current socket: fail over after a delay, unless left.
onSocketClose(p, k) ==
    /\ lost[p]
    /\ FreeSlot(p, k)
    /\ lost' = [lost EXCEPT ![p] = FALSE]
    /\ Goto(p, k, IF left[p] THEN "idle" ELSE "failover")
    /\ target' = [target EXCEPT ![p][k] = sock[p]]
    /\ UNCHANGED <<files, fields, open, tries, busySeen, faults, history>>

\* The delay is over: re-elect, unless left or another join replaced the socket.
Failover(p, k) ==
    /\ pc[p][k] = "failover"
    /\ IF left[p] \/ sock[p] # target[p][k]
       THEN EndJoin(p, k)
       ELSE BeginJoin(p, k)
    /\ UNCHANGED <<files, fields, conns, faults, history>>

\* Mutated form of checkDisplacement: only a missing file is noticed.
checkDisplacementMissing(p) ==
    /\ watching[p]
    /\ ~left[p] /\ role[p] = "leader" /\ broker[p] # 0
    /\ pc[p]["watch"] = "idle"
    /\ path = 0
    /\ teardownConn(p)
    /\ role' = [role EXCEPT ![p] = "follower"]
    /\ Goto(p, "watch", "delay")
    /\ UNCHANGED <<binds, mine, left, published, hears, target, tries, busySeen,
                   faults, history>>

\* A tick of the displacement watch that finds another inode, or none, at the
\* path: the displaced broker is torn down.
checkDisplacement(p) ==
    /\ watching[p]
    /\ ~left[p] /\ role[p] = "leader" /\ broker[p] # 0
    /\ pc[p]["watch"] = "idle"
    /\ path = 0 \/ path # ino[p]
    /\ teardownConn(p)
    /\ role' = [role EXCEPT ![p] = "follower"]
    /\ Goto(p, "watch", "delay")
    /\ UNCHANGED <<binds, mine, left, published, hears, target, tries, busySeen,
                   faults, history>>

\* _reelectAfterDisplacement, after its delay.
Reelect(p) ==
    /\ pc[p]["watch"] = "delay"
    /\ IF left[p]
       THEN EndJoin(p, "watch")
       ELSE BeginJoin(p, "watch")
    /\ UNCHANGED <<files, fields, conns, faults, history>>

joinOrLead(p, k) ==
    \/ Exists(p, k)
    \/ Connect(p, k)
    \/ ProbeLive(p, k)
    \/ ProbeDead(p, k)
    \/ ProbeBusy(p, k)
    \/ ProbeTooBusy(p, k)
    \/ removeStaleSock(p, k)
    \/ BindOk(p, k)
    \/ BindInUse(p, k)
    \/ BindTooOften(p, k)
    \/ LoopbackOk(p, k)
    \/ LoopbackRefused(p, k)
    \/ LoopbackDestroyed(p, k)
    \/ RegisterAck(p, k)
    \/ RegisterUnheard(p, k)
    \/ RegisterClosed(p, k)

Recover(p) ==
    \/ \E k \in Rejoins : onSocketClose(p, k) \/ Failover(p, k)
    \/ checkDisplacement(p)
    \/ Reelect(p)

Next ==
    \E p \in Procs :
        \/ start(p)
        \/ \E k \in Kinds : joinOrLead(p, k) \/ RegisterRejected(p, k)
        \/ Recover(p)
        \/ \E k \in Rejoins : rename(p, k)
        \/ leave(p)
        \/ exit(p)

\* What drives a task on: its next step in joinOrLead, or the end of its delay.
Proceed(p, k) ==
    \/ joinOrLead(p, k)
    \/ k \in Rejoins /\ Failover(p, k)
    \/ k = "watch" /\ Reelect(p)

\* An event loop runs its timers and callbacks; it need not start, rename,
\* leave or fail.
Fairness ==
    \A p \in Procs :
        /\ \A k \in Kinds : WF_vars(Proceed(p, k))
        /\ WF_vars(\E k \in Rejoins : onSocketClose(p, k))
        /\ WF_vars(checkDisplacement(p))

Spec == Init /\ [][Next]_vars /\ Fairness
----------------------------------------------------------------------------
(* Properties *)

\* A listener belongs to one process.
OneOwner == \A p, q \in Procs : p # q => mine[p] \cap mine[q] = {}

\* The broker of a process is one of its own listeners and still serves.
BrokersServe == \A p \in Procs : broker[p] # 0 => broker[p] \in mine[p] \ orphans

\* A registered connection leads to a listener that exists, and to an orphaned
\* one only if it was registered too late to be destroyed with the others.
LinksLive ==
    \A p \in Procs : \A c \in open[p] :
        ~Registering(p, c) => /\ Accepting(c[1])
                              /\ c[1] \in orphans => c[1] \in islands

\* Whoever is about to unlink has probed a listener that answers nobody.
VerdictsSound ==
    \A p \in Procs, k \in Kinds :
        /\ pc[p][k] \in {"ack", "unlink"} => target[p][k][1] <= binds
        /\ pc[p][k] = "unlink" => ~Serving(target[p][k][1])

\* The inductive invariant of the election.
ElectionInv == TypeOK /\ OneOwner /\ BrokersServe /\ LinksLive /\ VerdictsSound

\* "NEVER unlink/re-bind over a live-but-busy leader" (leader_election.ts:69)
\* and "NEVER call server.close()" on a displaced listener (broker.ts:320): the
\* file of a serving broker goes away only by the unlink of a joiner that had
\* probed an earlier file, never by a verdict on that broker or by a teardown.
BusyLeaderKept ==
    [][path # 0 /\ Serving(path) /\ path' # path
          => \E p \in Procs, k \in Kinds :
                /\ pc[p][k] = "unlink" /\ pc'[p][k] = "bind"
                /\ target[p][k][1] # path]_vars

\* Nobody will take down the broker of l if it loses its file.
Unguarded(l) == l \in islands \/ \E p \in Procs : left[p] /\ l \in mine[p]

\* "either way exactly one registry survives" (peer.ts:482): in the end every
\* connected process is registered with the broker at the path, or with one
\* whose owner has lost its means of noticing.  Joiners that go on unlinking
\* each other's files until the bound on binds are not counted.
Converges ==
  Fairness =>
    <>[](\A p \in Procs :
            Connected(p) /\ ~Unguarded(sock[p][1]) /\ binds < MaxBinds
                => sock[p][1] = path)

\* "Remaining peers re-run joinOrLead" (peer.ts:24): a process whose connection
\* closes is connected again, unless it leaves, exits or its join throws.
Reconnects ==
  Fairness =>
    \A p \in Procs :
        lost[p] ~> \/ Connected(p) \/ p \in gaveUp \/ left[p]
                   \/ pc[p]["start"] = "down" \/ binds = MaxBinds

\* "or we'd double-register ... and leave an orphaned still-open socket as a
\* ghost peer" (peer.ts:744): a process is registered over its current socket
\* only.
\* The code does not keep it: README.md, "Claims the code does not keep".
NoGhosts ==
    \A p \in Procs : \A c \in open[p] : Registering(p, c) \/ c = sock[p]

\* "no one ever registers on a registry that no longer converges with the mesh"
\* (broker.ts:336).
NoOrphanRegistration ==
    \A p \in Procs : Connected(p) => sock[p][1] \notin orphans
============================================================================
