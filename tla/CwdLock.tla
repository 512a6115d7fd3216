------------------------------ MODULE CwdLock ------------------------------
(***************************************************************************)
(* The per-(cwd, name) singleton lock of extension/src/session/cwd_lock.ts.*)
(* A Pi process owns a folder while it keeps a Unix-domain listener bound  *)
(* at one lock path.  acquireCwdLock is a straight line of system calls    *)
(* (bind+listen, connect, unlink, bind+listen) and every other process can *)
(* run between any two of them, so each system call is an action here.     *)
(*                                                                         *)
(* `path` is what the directory entry names: nothing, the socket of the    *)
(* process that is listening (or about to listen) on it, or the leftover   *)
(* of a process that died.  A process has at most one socket, so its name  *)
(* identifies it.  Closing a Node server unlinks the path it was bound to  *)
(* whatever the path names by then; dying leaves the entry behind.         *)
(***************************************************************************)
EXTENDS Naturals, FiniteSets

CONSTANTS
    Procs,            \* the Pi processes started in one folder
    NoFile,           \* the lock path does not exist
    StaleFile,        \* the lock path is the leftover of a dead process
    ProbeMayTimeOut,  \* can tryConnect miss a live listener (500 ms, full backlog)?
    MaxCrashes        \* bound on the number of process deaths

ASSUME LockConstants ==
    /\ NoFile \notin Procs
    /\ StaleFile \notin Procs
    /\ NoFile # StaleFile
    /\ ProbeMayTimeOut \in BOOLEAN
    /\ MaxCrashes \in Nat

VARIABLES
    path,        \* what the lock path names
    pc,          \* where each process is in acquireCwdLock
    crashes,     \* deaths so far
    theft,       \* history: some process unlinked another's live socket
    disturbed    \* history: has any process died since p started its attempt?

vars == <<path, pc, crashes, theft, disturbed>>

Points == {"idle", "bind", "listen", "probe", "unlink", "rebind", "held", "closing"}

\* p owns a socket it has not taken its name from: between bind(2) and the
\* unlink of its close.
Live(p) == pc[p] \in {"listen", "held"}

\* A connect to the path reaches a listener (listen(2) has been called).
Listening == path \in Procs /\ pc[path] = "held"

Stale == path = StaleFile

Goto(p, l) == pc' = [pc EXCEPT ![p] = l]

TypeOK ==
    /\ path \in Procs \cup {NoFile, StaleFile}
    /\ pc \in [Procs -> Points]
    /\ crashes \in 0..MaxCrashes
    /\ theft \in BOOLEAN
    /\ disturbed \in [Procs -> BOOLEAN]

Init ==
    /\ path \in {NoFile, StaleFile}
    /\ pc = [p \in Procs |-> "idle"]
    /\ crashes = 0
    /\ theft = FALSE
    /\ disturbed = [p \in Procs |-> FALSE]

\* unlink(2) on the lock path by p: whatever it names goes.
UnlinkPath(p) ==
    /\ path' = NoFile
    /\ theft' = (theft \/ (path \in Procs /\ path # p))

acquireCwdLock(p) ==
    /\ pc[p] = "idle"
    /\ Goto(p, "bind")
    /\ disturbed' = [disturbed EXCEPT ![p] = FALSE]
    /\ UNCHANGED <<path, crashes, theft>>

\* Mutated form of BindOk: a bind that takes over an existing entry.
BindOkReplacing(p) ==
    /\ pc[p] \in {"bind", "rebind"}
    /\ path' = p
    /\ Goto(p, "listen")
    /\ UNCHANGED <<crashes, theft, disturbed>>

\* bind(2) of the first or of the second tryBind: the entry must not exist.
BindOk(p) ==
    /\ pc[p] \in {"bind", "rebind"}
    /\ path = NoFile
    /\ path' = p
    /\ Goto(p, "listen")
    /\ UNCHANGED <<crashes, theft, disturbed>>

\* EADDRINUSE.  The first failure leads to the probe, the second one refuses.
BindInUse(p) ==
    /\ pc[p] \in {"bind", "rebind"}
    /\ path # NoFile
    /\ Goto(p, IF pc[p] = "bind" THEN "probe" ELSE "idle")
    /\ UNCHANGED <<path, crashes, theft, disturbed>>

\* listen(2); tryBind settles and the lock is acquired.
Listen(p) ==
    /\ pc[p] = "listen"
    /\ Goto(p, "held")
    /\ UNCHANGED <<path, crashes, theft, disturbed>>

\* Mutated form of ProbeLive: the existence of the file taken for a live holder.
ProbeExists(p) ==
    /\ pc[p] = "probe"
    /\ path # NoFile
    /\ Goto(p, "idle")
    /\ UNCHANGED <<path, crashes, theft, disturbed>>

\* tryConnect reached a listener: refused.
ProbeLive(p) ==
    /\ pc[p] = "probe"
    /\ Listening
    /\ Goto(p, "idle")
    /\ UNCHANGED <<path, crashes, theft, disturbed>>

\* tryConnect returned null: ENOENT, ECONNREFUSED or, when allowed, no answer.
ProbeDead(p) ==
    /\ pc[p] = "probe"
    /\ ~Listening \/ ProbeMayTimeOut
    /\ Goto(p, "unlink")
    /\ UNCHANGED <<path, crashes, theft, disturbed>>

\* Mutated form of removeStaleSock: the leftover is kept.
removeStaleSockSkipped(p) ==
    /\ pc[p] = "unlink"
    /\ Goto(p, "rebind")
    /\ UNCHANGED <<path, crashes, theft, disturbed>>

\* lstat, then unlink of whatever the path names now.
removeStaleSock(p) ==
    /\ pc[p] = "unlink"
    /\ UnlinkPath(p)
    /\ Goto(p, "rebind")
    /\ UNCHANGED <<crashes, disturbed>>

\* release(): server.close() first unlinks the path by name ...
release(p) ==
    /\ pc[p] = "held"
    /\ UnlinkPath(p)
    /\ Goto(p, "closing")
    /\ UNCHANGED <<crashes, disturbed>>

\* ... and then closes the socket, which no name leads to any more.
Close(p) ==
    /\ pc[p] = "closing"
    /\ Goto(p, "idle")
    /\ UNCHANGED <<path, crashes, theft, disturbed>>

\* kill -9: the kernel closes the socket, the directory entry stays.
Crash(p) ==
    /\ pc[p] # "idle"
    /\ crashes < MaxCrashes
    /\ crashes' = crashes + 1
    /\ path' = IF path = p THEN StaleFile ELSE path
    /\ Goto(p, "idle")
    /\ disturbed' = [q \in Procs |-> TRUE]
    /\ UNCHANGED theft

\* The steps of an attempt or a release already begun: the event loop and the
\* kernel drive them.
Attempt(p) ==
    \/ BindOk(p)
    \/ BindInUse(p)
    \/ Listen(p)
    \/ ProbeLive(p)
    \/ ProbeDead(p)
    \/ removeStaleSock(p)
    \/ Close(p)

Next ==
    \E p \in Procs : acquireCwdLock(p) \/ Attempt(p) \/ release(p) \/ Crash(p)

Fairness == \A p \in Procs : WF_vars(Attempt(p))

Spec == Init /\ [][Next]_vars /\ Fairness
----------------------------------------------------------------------------
(* Properties *)

\* "At most one Pi process per working directory may hold the lock"
\* (cwd_lock.ts:10): no two processes have been told { ok: true }.
MutualExclusion ==
    \A p, q \in Procs : pc[p] = "held" /\ pc[q] = "held" => p = q

\* The kernel's exclusion is about the NAME: as long as nobody has unlinked the
\* socket of a live process, two processes never own a bound socket together.
ExclusiveUnlessUnlinked ==
    ~theft => \A p, q \in Procs : Live(p) /\ Live(q) => p = q

\* While no live socket has been unlinked, a live socket is the one the path
\* names; the path never names a process that owns no socket; and whatever is
\* at the path after p removed the stale file was put there by a process that
\* is alive, unless one died meanwhile.
NameAgreement ==
    /\ ~theft => \A p \in Procs : Live(p) => path = p
    /\ path \in Procs => Live(path)
    /\ \A p \in Procs : pc[p] = "rebind" /\ Stale => disturbed[p]

IInv == TypeOK /\ NameAgreement

\* An attempt is refused only when another process owns a socket at that very
\* moment, or one died while the attempt was running: "{ ok: false } when a
\* live Pi already holds the lock" (cwd_lock.ts:89).
RefusalJustified ==
    [][\A p \in Procs :
        pc[p] \in {"probe", "rebind"} /\ pc'[p] = "idle"
            => \/ disturbed'[p]
               \/ \E q \in Procs \ {p} : Live(q)]_vars

\* "Fully self-healing" (cwd_lock.ts:18): a leftover of a dead process is not
\* there forever unless nobody ever tries again.
SelfHealing ==
    <>[]Stale => <>[](\A p \in Procs : pc[p] \in {"idle", "held"})
============================================================================
