---------------------------- MODULE RemoteLaunch ----------------------------
(***************************************************************************)
(* Starting a session on a machine where none runs: the launcher daemon    *)
(* (launcher.ts, launch.ts, peer_channel.ts) keeps a connection to the     *)
(* relay, tells it who is paired, gates the owners that write to it and    *)
(* starts pi in a window; `unbien create-session` and `resume-session`     *)
(* (machine.ts, create_session.ts, resume_session.ts) ask for it and       *)
(* attach to the room that appears.  An ask is one run of such a command;  *)
(* a session is named by the ask that started it.                          *)
(***************************************************************************)
EXTENDS Naturals, FiniteSets

CONSTANTS
    Devices,    \* the owners' devices
    Asks,       \* runs of create-session and resume-session
    AskedBy,    \* Asks -> the device each runs on
    MaxDials,   \* RelayClient objects of the launcher at one time
    MaxFailures,    \* connects and connections that fail, and disk errors
    MaxEdits        \* what the machine's user does: pairing, configuring, stopping

ASSUME LaunchAssumption ==
    /\ AskedBy \in [Asks -> Devices]
    /\ MaxDials \in Nat \ {0} /\ MaxFailures \in Nat /\ MaxEdits \in Nat

VARIABLES
    dial,       \* each RelayClient of the launcher and its socket
    latest,     \* relay: the client made last
    redial,     \* reconnectTimer # null
    halted,     \* stopped
    chan,       \* channels: device -> the client its channel is on, 0 for none
    ears,       \* how many channels of a device listen on a client
    gates,      \* gateAndAttach calls at their await
    handling,   \* handleUbFrame calls at their await, counted
    lines,      \* what the relay has sent to each client
    paired,     \* peers.json
    allowed,    \* the allow-list the relay has for this machine
    push,       \* the pairing_set under way on each client
    policy,     \* allow_remote_launch and launch.dirs
    verb,       \* how far each command is
    before,     \* beforeRooms
    errs,       \* error frames on their way to a command
    spawned,    \* child processes of _launchSession
    rooms,      \* sessions with an announced room
    windows,    \* the sessions among them that run in a tmux window
    launched,   \* history: how often each ask was launched
    cleared,    \* history: asks whose device was paired when their launch came or since
    excuse,     \* history: which of the rare coincidences have happened
    failures,   \* what is left of MaxFailures
    edits       \* what is left of MaxEdits

launchVars == <<dial, latest, redial, halted, chan, ears, gates, handling, lines,
    paired, allowed, push, policy, verb, before, errs, spawned, rooms,
    windows, launched, cleared, excuse, failures, edits>>

linkPart == <<dial, latest, redial, halted>>
ownerPart == <<chan, ears, gates, handling, lines, cleared>>
trustPart == <<paired, allowed, push>>
verbPart == <<verb, before, errs>>
spawnPart == <<spawned, rooms, windows, launched>>

Dials == 1..MaxDials
Phases == {"list", "read", "yes", "no"}
NoPush == [phase |-> "none", list |-> {}]
Spawns == [ask : Asks, how : {"new-session", "new-window", "workspace", "agent"}]

LaunchTypeOK ==
    /\ dial \in [Dials -> {"dialing", "closing", "late", "open", "shut", "closed"}]
    /\ latest \in Dials /\ redial \in BOOLEAN /\ halted \in BOOLEAN
    /\ chan \in [Devices -> Dials \union {0}]
    /\ ears \in [Dials -> [Devices -> Nat]]
    /\ gates \subseteq [on : Dials, ask : Asks, what : {"list", "launch"},
                        phase : {"read", "yes", "no"}]
    /\ handling \in [Asks -> [Phases -> Nat]]
    /\ lines \subseteq [on : Dials, ask : Asks, what : {"list", "launch"}]
    /\ paired \subseteq Devices /\ allowed \subseteq Devices
    /\ push \in [Dials -> [phase : {"none", "read", "mint"}, list : SUBSET Devices]]
    /\ policy \in {"on", "elsewhere", "off"}
    /\ verb \in [Asks -> {"idle", "listing", "ready", "waiting", "polling",
                          "attached", "rejected", "failed"}]
    /\ before \in [Asks -> SUBSET Asks]
    /\ errs \subseteq Asks /\ spawned \subseteq Spawns
    /\ rooms \subseteq Asks /\ windows \subseteq rooms
    /\ launched \in [Asks -> Nat] /\ cleared \subseteq Asks
    /\ excuse \subseteq {"late close", "overtaken", "mint broken"}
    /\ failures \in 0..MaxFailures /\ edits \in 0..MaxEdits

Failure == failures > 0 /\ failures' = failures - 1 /\ UNCHANGED edits

Edit == edits > 0 /\ edits' = edits - 1 /\ UNCHANGED failures

Calm == UNCHANGED <<failures, edits>>

(***************************************************************************)
(* The connection of the launcher.                                         *)
(***************************************************************************)
\* A client object that nothing refers to any more.
Spare(d) ==
    /\ dial[d] = "closed" /\ push[d].phase = "none"
    /\ \A g \in gates : g.on # d
    /\ \A o \in Devices : chan[o] # d

\* connectOnce up to its first await: the client is published before it connects.
connectOnce(d) ==
    /\ Spare(d) /\ \A e \in 1..(d - 1) : ~Spare(e)
    /\ dial' = [dial EXCEPT ![d] = "dialing"]
    /\ ears' = [ears EXCEPT ![d] = [o \in Devices |-> 0]]
    /\ latest' = d

scheduleReconnect == redial' = ~halted

ReconnectTimer ==
    /\ redial /\ ~halted
    /\ redial' = FALSE
    /\ \E d \in Dials : connectOnce(d)
    /\ UNCHANGED <<halted, chan, gates, handling, lines, cleared, excuse>>
    /\ UNCHANGED <<trustPart, verbPart, spawnPart, policy>> /\ Calm

ConnectResolves(d) ==
    /\ dial[d] = "dialing"
    /\ dial' = [dial EXCEPT ![d] = "open"]
    /\ push' = [push EXCEPT ![d] = [phase |-> "read", list |-> {}]]
    /\ UNCHANGED <<latest, redial, halted, paired, allowed, excuse>>
    /\ UNCHANGED <<ownerPart, verbPart, spawnPart, policy>> /\ Calm

\* A connect that rejects without the catch of its caller (mutant).
ConnectRejectsUncaught(d) ==
    /\ \/ dial[d] = "dialing" /\ Failure
       \/ dial[d] = "closing" /\ Calm
    /\ dial' = [dial EXCEPT ![d] = "closed"]
    /\ UNCHANGED <<latest, redial, halted, excuse>>
    /\ UNCHANGED <<ownerPart, trustPart, verbPart, spawnPart, policy>>

\* connect rejects, because the relay is not there or the socket was closed
\* under it; whoever called connectOnce schedules another attempt.
ConnectRejects(d) ==
    /\ \/ dial[d] = "dialing" /\ Failure
       \/ dial[d] = "closing" /\ Calm
    /\ dial' = [dial EXCEPT ![d] = "closed"]
    /\ scheduleReconnect
    /\ UNCHANGED <<latest, halted, excuse>>
    /\ UNCHANGED <<ownerPart, trustPart, verbPart, spawnPart, policy>>

\* The 15 s timer closes a client that is still connecting.
ConnectTimer(d) ==
    /\ dial[d] = "dialing" /\ Failure
    /\ dial' = [dial EXCEPT ![d] = "closing"]
    /\ UNCHANGED <<latest, redial, halted, excuse>>
    /\ UNCHANGED <<ownerPart, trustPart, verbPart, spawnPart, policy>>

\* The challenge came in before the close completed: connect resolves, the
\* flag turns that into a failure, and the close event is still to come.
ConnectResolvesLate(d) ==
    /\ dial[d] = "closing"
    /\ dial' = [dial EXCEPT ![d] = "late"]
    /\ scheduleReconnect
    /\ UNCHANGED <<latest, halted, excuse>>
    /\ UNCHANGED <<ownerPart, trustPart, verbPart, spawnPart, policy>> /\ Calm

\* The close handler of connectOnce: it clears every channel, whichever client
\* the channel is on, and leaves the channels' listeners where they are.
OnClose(d) ==
    /\ \/ dial[d] = "open" /\ Failure /\ UNCHANGED excuse
       \/ dial[d] = "late" /\ Calm /\ excuse' = excuse \union {"late close"}
       \/ dial[d] = "shut" /\ Calm /\ UNCHANGED excuse
    /\ dial' = [dial EXCEPT ![d] = "closed"]
    /\ lines' = {f \in lines : f.on # d}
    /\ chan' = [o \in Devices |-> 0]
    /\ scheduleReconnect
    /\ UNCHANGED <<latest, halted, ears, gates, handling, cleared>>
    /\ UNCHANGED <<trustPart, verbPart, spawnPart, policy>>

Stop ==
    /\ ~halted /\ Edit
    /\ halted' = TRUE /\ redial' = FALSE
    /\ dial' = [dial EXCEPT ![latest] = CASE @ = "dialing" -> "closing"
                                          [] @ = "open" -> "shut"
                                          [] OTHER -> @]
    /\ ears' = [d \in Dials |-> [o \in Devices |->
                    IF chan[o] = d THEN ears[d][o] - 1 ELSE ears[d][o]]]
    /\ chan' = [o \in Devices |-> 0]
    /\ UNCHANGED <<latest, gates, handling, lines, cleared, excuse>>
    /\ UNCHANGED <<trustPart, verbPart, spawnPart, policy>>

(***************************************************************************)
(* The allow-list: listPeers and nextAllowListVersion run side by side, so *)
(* the list may be older than its version; the relay keeps the list with   *)
(* the newest version.                                                     *)
(***************************************************************************)
ListPeers(d) ==
    /\ push[d].phase = "read"
    /\ push' = [push EXCEPT ![d] = [phase |-> "mint", list |-> paired]]
    /\ UNCHANGED <<linkPart, ownerPart, paired, allowed, excuse>>
    /\ UNCHANGED <<verbPart, spawnPart, policy>> /\ Calm

\* sendControl drops the frame unless the socket is open.  A mint that failed
\* once leaves a rejected promise at the head of the chain, so all later ones
\* of the process fail as well.
PushAllowList(d) ==
    /\ push[d].phase = "mint"
    /\ push' = [push EXCEPT ![d] = NoPush]
    /\ \/ /\ "mint broken" \notin excuse /\ Calm /\ UNCHANGED excuse
          /\ allowed' = IF dial[d] = "open" THEN push[d].list ELSE allowed
       \/ /\ "mint broken" \in excuse /\ Calm /\ UNCHANGED <<allowed, excuse>>
       \/ /\ Failure /\ UNCHANGED allowed
          /\ excuse' = excuse \union {"mint broken"}
    /\ UNCHANGED <<linkPart, ownerPart, paired>>
    /\ UNCHANGED <<verbPart, spawnPart, policy>>

\* The asks of a device whose launch has come in and is not decided.
Arrived(o) == {q \in Asks : AskedBy[q] = o /\
                 \/ \E g \in gates : g.ask = q /\ g.what = "launch"
                 \/ \E p \in Phases \ {"list"} : handling[q][p] > 0}

\* A session of the machine pairs a device or drops it, and pushes the list.
PairingChanges(o) ==
    /\ Edit
    /\ paired' = IF o \in paired THEN paired \ {o} ELSE paired \union {o}
    /\ allowed' = paired'
    /\ cleared' = IF o \in paired' THEN cleared \union Arrived(o) ELSE cleared
    /\ excuse' = IF \E d \in Dials : push[d].phase = "mint"
                 THEN excuse \union {"overtaken"} ELSE excuse
    /\ UNCHANGED <<linkPart, chan, ears, gates, handling, lines, push>>
    /\ UNCHANGED <<verbPart, spawnPart, policy>>

Reconfigure ==
    /\ Edit
    /\ policy' \in {"on", "elsewhere", "off"} \ {policy}
    /\ UNCHANGED <<linkPart, ownerPart, trustPart, verbPart, spawnPart, excuse>>

(***************************************************************************)
(* The commands.                                                           *)
(***************************************************************************)
\* connectControlRoom and, for create-session, the snapshot of rooms; a
\* listing the relay refuses ends the command.
StartCreate(q) ==
    /\ verb[q] = "idle"
    /\ verb' = [verb EXCEPT ![q] = IF AskedBy[q] \in allowed THEN "ready" ELSE "failed"]
    /\ before' = [before EXCEPT ![q] = rooms]
    /\ UNCHANGED <<linkPart, ownerPart, trustPart, errs, spawnPart, policy, excuse>>
    /\ Calm

\* A frame for the control room: every connection of the launcher gets it; with
\* none, or without being allowed, the sender gets an error.
Forward(q, what) ==
    LET targets == {d \in Dials : dial[d] = "open"}
    IN  IF AskedBy[q] \in allowed /\ targets # {}
        THEN /\ lines' = lines \union {[on |-> d, ask |-> q, what |-> what] : d \in targets}
             /\ UNCHANGED errs
        ELSE errs' = errs \union {q} /\ UNCHANGED lines

StartResume(q) ==
    /\ verb[q] = "idle" /\ AskedBy[q] \in allowed
    /\ verb' = [verb EXCEPT ![q] = "listing"]
    \* nothing is excluded later: the session is recognised by its id
    /\ before' = [before EXCEPT ![q] = Asks \ {q}]
    /\ Forward(q, "list")
    /\ UNCHANGED <<linkPart, chan, ears, gates, handling, cleared, trustPart>>
    /\ UNCHANGED <<spawnPart, policy, excuse>> /\ Calm

launchAndWait(q) ==
    /\ verb[q] = "ready"
    /\ verb' = [verb EXCEPT ![q] = "waiting"]
    /\ Forward(q, "launch")
    /\ UNCHANGED <<linkPart, chan, ears, gates, handling, cleared, trustPart, before>>
    /\ UNCHANGED <<spawnPart, policy, excuse>> /\ Calm

\* Any error frame ends the wait it comes in; before and after, nobody listens.
ErrorArrives(q) ==
    /\ q \in errs
    /\ errs' = errs \ {q}
    /\ verb' = [verb EXCEPT ![q] = CASE @ = "waiting" -> "rejected"
                                     [] @ = "listing" -> "failed"
                                     [] OTHER -> @]
    /\ UNCHANGED <<linkPart, ownerPart, trustPart, before, spawnPart, policy, excuse>>
    /\ Calm

\* 8 s without an error are taken for success, 10 s without a list for none,
\* 30 s without a room for a failure.
VerbTimeout(q) ==
    /\ verb[q] \in {"listing", "waiting", "polling"}
    /\ verb' = [verb EXCEPT ![q] = IF @ = "waiting" THEN "polling" ELSE "failed"]
    /\ UNCHANGED <<linkPart, ownerPart, trustPart, before, errs, spawnPart, policy, excuse>>
    /\ Calm

waitForRoom(q) ==
    /\ verb[q] = "polling" /\ rooms \ before[q] # {}
    /\ verb' = [verb EXCEPT ![q] = "attached"]
    /\ UNCHANGED <<linkPart, ownerPart, trustPart, before, errs, spawnPart, policy, excuse>>
    /\ Calm

(***************************************************************************)
(* The owners' lines at the launcher.                                      *)
(***************************************************************************)
\* handleUbFrame up to its await, run n times; the opt-in is read here.
Handled(q, what, n) ==
    CASE what = "list" -> [handling EXCEPT ![q]["list"] = @ + n]
      [] what = "launch" /\ policy = "off" -> handling
      [] OTHER -> [handling EXCEPT ![q]["read"] = @ + n]

\* A line on client d goes to onMsg and to every channel of its device there.
OnMessage(d) ==
    \E f \in lines :
        LET o == AskedBy[f.ask] IN
        /\ f.on = d /\ dial[d] = "open"
        /\ lines' = lines \ {f}
        /\ handling' = Handled(f.ask, f.what, ears[d][o])
        /\ gates' = IF chan[o] # 0 THEN gates
                    ELSE gates \union {[on |-> d, ask |-> f.ask, what |-> f.what,
                                        phase |-> "read"]}
        /\ cleared' = IF o \in paired /\ f.what = "launch"
                      THEN cleared \union {f.ask} ELSE cleared
        /\ UNCHANGED <<linkPart, chan, ears, trustPart, verbPart, spawnPart, policy, excuse>>
        /\ Calm

\* The two halves of gateAndAttach: the file is read, and the caller resumes.
GateReads ==
    \E g \in gates :
        /\ g.phase = "read"
        /\ gates' = (gates \ {g}) \union
               {[g EXCEPT !.phase = IF AskedBy[g.ask] \in paired THEN "yes" ELSE "no"]}
        /\ UNCHANGED <<linkPart, chan, ears, handling, lines, cleared, trustPart>>
        /\ UNCHANGED <<verbPart, spawnPart, policy, excuse>> /\ Calm

\* The refusal of an unknown owner names no room, so a command in the control
\* room does not get it.  A channel that exists by now makes this frame lost.
GateAndAttach ==
    \E g \in gates :
        LET o == AskedBy[g.ask] IN
        /\ g.phase \in {"yes", "no"}
        /\ gates' = gates \ {g}
        /\ IF g.phase = "yes" /\ chan[o] = 0
           THEN /\ chan' = [chan EXCEPT ![o] = g.on]
                /\ ears' = [ears EXCEPT ![g.on][o] = @ + 1]
                /\ handling' = Handled(g.ask, g.what, 1)
           ELSE UNCHANGED <<chan, ears, handling>>
        /\ UNCHANGED <<linkPart, lines, cleared, trustPart, verbPart>>
        /\ UNCHANGED <<spawnPart, policy, excuse>> /\ Calm

\* An error over the channel reaches every command of the device that is
\* connected, or is dropped because the relay is down.
Refuse(q) ==
    \/ UNCHANGED errs
    \/ errs' = errs \union {p \in Asks : /\ AskedBy[p] = AskedBy[q]
                                         /\ verb[p] \in {"listing", "ready", "waiting"}}

\* The lister of stored sessions returns, or throws and is reported.
ListStored(q) ==
    /\ handling[q]["list"] > 0
    /\ handling' = [handling EXCEPT ![q]["list"] = @ - 1]
    /\ \/ verb' = [verb EXCEPT ![q] = IF @ = "listing" THEN "ready" ELSE @] /\ UNCHANGED errs
       \/ UNCHANGED verb /\ Refuse(q)
    /\ UNCHANGED <<linkPart, chan, ears, gates, lines, cleared, trustPart, before>>
    /\ UNCHANGED <<spawnPart, policy, excuse>> /\ Calm

\* A launch that trusts the channel it came over (mutant).
RecheckSkipped(q) ==
    /\ handling[q]["read"] > 0
    /\ handling' = [handling EXCEPT ![q]["read"] = @ - 1, ![q]["yes"] = @ + 1]
    /\ UNCHANGED <<linkPart, chan, ears, gates, lines, cleared, trustPart>>
    /\ UNCHANGED <<verbPart, spawnPart, policy, excuse>> /\ Calm

\* _findKnownPeer of the launch reads peers.json.
Recheck(q) ==
    /\ handling[q]["read"] > 0
    /\ handling' = [handling EXCEPT ![q]["read"] = @ - 1,
                              ![q][IF AskedBy[q] \in paired THEN "yes" ELSE "no"] = @ + 1]
    /\ UNCHANGED <<linkPart, chan, ears, gates, lines, cleared, trustPart>>
    /\ UNCHANGED <<verbPart, spawnPart, policy, excuse>> /\ Calm

LaunchRefused(q) ==
    /\ \E p \in {"yes", "no"} :
           /\ handling[q][p] > 0 /\ (p = "yes" => policy = "elsewhere")
           /\ handling' = [handling EXCEPT ![q][p] = @ - 1]
    /\ Refuse(q)
    /\ UNCHANGED <<linkPart, chan, ears, gates, lines, cleared, trustPart>>
    /\ UNCHANGED <<verb, before, spawnPart, policy, excuse>> /\ Calm

\* The backend is read from the configuration.  tmux has-session answers before
\* the child that creates the session has run.
launchSession(q) ==
    /\ handling[q]["yes"] > 0 /\ policy # "elsewhere"
    /\ handling' = [handling EXCEPT ![q]["yes"] = @ - 1]
    /\ \/ \E how \in {"workspace", IF windows # {} THEN "new-window" ELSE "new-session"} :
              /\ spawned' = spawned \union {[ask |-> q, how |-> how]}
              /\ launched' = [launched EXCEPT ![q] = @ + 1]
       \* no such directory, or the backend is not installed: only logged
       \/ UNCHANGED <<spawned, launched>>
    /\ UNCHANGED <<linkPart, chan, ears, gates, lines, cleared, trustPart>>
    /\ UNCHANGED <<verbPart, rooms, windows, policy, excuse>> /\ Calm

\* A child ends: tmux refuses a second session of one name and a window in none.
SpawnEnds ==
    \E s \in spawned :
        /\ \/ /\ s.how = "workspace"
              /\ spawned' = (spawned \ {s}) \union {[s EXCEPT !.how = "agent"]}
              /\ UNCHANGED <<rooms, windows>>
           \/ /\ s.how = "agent"
              /\ spawned' = spawned \ {s}
              /\ rooms' = rooms \union {s.ask} /\ UNCHANGED windows
           \/ /\ s.how = (IF windows = {} THEN "new-session" ELSE "new-window")
              /\ spawned' = spawned \ {s}
              /\ rooms' = rooms \union {s.ask} /\ windows' = windows \union {s.ask}
           \* herdr or tmux refuses, or pi does not come up: only logged
           \/ spawned' = spawned \ {s} /\ UNCHANGED <<rooms, windows>>
        /\ UNCHANGED <<linkPart, ownerPart, trustPart, verbPart, launched, policy, excuse>>
        /\ Calm

\* A session ends.
SessionEnds ==
    /\ Edit
    /\ \E q \in rooms : rooms' = rooms \ {q} /\ windows' = windows \ {q}
    /\ UNCHANGED <<linkPart, ownerPart, trustPart, verbPart, spawned, launched, policy, excuse>>

LaunchInit ==
    /\ dial = [d \in Dials |-> IF d = 1 THEN "dialing" ELSE "closed"]
    /\ latest = 1 /\ redial = FALSE /\ halted = FALSE
    /\ chan = [o \in Devices |-> 0]
    /\ ears = [d \in Dials |-> [o \in Devices |-> 0]]
    /\ gates = {} /\ lines = {}
    /\ handling = [q \in Asks |-> [p \in Phases |-> 0]]
    /\ paired = Devices
    \* the relay has the list of an earlier run, or is a fresh one
    /\ allowed \in {{}, Devices}
    /\ push = [d \in Dials |-> NoPush]
    /\ policy = "on"
    /\ verb = [q \in Asks |-> "idle"] /\ before = [q \in Asks |-> {}]
    /\ errs = {} /\ spawned = {} /\ rooms = {} /\ windows = {}
    /\ launched = [q \in Asks |-> 0] /\ cleared = {}
    /\ excuse = {} /\ failures = MaxFailures /\ edits = MaxEdits

LaunchNext ==
    \/ ReconnectTimer \/ Stop \/ Reconfigure \/ SessionEnds
    \/ \E d \in Dials :
          \/ ConnectResolves(d) \/ ConnectRejects(d) \/ ConnectTimer(d)
          \/ ConnectResolvesLate(d) \/ OnClose(d)
          \/ ListPeers(d) \/ PushAllowList(d) \/ OnMessage(d)
    \/ \E o \in Devices : PairingChanges(o)
    \/ \E q \in Asks :
          \/ StartCreate(q) \/ StartResume(q) \/ launchAndWait(q)
          \/ ErrorArrives(q) \/ VerbTimeout(q) \/ waitForRoom(q)
          \/ ListStored(q) \/ Recheck(q) \/ LaunchRefused(q) \/ launchSession(q)
    \/ GateReads \/ GateAndAttach \/ SpawnEnds

LaunchSpec == LaunchInit /\ [][LaunchNext]_launchVars

\* Timers fire, sockets report how they ended and awaited reads return.
LaunchFairness ==
    /\ WF_launchVars(ReconnectTimer)
    /\ \A d \in Dials :
          /\ WF_launchVars(ConnectResolves(d) \/ ConnectRejects(d))
          /\ WF_launchVars(dial[d] \in {"late", "shut"} /\ OnClose(d))
          /\ WF_launchVars(ListPeers(d))
          /\ WF_launchVars(PushAllowList(d))

(***************************************************************************)
(* Properties.                                                             *)
(***************************************************************************)
\* A session is launched only for a device that was in peers.json at some time
\* after its launch frame had come in (the fresh check of session_launch, which is
\* the launcher's only defence against an owner revoked while attached).
LaunchedForOwner == \A q \in Asks : launched[q] > 0 => q \in cleared

\* One ask starts one session, however often the link was lost and rebuilt,
\* unless a client whose connect had timed out closed late.
LaunchedOnce == "late close" \in excuse \/ \A q \in Asks : launched[q] <= 1

\* A command that reports a rejection although its session was launched has
\* been given the error of another command of its device, or its frame was
\* handled twice after a late close.
RejectionsTrue ==
    "late close" \in excuse \/ \A q \in Asks : verb[q] = "rejected" /\ launched[q] > 0 =>
        \E p \in Asks \ {q} : AskedBy[p] = AskedBy[q] /\ verb[p] # "idle"

\* Remote launches are authorised, happen once and are reported truly
\* (handleUbFrame, gateAndAttach, launchAndWait).
LaunchRight == LaunchTypeOK /\ LaunchedForOwner /\ LaunchedOnce /\ RejectionsTrue

\* Unless stopped, the launcher ends up connected whatever its connects and
\* connections went through, with the relay told of everybody who is paired,
\* unless a pairing overtook its push or the version file could not be written
\* (scheduleReconnect, connectOnce).
LauncherReachable ==
    LaunchFairness =>
        <>[](\/ halted
             \/ /\ \E d \in Dials : dial[d] = "open"
                /\ excuse \intersect {"overtaken", "mint broken"} # {} \/ paired \subseteq allowed)
=============================================================================
