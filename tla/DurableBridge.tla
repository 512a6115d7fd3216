---------------------------- MODULE DurableBridge ----------------------------
(***************************************************************************)
(* The durable host's bridge between the relay and a conversation          *)
(* (unbien-durable/src/bridge.ts): connecting and reconnecting, moving to  *)
(* another conversation (retarget), the owners attached over the           *)
(* connection, pairing and its rotating invite.  Unlike the extension's    *)
(* relay link it has no generations: a function that resumes after an      *)
(* await compares this.relay with its own client at most.  A suspended     *)
(* function is a record of `fns`.  A conversation and its room have the    *)
(* same number; frames, signatures and transcripts are opaque.             *)
(***************************************************************************)
EXTENDS Naturals, Sequences, FiniteSets

CONSTANTS
    Phones,     \* devices of owners
    MaxConvs,   \* conversations, over a behaviour
    MaxDials,   \* RelayClients made, over a behaviour
    MaxShocks   \* lost connections, failed connects, writes and attaches

ASSUME DurableAssumption ==
    IsFiniteSet(Phones) /\ MaxConvs \in Nat \ {0} /\ MaxDials \in Nat \ {0} /\ MaxShocks \in Nat

VARIABLES
    conv,       \* this.conversation
    port,       \* the conversation this.port and this.mirror are of
    source,     \* the conversation this.events watches
    dials,      \* RelayClients made so far: room and socket
    current,    \* this.relay, 0 for null
    myRoom,     \* myRoomId, 0 for null
    retryArmed, \* reconnectTimer # null
    halted,     \* stopped
    chans,      \* activePeers: phone -> the client of its channel, 0 for none
    trusted,    \* peers.json
    rotating,   \* pairingRotationActive
    rotTimer,   \* pairingRotationTimer # null
    token,      \* the token of qrSession
    fns,        \* functions suspended at an await
    made,       \* conversations so far
    crossed,    \* history: a connect or a retarget began while another was under way
    failed,     \* history: an attach threw in a retarget
    shocks

convVars == <<conv, port, source, made>>
relayVars == <<dials, current, myRoom, retryArmed>>
pairVars == <<trusted, rotating, rotTimer, token>>
durableVars == <<convVars, relayVars, halted, chans, pairVars, fns, crossed, failed, shocks>>

Conversations == 1 .. MaxConvs
Dials == 1 .. MaxDials

Functions ==
    [fn : {"connect"}, id : Dials]
    \cup [fn : {"flush", "thinking", "restart", "open"}, conv : Conversations]
    \cup [fn : {"create", "stop"}]
    \cup [fn : {"lookup", "add"}, id : Dials, phone : Phones]
    \cup [fn : {"pair"}, id : Dials, phone : Phones, valid : BOOLEAN]
    \cup [fn : {"rotate"}, paired : BOOLEAN]

DurableTypeOK ==
    /\ conv \in Conversations /\ port \in Conversations /\ source \in Conversations \cup {0}
    /\ Len(dials) <= MaxDials
    /\ \A i \in DOMAIN dials : dials[i] \in [room : Conversations,
                                             at : {"connecting", "open", "closed"}]
    /\ current \in DOMAIN dials \cup {0} /\ myRoom \in Conversations \cup {0}
    /\ chans \in [Phones -> DOMAIN dials \cup {0}]
    /\ trusted \subseteq Phones /\ token \in {"none", "live", "used"}
    /\ fns \subseteq Functions /\ made \in Conversations

(* main() of host.ts: the root conversation is attached, start() connects. *)
DurableInit ==
    /\ conv = 1 /\ port = 1 /\ source = 1 /\ made = 1
    /\ dials = <<[room |-> 1, at |-> "connecting"]>>
    /\ fns = {[fn |-> "connect", id |-> 1]}
    /\ current = 0 /\ myRoom = 0 /\ retryArmed = FALSE /\ halted = FALSE
    /\ chans = [o \in Phones |-> 0]
    /\ trusted \in SUBSET Phones
    /\ rotating = FALSE /\ rotTimer = FALSE /\ token = "none"
    /\ crossed = FALSE /\ failed = FALSE /\ shocks = MaxShocks

Shock == shocks > 0 /\ shocks' = shocks - 1
Waiting(names) == \E t \in fns : t.fn \in names
Retargeting == Waiting({"create", "flush", "thinking", "restart", "open"})

(* Function t has resumed; those of `more` are suspended in its place. *)
Resumed(t, more) == t \in fns /\ fns' = (fns \ {t}) \cup more
CloseDial(i) == [j \in DOMAIN dials |-> IF j = i THEN [dials[j] EXCEPT !.at = "closed"]
                                                  ELSE dials[j]]

-----------------------------------------------------------------------------
(* Connecting *)

(* connectRelay up to its await: a client for the room of this.conversation. *)
Dial(cv) ==
    /\ Len(dials) < MaxDials
    /\ dials' = Append(dials, [room |-> cv, at |-> "connecting"])

Dialled == [fn |-> "connect", id |-> Len(dials) + 1]

scheduleReconnect == retryArmed' = (retryArmed \/ ~ halted)

(* connectRelay after the await: the client is published whatever has      *)
(* happened since, and the invite rotates if it does not already.          *)
ConnectOk(t) ==
    /\ t.fn = "connect"
    /\ dials' = [dials EXCEPT ![t.id].at = "open"]
    /\ current' = t.id /\ myRoom' = dials[t.id].room
    /\ rotating' = (rotating \/ ~ halted)
    /\ Resumed(t, IF rotating \/ halted THEN {}
                  ELSE {[fn |-> "rotate", paired |-> trusted # {}]})
    /\ UNCHANGED <<convVars, retryArmed, halted, chans, trusted, rotTimer, token, crossed,
                   failed, shocks>>

(* Mutated form of ConnectFails: the failure of a reconnect is only logged. *)
ConnectFailsSilently(t) ==
    /\ t.fn = "connect" /\ Shock
    /\ dials' = CloseDial(t.id)
    /\ Resumed(t, {})
    /\ UNCHANGED <<convVars, current, myRoom, retryArmed, halted, chans, pairVars, crossed, failed>>

ConnectFails(t) ==
    /\ t.fn = "connect" /\ Shock
    /\ dials' = CloseDial(t.id)
    /\ scheduleReconnect
    /\ Resumed(t, {})
    /\ UNCHANGED <<convVars, current, myRoom, halted, chans, pairVars, crossed, failed>>

ReconnectTimer ==
    /\ retryArmed /\ retryArmed' = FALSE
    /\ Dial(conv)
    /\ fns' = fns \cup {Dialled}
    /\ crossed' = (crossed \/ Retargeting \/ Waiting({"connect"}) \/ current # 0)
    /\ UNCHANGED <<convVars, current, myRoom, halted, chans, pairVars, failed, shocks>>

(* The socket of a client closes: its "close" handler of connectRelay. *)
OnClose(i) ==
    /\ i \in DOMAIN dials /\ dials[i].at = "open" /\ Shock
    /\ dials' = CloseDial(i)
    /\ IF current = i /\ ~ halted
       THEN current' = 0 /\ scheduleReconnect
       ELSE UNCHANGED <<current, retryArmed>>
    /\ UNCHANGED <<convVars, myRoom, halted, chans, pairVars, fns, crossed, failed>>

-----------------------------------------------------------------------------
(* Owners.  A line reaches the listener of the client it came in on.       *)

Up(i) == i \in DOMAIN dials /\ dials[i].at = "open"

(* Bound: one line of a phone is being handled at a time. *)
NoLine(o) == \A t \in fns : t.fn \in {"lookup", "pair", "add"} => t.phone # o

(* onMsg of installAutoListener for a line that asks for nothing special. *)
OnMsg(o) ==
    /\ Up(current) /\ chans[o] = 0 /\ NoLine(o)
    /\ fns' = fns \cup {[fn |-> "lookup", id |-> current, phone |-> o]}
    /\ UNCHANGED <<convVars, relayVars, halted, chans, pairVars, crossed, failed, shocks>>

(* attachOwner for a known peer; an unknown one is told so. *)
AttachKnown(t) ==
    /\ t.fn = "lookup"
    /\ Resumed(t, {})
    /\ chans' = IF current = t.id /\ t.phone \in trusted
                THEN [chans EXCEPT ![t.phone] = t.id] ELSE chans
    /\ UNCHANGED <<convVars, relayVars, halted, pairVars, crossed, failed, shocks>>

(* A pair_request, with the token of the current invite or another one. *)
OnPairRequest(o, valid) ==
    /\ Up(current) /\ NoLine(o)
    /\ fns' = fns \cup {[fn |-> "pair", id |-> current, phone |-> o, valid |-> valid]}
    /\ UNCHANGED <<convVars, relayVars, halted, chans, pairVars, crossed, failed, shocks>>

AttachIfNone(o, i) == chans' = [chans EXCEPT ![o] = IF @ = 0 THEN i ELSE @]

(* handlePairRequest after _findKnownPeer: confirm a known owner again, or *)
(* consume the token and store the new one.                                *)
PairKnown(t) ==
    /\ t.fn = "pair"
    /\ IF t.phone \in trusted
       THEN /\ IF myRoom # 0 THEN AttachIfNone(t.phone, t.id) ELSE UNCHANGED chans
            /\ Resumed(t, {}) /\ UNCHANGED token
       ELSE IF t.valid /\ token = "live"
       THEN /\ token' = "used"
            /\ Resumed(t, IF myRoom # 0
                          THEN {[fn |-> "add", id |-> t.id, phone |-> t.phone]} ELSE {})
            /\ UNCHANGED chans
       ELSE Resumed(t, {}) /\ UNCHANGED <<token, chans>>
    /\ UNCHANGED <<convVars, relayVars, halted, trusted, rotating, rotTimer, crossed, failed,
                   shocks>>

(* addPeer has written; the rest only on the relay the request came from. *)
PairStored(t) ==
    /\ t.fn = "add"
    /\ Resumed(t, {})
    /\ trusted' = trusted \cup {t.phone}
    /\ IF current = t.id
       THEN /\ rotating' = FALSE /\ rotTimer' = FALSE
            /\ AttachIfNone(t.phone, t.id)
       ELSE UNCHANGED <<rotating, rotTimer, chans>>
    /\ UNCHANGED <<convVars, relayVars, halted, token, crossed, failed, shocks>>

PairNotStored(t) ==
    /\ t.fn = "add" /\ Shock
    /\ Resumed(t, {})
    /\ UNCHANGED <<convVars, relayVars, halted, chans, pairVars, crossed, failed>>

-----------------------------------------------------------------------------
(* The rotating invite *)

(* rotatePairingQR after listPeers, which read the file at some time of the await. *)
RotateInvite(t) ==
    /\ t.fn = "rotate"
    /\ Resumed(t, {})
    /\ \E paired \in {t.paired, trusted # {}} :
          IF paired THEN /\ rotating' = FALSE /\ rotTimer' = FALSE
                         /\ UNCHANGED token
          ELSE /\ token' = "live" /\ rotTimer' = TRUE
               /\ UNCHANGED rotating
    /\ UNCHANGED <<convVars, relayVars, halted, chans, trusted, crossed, failed, shocks>>

RotationTimer ==
    /\ rotTimer /\ rotTimer' = FALSE
    /\ fns' = IF rotating /\ ~ halted
              THEN fns \cup {[fn |-> "rotate", paired |-> trusted # {}]} ELSE fns
    /\ UNCHANGED <<convVars, relayVars, halted, chans, trusted, rotating, token, crossed,
                   failed, shocks>>

(* A pairing page of the host asks for an invite, rotation or not. *)
forcePairingInvite ==
    /\ ~ halted /\ token' = "live"
    /\ UNCHANGED <<convVars, relayVars, halted, chans, trusted, rotating, rotTimer, fns,
                   crossed, failed, shocks>>

-----------------------------------------------------------------------------
(* Moving to another conversation *)

(* newSession and fork of the session control make the conversation first. *)
CreateConversation ==
    /\ [fn |-> "create"] \notin fns /\ made < MaxConvs
    /\ fns' = fns \cup {[fn |-> "create"]}
    /\ crossed' = (crossed \/ Retargeting \/ Waiting({"connect"}) \/ retryArmed)
    /\ UNCHANGED <<convVars, relayVars, halted, chans, pairVars, failed, shocks>>

OnNewSession(o) == Up(chans[o]) /\ CreateConversation

(* Mutated form of DropRelay: the connection of the old room is forgotten. *)
ForgetRelay ==
    /\ current' = 0 /\ UNCHANGED dials
    /\ chans' = [o \in Phones |-> 0]

(* The part of retarget between the flush and the attach. *)
DropRelay ==
    /\ current' = 0 /\ dials' = CloseDial(current)
    /\ chans' = [o \in Phones |-> 0]

(* retarget: with owners attached it waits for session_shutdown to be flushed. *)
Retarget(t) ==
    /\ t.fn \in {"create", "flush"}
    /\ IF t.fn = "create" /\ \E o \in Phones : chans[o] # 0
       THEN /\ made' = made + 1
            /\ Resumed(t, {[fn |-> "flush", conv |-> made + 1]})
            /\ UNCHANGED <<conv, dials, current, chans>>
       ELSE LET c == IF t.fn = "flush" THEN t.conv ELSE made + 1
            IN  /\ made' = IF t.fn = "flush" THEN made ELSE made + 1
                /\ DropRelay
                /\ conv' = c
                /\ Resumed(t, {[fn |-> "thinking", conv |-> c]})
    /\ UNCHANGED <<port, source, myRoom, retryArmed, halted, pairVars, crossed, failed, shocks>>

(* attach after ensureThinkingLevel: a new mirror and port, the old watch is stopped. *)
AttachPort(t) ==
    /\ t.fn = "thinking"
    /\ port' = t.conv
    /\ Resumed(t, {[fn |-> "restart", conv |-> t.conv]})
    /\ UNCHANGED <<conv, source, made, relayVars, halted, chans, pairVars, crossed, failed, shocks>>

AttachSource(t) ==
    /\ t.fn = "restart"
    /\ source' = t.conv
    /\ Resumed(t, {[fn |-> "open", conv |-> t.conv]})
    /\ UNCHANGED <<conv, port, made, relayVars, halted, chans, pairVars, crossed, failed, shocks>>

(* attach has returned; retarget connects under the room of this.conversation. *)
Attached(t) ==
    /\ t.fn = "open"
    /\ IF halted THEN Resumed(t, {}) /\ UNCHANGED dials
       ELSE Dial(conv) /\ Resumed(t, {Dialled})
    /\ UNCHANGED <<convVars, current, myRoom, retryArmed, halted, chans, pairVars, crossed,
                   failed, shocks>>

AttachThrows(t) ==
    /\ t.fn = "open" /\ Shock
    /\ Resumed(t, {}) /\ failed' = TRUE
    /\ UNCHANGED <<convVars, relayVars, halted, chans, pairVars, crossed>>

(* stop() of a shutdown, and the exit of the process that follows it. *)
Stop ==
    /\ ~ halted /\ halted' = TRUE
    /\ rotating' = FALSE /\ rotTimer' = FALSE /\ token' = "none"
    /\ retryArmed' = FALSE
    /\ fns' = fns \cup {[fn |-> "stop"]}
    /\ UNCHANGED <<convVars, dials, current, myRoom, chans, trusted, crossed, failed, shocks>>

Stopped(t) ==
    /\ t.fn = "stop"
    /\ fns' = {} /\ rotTimer' = FALSE /\ retryArmed' = FALSE
    /\ dials' = [i \in DOMAIN dials |-> [dials[i] EXCEPT !.at = "closed"]]
    /\ current' = 0 /\ myRoom' = 0 /\ source' = 0
    /\ chans' = [o \in Phones |-> 0]
    /\ UNCHANGED <<conv, port, made, halted, trusted, rotating, token, crossed, failed, shocks>>

(* session_fork or terminate of an attached owner; session_sync only answers *)
(* and session_navigate is refused.                                        *)
routeUnBienPlane(o) ==
    /\ Up(chans[o])
    /\ CreateConversation \/ Stop

DurableNext ==
    \/ \E t \in fns :
          \/ ConnectOk(t) \/ ConnectFails(t)
          \/ AttachKnown(t) \/ PairKnown(t) \/ PairStored(t) \/ PairNotStored(t)
          \/ RotateInvite(t)
          \/ Retarget(t) \/ AttachPort(t) \/ AttachSource(t) \/ Attached(t) \/ AttachThrows(t)
          \/ Stopped(t)
    \/ ReconnectTimer \/ RotationTimer \/ forcePairingInvite \/ Stop
    \/ \E i \in Dials : OnClose(i)
    \/ \E o \in Phones :
          \/ OnMsg(o) \/ OnNewSession(o) \/ routeUnBienPlane(o)
          \/ \E valid \in BOOLEAN : OnPairRequest(o, valid)

DurableSpec == DurableInit /\ [][DurableNext]_durableVars

(* Awaits settle and timers fire; a connect that is tried again succeeds. *)
DurableFairness ==
    /\ WF_durableVars(ReconnectTimer)
    /\ \A n \in {"connect", "create", "flush", "thinking", "restart", "open"} :
          WF_durableVars(\E t \in fns :
              /\ t.fn = n
              /\ ConnectOk(t) \/ Retarget(t) \/ AttachPort(t) \/ AttachSource(t) \/ Attached(t))

-----------------------------------------------------------------------------
(* Properties *)

Quiet == ~ halted /\ ~ Retargeting /\ ~ Waiting({"connect"})

(***************************************************************************)
(* When nothing is under way the bridge is of one piece: the published     *)
(* client is in the room of the conversation that the port answers for and *)
(* the watch follows, and no other connection has been left open.  Moves   *)
(* and connects that crossed each other are excepted: nothing in           *)
(* connectRelay or retarget notices that it was overtaken.                 *)
(***************************************************************************)
OneConversation ==
    DurableTypeOK /\
    (Quiet /\ ~ crossed /\ ~ failed =>
        /\ port = conv /\ source = conv
        /\ current # 0 => dials[current].room = conv /\ myRoom = conv
        /\ current = 0 => retryArmed
        /\ \A i \in DOMAIN dials : dials[i].at = "open" => i = current)

(***************************************************************************)
(* A running host is connected again in the end, after lost connections,   *)
(* failed retries and moves, unless an attach threw in a move.             *)
(***************************************************************************)
HostReachable == DurableFairness =>
    (~ halted ~> (halted \/ failed \/ Up(current) \/ Len(dials) = MaxDials))

(***************************************************************************)
(* A move stops everything of the old conversation (bridge.ts:297-301):    *)
(* once moves and connects are over, one connection is open, in the room   *)
(* of the conversation.  False: retarget leaves an armed retry and a       *)
(* connect in flight alone, and each publishes a client of its own.        *)
(***************************************************************************)
OneClient ==
    Quiet => \A i \in DOMAIN dials :
                dials[i].at = "open" => i = current /\ dials[i].room = conv

(***************************************************************************)
(* After a reconnect a known peer that writes is attached (the listener's  *)
(* "reconnect attach for known peers", bridge.ts:457-459): its line finds  *)
(* no channel, or one over this connection.  False: the handler of the     *)
(* lost connection leaves activePeers as it was.                           *)
(***************************************************************************)
ReconnectAttaches ==
    Quiet /\ Up(current) => \A o \in Phones : chans[o] \in {0, current}
==============================================================================
